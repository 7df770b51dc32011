------------------------- MODULE TimelineCacheProofs ------------------------
(***************************************************************************)
(* Theorems about the timelines, for any videos, any number of calls and of  *)
(* edits: what is about to be cached is fresh; the size of the cache is      *)
(* never less than what it holds; types.                                     *)
(***************************************************************************)
EXTENDS TimelineCache, WellFoundedInduction, FiniteSetTheorems, TLAPS

(***************************************************************************)
(* Types, as far as freshness needs them: the sum that bounds the versions   *)
(* comes later.                                                              *)
(***************************************************************************)

Timeline == [of : Videos, version : Nat]

Kinds == {"none", "get", "preload", "regenerate", "stats", "clear"}
Generating == {"invalidate", "lookup", "check", "load", "parse", "save", "lock", "room", "count",
               "insert"}
AnyCall == [kind : Kinds, at : Generating \cup {"unmade", "map", "size", "done"},
            video : Videos \cup {None}, data : Timeline \cup {None}]

TypeInv ==
    /\ calls \in [Calls -> AnyCall]
    /\ version \in [Videos -> Nat]
    /\ file \in [Files -> Timeline \cup {None}]
    /\ \A c \in Calls : calls[c].at \in Generating => calls[c].video \in Videos

(***************************************************************************)
(* Freshness.  As long as no edit raced with a call for the video: a        *)
(* timeline that a call read or generated is the video's own, and so is     *)
(* that of a timeline file newer than the video; a file to be loaded is     *)
(* newer than the video.                                                    *)
(***************************************************************************)

Current(v) == [of |-> v, version |-> version[v]]

Quiet(v) == Unshared(v) /\ v \notin raced

Held == {"save", "lock", "room", "count", "insert"}

HeldIsCurrent == \A c \in Calls :
    calls[c].at \in Held /\ Quiet(calls[c].video) => calls[c].data = Current(calls[c].video)

LoadedIsValid == \A c \in Calls :
    calls[c].at = "load" /\ Quiet(calls[c].video) => calls[c].video \in valid

ValidIsCurrent == \A v \in Videos :
    v \in valid /\ Quiet(v) => file[TimelinePath[v]] = Current(v)

FreshInv == TypeInv /\ HeldIsCurrent /\ LoadedIsValid /\ ValidIsCurrent

LEMMA FreshInit == Init => FreshInv
<1> SUFFICES ASSUME Init PROVE FreshInv
  OBVIOUS
<1>1. NoCall \in AnyCall /\ NoCall.at = "unmade"
  BY DEF NoCall, AnyCall, Kinds, Generating
<1>2. \A c \in Calls : calls[c] = NoCall
  BY DEF Init
<1>3. TypeInv
  BY <1>1 DEF Init, TypeInv, Generating
<1>4. valid = {}
  BY DEF Init
<1> QED
  BY <1>1, <1>2, <1>3, <1>4 DEF FreshInv, HeldIsCurrent, Held, LoadedIsValid, ValidIsCurrent

LEMMA FreshSame == ASSUME FreshInv, calls' = calls, UNCHANGED disk PROVE FreshInv'
<1>1. version' = version /\ file' = file /\ valid' = valid /\ raced' = raced
  BY DEF disk
<1>2. \A v : Quiet(v)' = Quiet(v) /\ Current(v)' = Current(v)
  BY <1>1 DEF Quiet, Current, Unshared
<1>3. TypeInv'
  BY <1>1 DEF FreshInv, TypeInv
<1>4. HeldIsCurrent' /\ LoadedIsValid' /\ ValidIsCurrent'
  BY <1>1, <1>2 DEF FreshInv, HeldIsCurrent, LoadedIsValid, ValidIsCurrent
<1> QED
  BY <1>3, <1>4 DEF FreshInv

\* A step that gives call c the record r and touches nothing on the disk.
LEMMA FreshCall ==
    ASSUME FreshInv, NEW c \in Calls, NEW r \in AnyCall, calls' = [calls EXCEPT ![c] = r],
           UNCHANGED disk,
           r.at \in Generating => r.video \in Videos,
           r.at \in Held /\ Quiet(r.video) => r.data = Current(r.video),
           r.at = "load" /\ Quiet(r.video) => r.video \in valid
    PROVE  FreshInv'
<1>1. \A d \in Calls : calls'[d] = IF d = c THEN r ELSE calls[d]
  BY DEF FreshInv, TypeInv
<1>2. version' = version /\ file' = file /\ valid' = valid /\ raced' = raced
  BY DEF disk
<1>3. TypeInv'
  BY <1>1, <1>2 DEF FreshInv, TypeInv
<1>4. \A v : Quiet(v)' = Quiet(v) /\ Current(v)' = Current(v)
  BY <1>2 DEF Quiet, Current, Unshared
<1>5. HeldIsCurrent'
  BY <1>1, <1>4 DEF FreshInv, HeldIsCurrent
<1>6. LoadedIsValid'
  BY <1>1, <1>2, <1>4 DEF FreshInv, LoadedIsValid
<1>7. ValidIsCurrent'
  BY <1>2, <1>4 DEF FreshInv, ValidIsCurrent
<1> QED
  BY <1>3, <1>5, <1>6, <1>7 DEF FreshInv

LEMMA FreshGoTo ==
    ASSUME FreshInv, NEW c \in Calls, NEW at \in Generating \cup {"map", "size", "done"},
           GoTo(c, at), UNCHANGED disk,
           at \in Generating => calls[c].at \in Generating,
           at \in Held => calls[c].at \in Held,
           at = "load" => calls[c].video \in valid
    PROVE  FreshInv'
<1>1. PICK r : r = [calls[c] EXCEPT !.at = at]
  OBVIOUS
<1>2. calls \in [Calls -> AnyCall] /\ calls[c] \in AnyCall
  BY DEF FreshInv, TypeInv
<1>3. /\ r \in AnyCall /\ r.at = at /\ r.video = calls[c].video /\ r.data = calls[c].data
  BY <1>1, <1>2 DEF AnyCall
<1>4. calls' = [calls EXCEPT ![c] = r]
  BY <1>1, <1>2 DEF GoTo
<1>5. r.at \in Generating => r.video \in Videos
  BY <1>3 DEF FreshInv, TypeInv
<1>6. r.at \in Held /\ Quiet(r.video) => r.data = Current(r.video)
  BY <1>3 DEF FreshInv, HeldIsCurrent
<1>7. r.at = "load" /\ Quiet(r.video) => r.video \in valid
  BY <1>3
<1> QED
  BY <1>3, <1>4, <1>5, <1>6, <1>7, FreshCall

\* The record of a call that goes on with a timeline.
LEMMA FreshData ==
    ASSUME FreshInv, NEW c \in Calls, NEW at \in Held, NEW data \in Timeline \cup {None},
           calls' = [calls EXCEPT ![c].at = at, ![c].data = data], UNCHANGED disk,
           calls[c].at \in Generating,
           Quiet(calls[c].video) => data = Current(calls[c].video)
    PROVE  FreshInv'
<1>1. calls \in [Calls -> AnyCall] /\ calls[c] \in AnyCall /\ calls[c].video \in Videos
  BY DEF FreshInv, TypeInv
<1>2. PICK s : s = [calls[c] EXCEPT !.at = at]
  OBVIOUS
<1>3. PICK r : r = [s EXCEPT !.data = data]
  OBVIOUS
<1>4. /\ r \in AnyCall /\ r.at = at /\ r.video = calls[c].video /\ r.data = data
  <2>1. s \in AnyCall /\ s.at = at /\ s.video = calls[c].video
    BY <1>1, <1>2 DEF AnyCall, Held, Generating
  <2> QED
    BY <1>3, <2>1 DEF AnyCall
<1>5. calls' = [calls EXCEPT ![c] = r]
  <2>1. PICK t : t = [calls EXCEPT ![c].at = at]
    OBVIOUS
  <2>2. t = [calls EXCEPT ![c] = s] /\ t[c] = s
    BY <1>1, <1>2, <2>1
  <2>3. calls' = [t EXCEPT ![c].data = data]
    BY <2>1
  <2> QED
    BY <1>1, <1>3, <2>2, <2>3
<1>6. at # "load"
  BY DEF Held
<1>7. /\ r.at \in Generating => r.video \in Videos
      /\ r.at \in Held /\ Quiet(r.video) => r.data = Current(r.video)
      /\ r.at = "load" /\ Quiet(r.video) => r.video \in valid
  BY <1>1, <1>4, <1>6
<1> QED
  BY <1>4, <1>5, <1>7, FreshCall

LEMMA FreshReturn ==
    ASSUME FreshInv, NEW c \in Calls, Return(c), UNCHANGED disk
    PROVE  FreshInv'
<1>1. PICK r : r = [NoCall EXCEPT !.at = "done"]
  OBVIOUS
<1>2. r \in AnyCall /\ r.at = "done"
  BY <1>1 DEF NoCall, AnyCall, Kinds
<1>3. calls' = [calls EXCEPT ![c] = r]
  BY <1>1 DEF Return
<1> QED
  BY <1>2, <1>3, FreshCall DEF Generating, Held

LEMMA FreshMake ==
    ASSUME FreshInv, NEW kind \in Kinds, NEW v \in Videos \cup {None},
           NEW at \in {"lookup", "invalidate", "map"}, Make(kind, v, at),
           at # "map" => v \in Videos
    PROVE  FreshInv'
<1>1. PICK r : r = [kind |-> kind, at |-> at, video |-> v, data |-> None]
  OBVIOUS
<1>2. r \in AnyCall /\ r.at = at /\ r.video = v
  BY <1>1 DEF AnyCall, Generating
<1>3. calls' = [calls EXCEPT ![made + 1] = r] /\ UNCHANGED disk
  BY <1>1 DEF Make
<1>4. CASE made + 1 \in Calls
  BY <1>2, <1>3, <1>4, FreshCall DEF Generating, Held
<1>5. CASE made + 1 \notin Calls
  <2>1. calls' = calls
    BY <1>3, <1>5 DEF FreshInv, TypeInv
  <2> QED
    BY <1>3, <2>1, FreshSame
<1> QED
  BY <1>4, <1>5

LEMMA FreshSave ==
    ASSUME FreshInv, NEW c \in Calls, Save(c)
    PROVE  FreshInv'
<1>1. CASE Return(c) /\ UNCHANGED <<file, valid>>
  BY <1>1, FreshReturn DEF Save, disk
<1> DEFINE u == calls[c].video
<1>2. CASE /\ GoTo(c, "lock")
           /\ file' = [file EXCEPT ![TimelinePath[u]] = calls[c].data]
           /\ valid' = valid \cup {v \in Videos : TimelinePath[v] = TimelinePath[u]}
  <2>1. /\ calls \in [Calls -> AnyCall] /\ calls[c] \in AnyCall /\ calls[c].at = "save"
        /\ u \in Videos /\ version' = version /\ raced' = raced
    BY DEF FreshInv, TypeInv, Save, Generating
  <2>2. PICK r : r = [calls[c] EXCEPT !.at = "lock"]
    OBVIOUS
  <2>3. r \in AnyCall /\ r.at = "lock" /\ r.video = u /\ r.data = calls[c].data
    BY <2>1, <2>2 DEF AnyCall, Generating
  <2>4. calls' = [calls EXCEPT ![c] = r]
    BY <1>2, <2>1, <2>2 DEF GoTo
  <2>5. \A d \in Calls : calls'[d] = IF d = c THEN r ELSE calls[d]
    BY <2>1, <2>4
  <2>6. calls[c].data \in Timeline \cup {None} /\ TimelinePath[u] \in Files
    BY <2>1 DEF AnyCall, Files
  <2>7. file \in [Files -> Timeline \cup {None}]
    BY DEF FreshInv, TypeInv
  <2>8. /\ file' \in [Files -> Timeline \cup {None}]
        /\ \A p \in Files : file'[p] = IF p = TimelinePath[u] THEN calls[c].data ELSE file[p]
    BY <1>2, <2>6, <2>7
  <2>9. \A v : Quiet(v)' = Quiet(v) /\ Current(v)' = Current(v)
    BY <2>1 DEF Quiet, Current, Unshared
  <2>10. TypeInv'
    BY <2>1, <2>3, <2>4, <2>5, <2>8 DEF FreshInv, TypeInv
  <2>11. HeldIsCurrent'
    BY <2>1, <2>3, <2>5, <2>9 DEF FreshInv, HeldIsCurrent, Held
  <2>12. LoadedIsValid'
    BY <1>2, <2>3, <2>5, <2>9 DEF FreshInv, LoadedIsValid
  <2>13. ValidIsCurrent'
    <3>1. SUFFICES ASSUME NEW v \in Videos, v \in valid', Quiet(v)
                   PROVE  file'[TimelinePath[v]] = Current(v)
      BY <2>9 DEF ValidIsCurrent
    <3>2. CASE TimelinePath[v] = TimelinePath[u]
      <4>1. u = v
        BY <2>1, <3>1, <3>2 DEF Quiet, Unshared
      <4>2. calls[c].data = Current(u)
        BY <2>1, <3>1, <4>1 DEF FreshInv, HeldIsCurrent, Held
      <4> QED
        BY <2>6, <2>8, <4>1, <4>2
    <3>3. CASE TimelinePath[v] # TimelinePath[u]
      <4>1. v \in valid /\ TimelinePath[v] \in Files
        BY <1>2, <3>1, <3>3 DEF Files
      <4> QED
        BY <2>8, <3>1, <3>3, <4>1 DEF FreshInv, ValidIsCurrent
    <3> QED
      BY <3>2, <3>3
  <2> QED
    BY <2>10, <2>11, <2>12, <2>13 DEF FreshInv
<1> QED
  BY <1>1, <1>2 DEF Save

LEMMA FreshModify ==
    ASSUME FreshInv, NEW w \in Videos, Modify(w)
    PROVE  FreshInv'
<1>1. /\ version \in [Videos -> Nat] /\ version' = [version EXCEPT ![w] = @ + 1]
      /\ valid' = valid \ {w} /\ calls' = calls /\ file' = file
      /\ raced \subseteq raced'
      /\ \A c \in Calls : Running(c) /\ calls[c].video = w => w \in raced'
  BY DEF Modify, FreshInv, TypeInv
<1>2. /\ version' \in [Videos -> Nat]
      /\ \A v \in Videos : v # w => version'[v] = version[v]
  BY <1>1
<1>3. TypeInv'
  BY <1>1, <1>2 DEF FreshInv, TypeInv
<1>4. \A v : Quiet(v)' => Quiet(v)
  BY <1>1 DEF Quiet, Unshared
<1>5. \A v \in Videos : v # w => Current(v)' = Current(v)
  BY <1>2 DEF Current
<1>6. ASSUME NEW c \in Calls, calls[c].at \in Held \cup {"load"}, Quiet(calls[c].video)'
      PROVE  calls[c].video \in Videos /\ calls[c].video # w
  <2>1. Running(c) /\ calls[c].video \in Videos
    BY <1>6 DEF Running, Held, Generating, FreshInv, TypeInv
  <2> QED
    BY <1>1, <1>6, <2>1 DEF Quiet
<1>7. HeldIsCurrent'
  BY <1>1, <1>4, <1>5, <1>6 DEF FreshInv, HeldIsCurrent
<1>8. LoadedIsValid'
  BY <1>1, <1>4, <1>6 DEF FreshInv, LoadedIsValid
<1>9. ValidIsCurrent'
  BY <1>1, <1>4, <1>5 DEF FreshInv, ValidIsCurrent
<1> QED
  BY <1>3, <1>7, <1>8, <1>9 DEF FreshInv

LEMMA FreshStep ==
    ASSUME FreshInv, NEW c \in Calls, CallStep(c)
    PROVE  FreshInv'
<1>0. calls \in [Calls -> AnyCall] /\ version \in [Videos -> Nat] /\ file \in [Files -> Timeline \cup {None}]
  BY DEF FreshInv, TypeInv
<1>1. CASE Invalidate(c)
  BY <1>1, FreshGoTo DEF Invalidate, Generating, Held
<1>2. CASE Lookup(c)
  BY <1>2, FreshGoTo, FreshReturn DEF Lookup, Generating, Held
<1>3. CASE Check(c)
  BY <1>3, FreshGoTo DEF Check, Generating, Held
<1>4. CASE Load(c)
  <2>1. calls[c].at = "load" /\ UNCHANGED disk
    BY <1>4 DEF Load
  <2>2. CASE GoTo(c, "parse")
    BY <2>1, <2>2, FreshGoTo DEF Generating, Held
  <2>3. CASE calls' = [calls EXCEPT ![c].at = "lock",
                                   ![c].data = file[TimelinePath[calls[c].video]]]
    <3>1. calls[c].video \in Videos /\ calls[c].at \in Generating
      BY <2>1 DEF FreshInv, TypeInv, Generating
    <3>2. file[TimelinePath[calls[c].video]] \in Timeline \cup {None}
      BY <1>0, <3>1 DEF Files
    <3>3. Quiet(calls[c].video) => file[TimelinePath[calls[c].video]] = Current(calls[c].video)
      BY <2>1, <3>1 DEF FreshInv, LoadedIsValid, ValidIsCurrent
    <3> QED
      BY <2>1, <2>3, <3>1, <3>2, <3>3, FreshData DEF Held
  <2> QED
    BY <1>4, <2>2, <2>3 DEF Load
<1>5. CASE Parse(c)
  <2>1. calls[c].at = "parse" /\ UNCHANGED disk
    BY <1>5 DEF Parse
  <2>2. CASE Return(c)
    BY <2>1, <2>2, FreshReturn
  <2>3. CASE calls' = [calls EXCEPT ![c].at = "save",
                                   ![c].data = [of |-> calls[c].video,
                                                version |-> version[calls[c].video]]]
    <3>1. calls[c].video \in Videos /\ calls[c].at \in Generating
      BY <2>1 DEF FreshInv, TypeInv, Generating
    <3>2. Current(calls[c].video) \in Timeline
      BY <1>0, <3>1 DEF Current, Timeline
    <3> QED
      BY <2>1, <2>3, <3>1, <3>2, FreshData DEF Held, Current
  <2> QED
    BY <1>5, <2>2, <2>3 DEF Parse
<1>6. CASE Save(c)
  BY <1>6, FreshSave
<1>7. CASE LockSize(c)
  <2>1. calls[c].at = "lock" /\ UNCHANGED disk
    BY <1>7 DEF LockSize
  <2>2. CASE GoTo(c, "room")
    BY <2>1, <2>2, FreshGoTo DEF Generating, Held
  <2>3. CASE GoTo(c, "insert")
    BY <2>1, <2>3, FreshGoTo DEF Generating, Held
  <2> QED
    BY <1>7, <2>2, <2>3 DEF LockSize
<1>8. CASE MakeRoom(c) \/ Count(c)
  BY <1>8, FreshGoTo DEF MakeRoom, Count, Generating, Held
<1>9. CASE Insert(c) \/ ReadStats(c) \/ ClearAll(c)
  BY <1>9, FreshReturn DEF Insert, ReadStats, ClearAll
<1>10. CASE LockMap(c)
  BY <1>10, FreshGoTo DEF LockMap, Generating, Held
<1> QED
  BY <1>1, <1>2, <1>3, <1>4, <1>5, <1>6, <1>7, <1>8, <1>9, <1>10 DEF CallStep

LEMMA FreshNext == ASSUME FreshInv, [Next]_vars PROVE FreshInv'
<1>1. CASE UNCHANGED vars
  BY <1>1, FreshSame DEF vars, disk
<1>2. ASSUME NEW v \in Videos, Get(v) \/ Preload(v) \/ Regenerate(v) PROVE FreshInv'
  BY <1>2, FreshMake DEF Get, Preload, Regenerate, Kinds
<1>3. CASE Stats \/ Clear
  BY <1>3, FreshMake DEF Stats, Clear, Kinds
<1> QED
  BY <1>1, <1>2, <1>3, FreshModify, FreshStep DEF Next

\* What is about to be cached describes the video as it is, if nobody edited the video
\* while one of its calls was running: for any number of videos, calls and edits.
THEOREM Fresh == Spec => []FreshUnlessRaced
<1>1. FreshInv => FreshUnlessRaced
  BY DEF FreshInv, FreshUnlessRaced, HeldIsCurrent, Held, Quiet, Current
<1> QED
  BY <1>1, FreshInit, FreshNext, PTL DEF Spec

-----------------------------------------------------------------------------
(***************************************************************************)
(* Induction, over the set of the numbers that a fact holds for.            *)
(***************************************************************************)

LEMMA Least ==
    ASSUME NEW T \in SUBSET Nat, T # {}
    PROVE  \E m \in T : \A k \in Nat : k < m => k \notin T
<1>1. PICK R : R = OpToRel(<, Nat)
  OBVIOUS
<1>2. IsWellFoundedOn(R, Nat)
  BY <1>1, NatLessThanWellFounded
<1>3. PICK m \in T : \A y \in T : ~ (<<y, m>> \in R)
  BY <1>2, WFMin
<1>4. \A a, b \in Nat : a < b => <<a, b>> \in R
  BY <1>1 DEF OpToRel
<1> QED
  BY <1>3, <1>4

LEMMA Induction ==
    ASSUME NEW P \in SUBSET Nat, 0 \in P, \A n \in P : n + 1 \in P
    PROVE  \A n \in Nat : n \in P
<1> SUFFICES ASSUME Nat \ P # {} PROVE FALSE
  OBVIOUS
<1>1. PICK m \in Nat \ P : \A k \in Nat : k < m => k \notin Nat \ P
  BY Least
<1>2. m # 0 /\ m - 1 \in Nat /\ m - 1 < m /\ (m - 1) + 1 = m
  BY <1>1
<1>3. m - 1 \in P
  BY <1>1, <1>2
<1> QED
  BY <1>1, <1>2, <1>3

(***************************************************************************)
(* The sums that the folds of the community modules define.                *)
(***************************************************************************)

Pick(T) == CHOOSE x \in T : TRUE

Plus(a, b) == b + a

Less(T, x) == T \ {x}

\* g[T] is the sum of w over T, for the subsets T of D.
SumBody(w, D, g) == [T \in SUBSET D |-> IF T = {} THEN 0 ELSE Plus(g[Less(T, Pick(T))], w[Pick(T)])]

IsSum(w, D, g) ==
    /\ g[{}] = 0
    /\ \A T \in SUBSET D : T # {} =>
          /\ Pick(T) \in T /\ Pick(T) \in D /\ Less(T, Pick(T)) \in SUBSET D
          /\ g[T] = Plus(g[Less(T, Pick(T))], w[Pick(T)])

LEMMA SumUnfolds ==
    ASSUME NEW D, NEW w, NEW g, g = SumBody(w, D, g)
    PROVE  IsSum(w, D, g)
<1>1. \A T : T # {} => Pick(T) \in T
  BY DEF Pick
<1>2. DOMAIN g = SUBSET D
  BY DEF SumBody
<1>3. \A T \in SUBSET D : g[T] = IF T = {} THEN 0 ELSE Plus(g[Less(T, Pick(T))], w[Pick(T)])
  BY DEF SumBody
<1> QED
  BY <1>1, <1>2, <1>3 DEF Less, IsSum

\* A smaller set of a finite one.
LEMMA Smaller ==
    ASSUME NEW D, IsFiniteSet(D), NEW T \in SUBSET D, NEW x \in T
    PROVE  /\ IsFiniteSet(T) /\ Cardinality(T) \in Nat /\ Cardinality(T) # 0
           /\ Cardinality(Less(T, x)) = Cardinality(T) - 1
<1>1. IsFiniteSet(T)
  BY FS_Subset
<1>2. Cardinality(T) \in Nat /\ Cardinality(Less(T, x)) = Cardinality(T) - 1
  BY <1>1, FS_CardinalityType, FS_RemoveElement DEF Less
<1>3. Cardinality(T) # 0
  BY <1>1, FS_EmptySet
<1> QED
  BY <1>1, <1>2, <1>3

LEMMA EmptyOfSize ==
    ASSUME NEW D, IsFiniteSet(D), NEW T \in SUBSET D
    PROVE  Cardinality(T) \in Nat /\ (Cardinality(T) = 0 <=> T = {})
<1>1. IsFiniteSet(T)
  BY FS_Subset
<1> QED
  BY <1>1, FS_CardinalityType, FS_EmptySet

LEMMA SumExists ==
    ASSUME NEW D, IsFiniteSet(D), NEW w \in [D -> Nat]
    PROVE  \E g : g = SumBody(w, D, g)
<1> DEFINE Upto(n, f) == \A T \in SUBSET D : Cardinality(T) <= n =>
                             f[T] = IF T = {} THEN 0 ELSE Plus(f[Less(T, Pick(T))], w[Pick(T)])
           P == {n \in Nat : \E f \in [SUBSET D -> Nat] : Upto(n, f)}
<1>1. 0 \in P
  <2>1. PICK f \in [SUBSET D -> Nat] : f = [T \in SUBSET D |-> 0]
    OBVIOUS
  <2>2. ASSUME NEW T \in SUBSET D, Cardinality(T) <= 0 PROVE T = {}
    <3>1. Cardinality(T) \in Nat /\ (Cardinality(T) = 0 <=> T = {})
      BY EmptyOfSize
    <3> QED
      BY <2>2, <3>1
  <2>3. Upto(0, f)
    BY <2>1, <2>2
  <2> QED
    BY <2>3
<1>2. ASSUME NEW n \in P PROVE n + 1 \in P
  <2>1. n \in Nat /\ \E f \in [SUBSET D -> Nat] : Upto(n, f)
    BY <1>2
  <2>2. PICK f \in [SUBSET D -> Nat] : Upto(n, f)
    BY <2>1
  <2>3. PICK g : g = [T \in SUBSET D |-> IF Cardinality(T) = n + 1 /\ T # {} THEN Plus(f[Less(T, Pick(T))], w[Pick(T)]) ELSE f[T]]
    OBVIOUS
  <2>4. \A T \in SUBSET D : T # {} =>
            /\ Pick(T) \in T /\ Pick(T) \in D /\ Less(T, Pick(T)) \in SUBSET D
            /\ Cardinality(T) \in Nat /\ Cardinality(Less(T, Pick(T))) = Cardinality(T) - 1
    <3>1. \A T : T # {} => Pick(T) \in T
      BY DEF Pick
    <3> QED
      BY <3>1, Smaller DEF Less
  <2>5. g \in [SUBSET D -> Nat]
    <3>1. ASSUME NEW T \in SUBSET D PROVE g[T] \in Nat
      BY <2>3, <2>4 DEF Plus
    <3> QED
      BY <2>3, <3>1
  <2>6. Upto(n + 1, g)
    <3> SUFFICES ASSUME NEW T \in SUBSET D, Cardinality(T) <= n + 1
                 PROVE  g[T] = IF T = {} THEN 0 ELSE Plus(g[Less(T, Pick(T))], w[Pick(T)])
      OBVIOUS
    <3>1. CASE T = {}
      <4>1. Cardinality({}) = 0
        BY FS_EmptySet
      <4>2. f[T] = 0 /\ g[T] = f[T]
        BY <2>1, <2>2, <2>3, <3>1, <4>1
      <4> QED
        BY <3>1, <4>2
    <3>2. CASE T # {}
      <4>1. PICK U \in SUBSET D : U = Less(T, Pick(T))
        BY <2>4, <3>2
      <4>2. Cardinality(U) = Cardinality(T) - 1 /\ Cardinality(T) \in Nat
        BY <2>4, <3>2, <4>1
      <4>3. g[U] = f[U]
        BY <2>1, <2>3, <4>2
      <4>4. g[T] = Plus(f[U], w[Pick(T)])
        <5>1. CASE Cardinality(T) = n + 1
          BY <2>3, <3>2, <4>1, <5>1
        <5>2. CASE Cardinality(T) # n + 1
          <6>1. Cardinality(T) <= n /\ g[T] = f[T]
            BY <2>1, <2>3, <4>2, <5>2
          <6> QED
            BY <2>2, <3>2, <4>1, <6>1
        <5> QED
          BY <5>1, <5>2
      <4> QED
        BY <3>2, <4>1, <4>3, <4>4
    <3> QED
      BY <3>1, <3>2
  <2>7. \E g_1 \in [SUBSET D -> Nat] : Upto(n + 1, g_1)
    <3> HIDE DEF Upto
    <3> QED
      BY <2>5, <2>6
  <2> QED
    BY <2>1, <2>7
<1>3. \A n \in Nat : n \in P
  <2>1. P \in SUBSET Nat
    OBVIOUS
  <2> HIDE DEF P
  <2> QED
    BY <1>1, <1>2, <2>1, Induction
<1>4. Cardinality(D) \in Nat
  BY FS_CardinalityType
<1>5. PICK f \in [SUBSET D -> Nat] : Upto(Cardinality(D), f)
  BY <1>3, <1>4
<1>6. \A T \in SUBSET D : Cardinality(T) <= Cardinality(D)
  BY FS_Subset
<1>7. f = SumBody(w, D, f)
  BY <1>5, <1>6 DEF SumBody
<1> QED
  BY <1>7

\* The sum over a set is a number, and so is that of each of its subsets.
LEMMA SumIsNat ==
    ASSUME NEW D, IsFiniteSet(D), NEW w \in [D -> Nat], NEW g, IsSum(w, D, g)
    PROVE  \A T \in SUBSET D : g[T] \in Nat
<1>0. /\ g[{}] = 0
      /\ \A T \in SUBSET D : T # {} =>
            /\ Pick(T) \in T /\ Pick(T) \in D /\ Less(T, Pick(T)) \in SUBSET D
            /\ g[T] = Plus(g[Less(T, Pick(T))], w[Pick(T)])
  BY DEF IsSum
<1> DEFINE P == {n \in Nat : \A T \in SUBSET D : Cardinality(T) = n => g[T] \in Nat}
<1>1. 0 \in P
  <2>1. ASSUME NEW T \in SUBSET D, Cardinality(T) = 0 PROVE g[T] \in Nat
    <3>1. T = {}
      BY <2>1, EmptyOfSize
    <3> QED
      BY <1>0, <3>1
  <2> QED
    BY <2>1
<1>2. ASSUME NEW n \in P PROVE n + 1 \in P
  <2>1. n \in Nat /\ \A T \in SUBSET D : Cardinality(T) = n => g[T] \in Nat
    BY <1>2
  <2>2. ASSUME NEW T \in SUBSET D, Cardinality(T) = n + 1 PROVE g[T] \in Nat
    <3>1. T # {}
      BY <2>1, <2>2, EmptyOfSize
    <3>2. /\ Pick(T) \in T /\ Pick(T) \in D /\ Less(T, Pick(T)) \in SUBSET D
          /\ g[T] = Plus(g[Less(T, Pick(T))], w[Pick(T)])
      BY <1>0, <3>1
    <3>3. Cardinality(Less(T, Pick(T))) = n
      BY <2>1, <2>2, <3>2, Smaller
    <3> QED
      BY <2>1, <3>2, <3>3 DEF Plus
  <2> QED
    BY <2>1, <2>2
<1>3. \A n \in Nat : n \in P
  <2>1. P \in SUBSET Nat
    OBVIOUS
  <2> HIDE DEF P
  <2> QED
    BY <1>1, <1>2, <2>1, Induction
<1> QED
  BY <1>3, FS_Subset, FS_CardinalityType

\* Sums of the same numbers over the same set are the same.
LEMMA SumSame ==
    ASSUME NEW D, IsFiniteSet(D), NEW w, NEW g, IsSum(w, D, g),
           NEW E, NEW v, NEW h, IsSum(v, E, h), D \subseteq E, \A x \in D : w[x] = v[x]
    PROVE  \A T \in SUBSET D : g[T] = h[T]
<1>0. /\ g[{}] = 0
      /\ \A T \in SUBSET D : T # {} =>
            /\ Pick(T) \in T /\ Pick(T) \in D /\ Less(T, Pick(T)) \in SUBSET D
            /\ g[T] = Plus(g[Less(T, Pick(T))], w[Pick(T)])
  BY DEF IsSum
<1>5. h[{}] = 0 /\ \A T \in SUBSET E : T # {} => h[T] = Plus(h[Less(T, Pick(T))], v[Pick(T)])
  BY DEF IsSum
<1> DEFINE P == {n \in Nat : \A T \in SUBSET D : Cardinality(T) = n => g[T] = h[T]}
<1>1. 0 \in P
  <2>1. ASSUME NEW T \in SUBSET D, Cardinality(T) = 0 PROVE g[T] = h[T]
    <3>1. T = {}
      BY <2>1, EmptyOfSize
    <3> QED
      BY <1>0, <1>5, <3>1
  <2> QED
    BY <2>1
<1>2. ASSUME NEW n \in P PROVE n + 1 \in P
  <2>1. n \in Nat /\ \A T \in SUBSET D : Cardinality(T) = n => g[T] = h[T]
    BY <1>2
  <2>2. ASSUME NEW T \in SUBSET D, Cardinality(T) = n + 1 PROVE g[T] = h[T]
    <3>1. T # {} /\ T \in SUBSET E
      BY <2>1, <2>2, EmptyOfSize
    <3>2. /\ Pick(T) \in T /\ Pick(T) \in D /\ Less(T, Pick(T)) \in SUBSET D
          /\ g[T] = Plus(g[Less(T, Pick(T))], w[Pick(T)])
      BY <1>0, <3>1
    <3>3. h[T] = Plus(h[Less(T, Pick(T))], v[Pick(T)])
      BY <1>5, <3>1
    <3>4. Cardinality(Less(T, Pick(T))) = n
      BY <2>1, <2>2, <3>2, Smaller
    <3> QED
      BY <2>1, <3>2, <3>3, <3>4
  <2> QED
    BY <2>1, <2>2
<1>3. \A n \in Nat : n \in P
  <2>1. P \in SUBSET Nat
    OBVIOUS
  <2> HIDE DEF P
  <2> QED
    BY <1>1, <1>2, <2>1, Induction
<1> QED
  BY <1>3, FS_Subset, FS_CardinalityType

\* Whichever element the fold picks first, one more adds its number.
LEMMA SumAdds ==
    ASSUME NEW D, IsFiniteSet(D), NEW w \in [D -> Nat], NEW g, IsSum(w, D, g)
    PROVE  \A T \in SUBSET D : \A x \in T : g[T] = Plus(g[Less(T, x)], w[x])
<1>0. /\ g[{}] = 0
      /\ \A T \in SUBSET D : T # {} =>
            /\ Pick(T) \in T /\ Pick(T) \in D /\ Less(T, Pick(T)) \in SUBSET D
            /\ g[T] = Plus(g[Less(T, Pick(T))], w[Pick(T)])
  BY DEF IsSum
<1> DEFINE P == {n \in Nat : \A T \in SUBSET D : Cardinality(T) = n =>
                                \A x \in T : g[T] = Plus(g[Less(T, x)], w[x])}
<1>1. 0 \in P
  <2>1. ASSUME NEW T \in SUBSET D, Cardinality(T) = 0 PROVE T = {}
    BY <2>1, EmptyOfSize
  <2> QED
    BY <2>1
<1>2. ASSUME NEW n \in P PROVE n + 1 \in P
  <2>1. n \in Nat /\ \A T \in SUBSET D : Cardinality(T) = n => \A x \in T : g[T] = Plus(g[Less(T, x)], w[x])
    BY <1>2
  <2>2. ASSUME NEW T \in SUBSET D, Cardinality(T) = n + 1, NEW x \in T PROVE g[T] = Plus(g[Less(T, x)], w[x])
    <3>1. PICK p, U : p = Pick(T) /\ U = Less(T, p)
      OBVIOUS
    <3>2. p \in T /\ p \in D /\ U \in SUBSET D /\ g[T] = Plus(g[U], w[p])
      BY <1>0, <3>1
    <3>3. Cardinality(U) = n
      BY <2>1, <2>2, <3>1, <3>2, Smaller
    <3>4. CASE p = x
      BY <3>1, <3>2, <3>4
    <3>5. CASE p # x
      <4>1. PICK V \in SUBSET D : V = Less(T, x)
        BY DEF Less
      <4>2. p \in V /\ x \in U /\ Less(V, p) = Less(U, x) /\ Less(U, x) \in SUBSET D
        BY <3>1, <3>2, <3>5, <4>1 DEF Less
      <4>5. Cardinality(V) = n
        BY <2>1, <2>2, <4>1, Smaller
      <4>3. g[U] = Plus(g[Less(U, x)], w[x]) /\ g[V] = Plus(g[Less(V, p)], w[p])
        BY <2>1, <3>2, <3>3, <4>2, <4>5
      <4>4. g[Less(U, x)] \in Nat /\ w[x] \in Nat /\ w[p] \in Nat
        BY <3>2, <4>2, SumIsNat
      <4> QED
        BY <3>2, <4>1, <4>2, <4>3, <4>4 DEF Plus
    <3> QED
      BY <3>4, <3>5
  <2> QED
    BY <2>1, <2>2
<1>3. \A n \in Nat : n \in P
  <2>1. P \in SUBSET Nat
    OBVIOUS
  <2> HIDE DEF P
  <2> QED
    BY <1>1, <1>2, <2>1, Induction
<1> QED
  BY <1>3, FS_Subset, FS_CardinalityType

Agree(v, w, D) == \A i \in D : v[i] = w[i]

IsWeight(w, D) == IsFiniteSet(D) /\ w \in [D -> Nat]

LEMMA SumOfOneMore ==
    ASSUME NEW D, NEW v, NEW g, IsWeight(v, D), IsSum(v, D, g),
           NEW E, NEW w, NEW h, IsWeight(w, E), IsSum(w, E, h),
           NEW x, x \in E, D = Less(E, x), Agree(v, w, D)
    PROVE  h[E] = Plus(g[D], w[x])
<1>0. IsFiniteSet(D) /\ IsFiniteSet(E) /\ w \in [E -> Nat] /\ D \in SUBSET E /\ D \in SUBSET D
  BY DEF Less, IsWeight
<1>1. \A T \in SUBSET E : \A y \in T : h[T] = Plus(h[Less(T, y)], w[y])
  BY <1>0, SumAdds
<1>2. \A T \in SUBSET D : g[T] = h[T]
  BY <1>0, SumSame DEF Agree
<1> QED
  BY <1>0, <1>1, <1>2


\* The sum over a part of a set is no larger.
LEMMA SumGrows ==
    ASSUME NEW D, IsFiniteSet(D), NEW w \in [D -> Nat], NEW g, IsSum(w, D, g)
    PROVE  \A U \in SUBSET D : \A T \in SUBSET U : g[T] <= g[U]
<1> DEFINE P == {n \in Nat : \A U \in SUBSET D : Cardinality(U) = n => \A T \in SUBSET U : g[T] <= g[U]}
<1>0. \A T \in SUBSET D : g[T] \in Nat
  BY SumIsNat
<1>1. 0 \in P
  <2>1. ASSUME NEW U \in SUBSET D, Cardinality(U) = 0, NEW T \in SUBSET U PROVE g[T] <= g[U]
    <3>1. U = {}
      BY <2>1, EmptyOfSize
    <3>2. T = U /\ g[U] \in Nat
      BY <1>0, <3>1
    <3> QED
      BY <3>2
  <2> QED
    BY <2>1
<1>2. ASSUME NEW n \in P PROVE n + 1 \in P
  <2>1. n \in Nat /\ \A U \in SUBSET D : Cardinality(U) = n => \A T \in SUBSET U : g[T] <= g[U]
    BY <1>2
  <2>2. ASSUME NEW U \in SUBSET D, Cardinality(U) = n + 1, NEW T \in SUBSET U PROVE g[T] <= g[U]
    <3>1. CASE T = U
      <4>1. g[U] \in Nat
        BY <1>0
      <4> QED
        BY <3>1, <4>1
    <3>2. CASE T # U
      <4>1. PICK x \in U : x \notin T
        BY <3>2
      <4>2. PICK V : V = Less(U, x)
        OBVIOUS
      <4>3. V \in SUBSET D /\ T \in SUBSET V /\ x \in D
        BY <4>1, <4>2 DEF Less
      <4>4. Cardinality(V) = n
        BY <2>1, <2>2, <4>1, <4>2, Smaller
      <4>5. g[T] <= g[V]
        BY <2>1, <4>3, <4>4
      <4>6. g[U] = Plus(g[V], w[x])
        BY <4>1, <4>2, SumAdds
      <4>7. g[T] \in Nat /\ g[V] \in Nat /\ w[x] \in Nat
        BY <1>0, <4>3
      <4> QED
        BY <4>5, <4>6, <4>7 DEF Plus
    <3> QED
      BY <3>1, <3>2
  <2> QED
    BY <2>1, <2>2
<1>3. \A n \in Nat : n \in P
  <2>1. P \in SUBSET Nat
    OBVIOUS
  <2> HIDE DEF P
  <2> QED
    BY <1>1, <1>2, <2>1, Induction
<1> QED
  BY <1>3, FS_Subset, FS_CardinalityType

(***************************************************************************)
(* The sums of this module: of the versions, and of the sizes.             *)
(***************************************************************************)

SumOf(x, D) == MapThenSumSet(LAMBDA v : x[v], D)

SumFold(x, D, g) ==
    [T \in SUBSET D |-> IF T = {} THEN 0 ELSE x[Pick(T)] + g[T \ {Pick(T)}]]

LEMMA SumFolds == \A x, D : SumOf(x, D) = (CHOOSE g : g = SumFold(x, D, g))[D]
  BY Zenon DEF SumOf, MapThenSumSet, MapThenFoldSet, SumFold, Pick

LEMMA SumOfIsSum ==
    ASSUME NEW D, IsFiniteSet(D), NEW x \in [D -> Nat]
    PROVE  \E g : IsSum(x, D, g) /\ SumOf(x, D) = g[D]
<1>1. \A g : SumBody(x, D, g) = SumFold(x, D, g)
  BY Zenon DEF SumBody, SumFold, Plus, Less
<1>2. PICK f : f = SumFold(x, D, f)
  BY <1>1, SumExists
<1>3. PICK h : h = (CHOOSE g : g = SumFold(x, D, g))
  OBVIOUS
<1>4. h = SumFold(x, D, h)
  BY <1>2, <1>3, Zenon
<1>5. h = SumBody(x, D, h)
  BY <1>1, <1>4
<1>6. IsSum(x, D, h)
  BY <1>5, SumUnfolds
<1>7. SumOf(x, D) = h[D]
  BY <1>3, SumFolds
<1> QED
  BY <1>6, <1>7

LEMMA PartOfSum ==
    ASSUME NEW D, IsFiniteSet(D), NEW x \in [D -> Nat], NEW v \in D
    PROVE  x[v] \in Nat /\ SumOf(x, D) \in Nat /\ x[v] <= SumOf(x, D)
<1>1. PICK g : IsSum(x, D, g) /\ SumOf(x, D) = g[D]
  BY SumOfIsSum
<1>2. PICK U : U = Less(D, v)
  OBVIOUS
<1>3. U \in SUBSET D
  BY <1>2 DEF Less
<1>4. g[D] \in Nat /\ g[U] \in Nat
  BY <1>1, <1>3, SumIsNat
<1>5. g[D] = Plus(g[U], x[v])
  BY <1>1, <1>2, SumAdds
<1> QED
  BY <1>1, <1>4, <1>5 DEF Plus

\* The timelines in a cache k, and their size.
CachedIn(k) == {v \in Videos : k[v] # None}

SizeIn(k, D) == MapThenSumSet(LAMBDA v : Size[k[v].of], D)

SizesOf(k) == [v \in CachedIn(k) |-> Size[k[v].of]]

SizeFold(k, D, g) ==
    [T \in SUBSET D |-> IF T = {} THEN 0 ELSE Size[k[Pick(T)].of] + g[T \ {Pick(T)}]]

LEMMA SizeFolds == \A k, D : SizeIn(k, D) = (CHOOSE g : g = SizeFold(k, D, g))[D]
  BY Zenon DEF SizeIn, MapThenSumSet, MapThenFoldSet, SizeFold, Pick

IsCache(k) == \A v \in Videos : k[v] # None => k[v].of \in Videos

LEMMA SizeIsSum ==
    ASSUME NEW k, IsCache(k)
    PROVE  /\ IsWeight(SizesOf(k), CachedIn(k))
           /\ \E g : IsSum(SizesOf(k), CachedIn(k), g) /\ SizeIn(k, CachedIn(k)) = g[CachedIn(k)]
<1>1. PICK D, w : D = CachedIn(k) /\ w = SizesOf(k)
  OBVIOUS
<1>2. D \in SUBSET Videos /\ IsFiniteSet(D)
  <2>1. D \in SUBSET Videos
    BY <1>1 DEF CachedIn
  <2> QED
    BY <2>1, FS_Subset, ConstantsOK
<1>3. w = [v \in D |-> Size[k[v].of]]
  BY <1>1 DEF SizesOf
<1>4. \A v \in D : k[v].of \in Videos
  BY <1>1 DEF CachedIn, IsCache
<1>5. w \in [D -> Nat]
  BY <1>3, <1>4, ConstantsOK
<1>6. ASSUME NEW g PROVE SumBody(w, D, g) = SizeFold(k, D, g)
  <2>1. \A T : T # {} => Pick(T) \in T
    BY DEF Pick
  <2>2. \A T \in SUBSET D :
            (IF T = {} THEN 0 ELSE Plus(g[Less(T, Pick(T))], w[Pick(T)]))
              = (IF T = {} THEN 0 ELSE Size[k[Pick(T)].of] + g[T \ {Pick(T)}])
    BY <1>3, <2>1 DEF Plus, Less
  <2> QED
    BY <2>2, Zenon DEF SumBody, SizeFold
<1>7. PICK f : f = SizeFold(k, D, f)
  BY <1>2, <1>5, <1>6, SumExists
<1>8. PICK h : h = (CHOOSE g : g = SizeFold(k, D, g))
  OBVIOUS
<1>9. h = SizeFold(k, D, h)
  BY <1>7, <1>8, Zenon
<1>10. h = SumBody(w, D, h)
  BY <1>6, <1>9
<1>11. IsSum(w, D, h)
  BY <1>10, SumUnfolds
<1>12. SizeIn(k, D) = h[D]
  BY <1>8, SizeFolds
<1> QED
  BY <1>1, <1>2, <1>5, <1>11, <1>12 DEF IsWeight

LEMMA SizeIsNat == ASSUME NEW k, IsCache(k) PROVE SizeIn(k, CachedIn(k)) \in Nat
<1>1. PICK D, w : D = CachedIn(k) /\ w = SizesOf(k)
  OBVIOUS
<1>2. PICK g : IsSum(w, D, g) /\ SizeIn(k, D) = g[D]
  BY <1>1, SizeIsSum
<1>3. IsFiniteSet(D) /\ w \in [D -> Nat]
  BY <1>1, SizeIsSum DEF IsWeight
<1>4. D \in SUBSET D
  OBVIOUS
<1>5. g[D] \in Nat
  BY <1>2, <1>3, <1>4, SumIsNat
<1> QED
  BY <1>1, <1>2, <1>5

LEMMA SizeOfNothing == ASSUME NEW k, CachedIn(k) = {} PROVE SizeIn(k, CachedIn(k)) = 0
<1>1. IsCache(k)
  BY DEF IsCache, CachedIn
<1>2. PICK g : IsSum(SizesOf(k), CachedIn(k), g) /\ SizeIn(k, CachedIn(k)) = g[CachedIn(k)]
  BY <1>1, SizeIsSum
<1> QED
  BY <1>2 DEF IsSum

\* A cache that has lost entries is no larger.
LEMMA SizeShrinks ==
    ASSUME NEW k, IsCache(k), NEW l, \A v \in Videos : l[v] = None \/ l[v] = k[v]
    PROVE  SizeIn(l, CachedIn(l)) <= SizeIn(k, CachedIn(k))
<1>1. IsCache(l)
  BY DEF IsCache
<1>2. PICK D, w : D = CachedIn(k) /\ w = SizesOf(k)
  OBVIOUS
<1>3. PICK C, u : C = CachedIn(l) /\ u = SizesOf(l)
  OBVIOUS
<1>4. PICK g : IsSum(w, D, g) /\ SizeIn(k, D) = g[D]
  BY <1>2, SizeIsSum
<1>5. PICK h : IsSum(u, C, h) /\ SizeIn(l, C) = h[C]
  BY <1>1, <1>3, SizeIsSum
<1>6. IsFiniteSet(D) /\ w \in [D -> Nat] /\ IsFiniteSet(C) /\ u \in [C -> Nat]
  BY <1>1, <1>2, <1>3, SizeIsSum DEF IsWeight
<1>7. C \subseteq D /\ \A v \in C : u[v] = w[v]
  BY <1>2, <1>3 DEF CachedIn, SizesOf
<1>8. C \in SUBSET C /\ C \in SUBSET D /\ D \in SUBSET D
  BY <1>7
<1>9. h[C] = g[C]
  BY <1>4, <1>5, <1>6, <1>7, <1>8, SumSame
<1>10. g[C] <= g[D]
  BY <1>4, <1>6, <1>8, SumGrows
<1> QED
  BY <1>2, <1>3, <1>4, <1>5, <1>9, <1>10

\* A timeline that is inserted, over another or not, adds at most its own size.
LEMMA SizeInserts ==
    ASSUME NEW k, IsCache(k), NEW u \in Videos, NEW l, l[u] # None, l[u].of \in Videos,
           \A v \in Videos : v # u => l[v] = k[v]
    PROVE  SizeIn(l, CachedIn(l)) <= SizeIn(k, CachedIn(k)) + Size[l[u].of]
<1>1. PICK m : m = [v \in Videos |-> IF v = u THEN None ELSE k[v]]
  OBVIOUS
<1>2. IsCache(m) /\ IsCache(l)
  BY <1>1 DEF IsCache
<1>3. SizeIn(m, CachedIn(m)) <= SizeIn(k, CachedIn(k))
  BY <1>1, SizeShrinks
<1>4. PICK D, w : D = CachedIn(m) /\ w = SizesOf(m)
  OBVIOUS
<1>5. PICK E, x : E = CachedIn(l) /\ x = SizesOf(l)
  OBVIOUS
<1>6. PICK g : IsSum(w, D, g) /\ SizeIn(m, D) = g[D]
  BY <1>2, <1>4, SizeIsSum
<1>7. PICK h : IsSum(x, E, h) /\ SizeIn(l, E) = h[E]
  BY <1>2, <1>5, SizeIsSum
<1>8. IsWeight(w, D) /\ IsWeight(x, E)
  BY <1>2, <1>4, <1>5, SizeIsSum
<1>9. u \in E /\ D = Less(E, u) /\ x[u] = Size[l[u].of]
  BY <1>1, <1>4, <1>5 DEF CachedIn, SizesOf, Less
<1>10. Agree(w, x, D)
  BY <1>1, <1>4, <1>5 DEF CachedIn, SizesOf, Agree
<1>11. h[E] = Plus(g[D], x[u])
  BY <1>6, <1>7, <1>8, <1>9, <1>10, SumOfOneMore
<1>12. SizeIn(m, CachedIn(m)) \in Nat /\ SizeIn(k, CachedIn(k)) \in Nat /\ Size[l[u].of] \in Nat
  BY <1>2, SizeIsNat, ConstantsOK
<1> QED
  BY <1>3, <1>4, <1>5, <1>6, <1>7, <1>9, <1>11, <1>12 DEF Plus

-----------------------------------------------------------------------------
(***************************************************************************)
(* Types and the size.  A call that needs a timeline has one, and one that  *)
(* is to load a timeline file finds it.                                     *)
(***************************************************************************)

Caching == {"save", "lock", "room", "count", "insert"}

\* What call c holds, given its record and the files.
CallOK(r, files) ==
    /\ r.at \in Generating => r.video \in Videos
    /\ r.at \in Caching => r.data \in TimelineData
    /\ r.at = "load" => files[TimelinePath[r.video]] # None

CallsOK == \A c \in Calls : CallOK(calls[c], file)

CacheInv == TypeOK /\ CallsOK /\ SizeCoversCache

LEMMA TotalIsSize == TotalSize = SizeIn(cache, CachedIn(cache))
  BY DEF TotalSize, SizeIn, Cached, CachedIn

LEMMA TotalIsNextSize == TotalSize' = SizeIn(cache', CachedIn(cache'))
<1>1. (TotalSize = SizeIn(cache, CachedIn(cache)))'
  BY TotalIsSize, PTL
<1> QED
  BY <1>1 DEF CachedIn

LEMMA TotalSame == ASSUME cache' = cache PROVE TotalSize' = TotalSize
  BY TotalIsSize, TotalIsNextSize

LEMMA NoneOutside == None \notin TimelineData
  BY ConstantsOK DEF TimelineData

LEMMA CacheIs == ASSUME NEW k \in [Videos -> TimelineData \cup {None}] PROVE IsCache(k)
  BY DEF IsCache, TimelineData

LEMMA CacheInit == Init => CacheInv
<1> SUFFICES ASSUME Init PROVE CacheInv
  OBVIOUS
<1>1. NoCall \in Call /\ NoCall.at = "unmade"
  BY DEF NoCall, Call
<1>2. \A c \in Calls : calls[c] = NoCall
  BY DEF Init
<1>3. TypeOK
  BY <1>1, ConstantsOK DEF Init, TypeOK
<1>4. CallsOK
  BY <1>1, <1>2 DEF CallsOK, CallOK, Generating, Caching
<1>5. SizeCoversCache
  <2>1. CachedIn(cache) = {}
    BY DEF Init, CachedIn
  <2>2. SizeIn(cache, CachedIn(cache)) = 0
    BY <2>1, SizeOfNothing
  <2> QED
    BY <2>2, TotalIsSize DEF SizeCoversCache, Init
<1> QED
  BY <1>3, <1>4, <1>5 DEF CacheInv

\* A step that gives call c the record r, and loses no file.
LEMMA CallsChange ==
    ASSUME TypeOK, CallsOK, NEW c \in Calls, NEW r \in Call, calls' = [calls EXCEPT ![c] = r],
           file' = file, CallOK(r, file)
    PROVE  calls' \in [Calls -> Call] /\ CallsOK'
<1>1. calls \in [Calls -> Call]
  BY DEF TypeOK
<1>2. calls' \in [Calls -> Call] /\ \A d \in Calls : calls'[d] = IF d = c THEN r ELSE calls[d]
  BY <1>1
<1>3. CallsOK'
  BY <1>2 DEF CallsOK
<1> QED
  BY <1>2, <1>3

LEMMA CallsReturn ==
    ASSUME TypeOK, CallsOK, NEW c \in Calls, Return(c), file' = file
    PROVE  calls' \in [Calls -> Call] /\ CallsOK'
<1>1. PICK r : r = [NoCall EXCEPT !.at = "done"]
  OBVIOUS
<1>2. r \in Call /\ r.at = "done"
  BY <1>1 DEF NoCall, Call
<1>3. calls' = [calls EXCEPT ![c] = r]
  BY <1>1 DEF Return
<1>4. CallOK(r, file)
  BY <1>2 DEF CallOK, Generating, Caching
<1> QED
  BY <1>2, <1>3, <1>4, CallsChange

LEMMA CallsGoTo ==
    ASSUME TypeOK, CallsOK, NEW c \in Calls, file' = file,
           NEW at \in Generating \cup {"map", "size", "done"}, GoTo(c, at),
           at \in Generating => calls[c].at \in Generating,
           at \in Caching => calls[c].at \in Caching,
           at = "load" => file[TimelinePath[calls[c].video]] # None
    PROVE  calls' \in [Calls -> Call] /\ CallsOK'
<1>1. calls \in [Calls -> Call] /\ calls[c] \in Call
  BY DEF TypeOK
<1>2. PICK r : r = [calls[c] EXCEPT !.at = at]
  OBVIOUS
<1>3. r \in Call /\ r.at = at /\ r.video = calls[c].video /\ r.data = calls[c].data
  BY <1>1, <1>2 DEF Call, Generating
<1>4. calls' = [calls EXCEPT ![c] = r]
  BY <1>1, <1>2 DEF GoTo
<1>5. CallOK(r, file)
  BY <1>3 DEF CallsOK, CallOK
<1> QED
  BY <1>3, <1>4, <1>5, CallsChange

LEMMA CallsData ==
    ASSUME TypeOK, CallsOK, NEW c \in Calls, file' = file, calls[c].at \in Generating,
           NEW at \in Caching, NEW data \in TimelineData,
           calls' = [calls EXCEPT ![c].at = at, ![c].data = data]
    PROVE  calls' \in [Calls -> Call] /\ CallsOK'
<1>1. calls \in [Calls -> Call] /\ calls[c] \in Call
  BY DEF TypeOK
<1>2. PICK s : s = [calls[c] EXCEPT !.at = at]
  OBVIOUS
<1>3. PICK r : r = [s EXCEPT !.data = data]
  OBVIOUS
<1>4. s \in Call /\ s.at = at /\ s.video = calls[c].video
  BY <1>1, <1>2 DEF Call, Caching
<1>5. r \in Call /\ r.at = at /\ r.video = calls[c].video /\ r.data = data
  BY <1>3, <1>4 DEF Call
<1>6. calls' = [calls EXCEPT ![c] = r]
  <2>1. PICK t : t = [calls EXCEPT ![c].at = at]
    OBVIOUS
  <2>2. t = [calls EXCEPT ![c] = s] /\ t[c] = s
    BY <1>1, <1>2, <2>1
  <2>3. calls' = [t EXCEPT ![c].data = data]
    BY <2>1
  <2> QED
    BY <1>1, <1>3, <2>2, <2>3
<1>7. at # "load"
  BY DEF Caching
<1>8. CallOK(r, file)
  BY <1>5, <1>7 DEF CallsOK, CallOK
<1> QED
  BY <1>5, <1>6, <1>8, CallsChange

\* Where only the calls change, and the locks.
LEMMA CacheSame ==
    ASSUME CacheInv, UNCHANGED <<cache, size, made, disk>>,
           mapLock' \in Calls \cup {None}, sizeLock' \in Calls \cup {None},
           calls' \in [Calls -> Call] /\ CallsOK'
    PROVE  CacheInv'
<1>1. cache' = cache /\ size' = size /\ made' = made /\ version' = version /\ file' = file /\ valid' = valid /\ raced' = raced
  BY DEF disk
<1>2. TypeOK'
  BY <1>1 DEF CacheInv, TypeOK
<1>3. TotalSize' = TotalSize
  BY <1>1, TotalSame
<1>4. SizeCoversCache'
  BY <1>1, <1>3 DEF CacheInv, SizeCoversCache
<1> QED
  BY <1>2, <1>4 DEF CacheInv

\* A step that changes the cache and the size, and keeps the one above the other.
LEMMA CacheChange ==
    ASSUME CacheInv, UNCHANGED <<made, disk>>,
           cache' \in [Videos -> TimelineData \cup {None}], size' \in Nat,
           SizeIn(cache', CachedIn(cache')) <= size',
           mapLock' \in Calls \cup {None}, sizeLock' \in Calls \cup {None},
           calls' \in [Calls -> Call] /\ CallsOK'
    PROVE  CacheInv'
<1>1. made' = made /\ version' = version /\ file' = file /\ valid' = valid /\ raced' = raced
  BY DEF disk
<1>2. TypeOK'
  BY <1>1 DEF CacheInv, TypeOK
<1>3. TotalSize' = SizeIn(cache', CachedIn(cache'))
  BY TotalIsNextSize
<1>4. SizeCoversCache'
  BY <1>3 DEF SizeCoversCache
<1> QED
  BY <1>2, <1>4 DEF CacheInv

LEMMA CacheLoses ==
    ASSUME CacheInv, UNCHANGED <<size, made, disk>>,
           cache' \in [Videos -> TimelineData \cup {None}],
           \A v \in Videos : cache'[v] = None \/ cache'[v] = cache[v],
           mapLock' \in Calls \cup {None}, sizeLock' \in Calls \cup {None},
           calls' \in [Calls -> Call] /\ CallsOK'
    PROVE  CacheInv'
<1>1. PICK k : k = cache
  OBVIOUS
<1>2. PICK l : l = cache'
  OBVIOUS
<1>3. IsCache(k) /\ IsCache(l) /\ \A v \in Videos : l[v] = None \/ l[v] = k[v]
  BY <1>1, <1>2, CacheIs DEF CacheInv, TypeOK
<1>4. SizeIn(l, CachedIn(l)) <= SizeIn(k, CachedIn(k))
  BY <1>3, SizeShrinks
<1>5. SizeIn(k, CachedIn(k)) \in Nat /\ SizeIn(l, CachedIn(l)) \in Nat
  BY <1>3, SizeIsNat
<1>6. SizeIn(k, CachedIn(k)) <= size /\ size \in Nat /\ size' = size
  BY <1>1, TotalIsSize DEF CacheInv, SizeCoversCache, TypeOK
<1>7. SizeIn(cache', CachedIn(cache')) <= size' /\ size' \in Nat
  BY <1>2, <1>4, <1>5, <1>6
<1> QED
  BY <1>7, CacheChange

LEMMA CacheMake ==
    ASSUME CacheInv, NEW kind \in Kinds, NEW v \in Videos \cup {None},
           NEW at \in {"lookup", "invalidate", "map"}, Make(kind, v, at),
           at # "map" => v \in Videos
    PROVE  CacheInv'
<1>1. PICK r : r = [kind |-> kind, at |-> at, video |-> v, data |-> None]
  OBVIOUS
<1>2. r \in Call /\ r.at = at /\ r.video = v
  BY <1>1 DEF Call, Kinds
<1>3. /\ calls' = [calls EXCEPT ![made + 1] = r] /\ file' = file
      /\ made' = made + 1 /\ made < MaxCalls
      /\ UNCHANGED <<cache, size, mapLock, sizeLock, version, valid, raced>>
  BY <1>1 DEF Make, disk
<1>4. made + 1 \in Calls /\ made' \in 0 .. MaxCalls
  BY <1>3, ConstantsOK DEF CacheInv, TypeOK, Calls
<1>5. CallOK(r, file)
  BY <1>2 DEF CallOK, Generating, Caching
<1>6. calls' \in [Calls -> Call] /\ CallsOK'
  <2>1. PICK c \in Calls : c = made + 1
    BY <1>4
  <2>2. calls' = [calls EXCEPT ![c] = r]
    BY <1>3, <2>1
  <2> QED
    BY <1>2, <1>3, <1>5, <2>2, CallsChange DEF CacheInv
<1>7. TypeOK'
  BY <1>3, <1>4, <1>6 DEF CacheInv, TypeOK
<1>8. TotalSize' = TotalSize
  BY <1>3, TotalSame
<1>9. SizeCoversCache'
  BY <1>3, <1>8 DEF CacheInv, SizeCoversCache
<1> QED
  BY <1>6, <1>7, <1>9 DEF CacheInv

LEMMA CacheSave ==
    ASSUME CacheInv, NEW c \in Calls, Save(c)
    PROVE  CacheInv'
<1> DEFINE u == calls[c].video
<1>1. /\ calls[c].at = "save"
      /\ UNCHANGED <<cache, size, mapLock, sizeLock, made, version, raced>>
  BY DEF Save
<1>2. TypeOK /\ CallsOK /\ mapLock' \in Calls \cup {None} /\ sizeLock' \in Calls \cup {None}
  BY <1>1 DEF CacheInv, TypeOK
<1>3. CASE Return(c) /\ UNCHANGED <<file, valid>>
  <2>1. calls' \in [Calls -> Call] /\ CallsOK'
    BY <1>2, <1>3, CallsReturn
  <2> QED
    BY <1>1, <1>2, <1>3, <2>1, CacheSame DEF disk
<1>4. CASE /\ GoTo(c, "lock")
           /\ file' = [file EXCEPT ![TimelinePath[u]] = calls[c].data]
           /\ valid' = valid \cup {v \in Videos : TimelinePath[v] = TimelinePath[u]}
  <2>1. /\ calls \in [Calls -> Call] /\ calls[c] \in Call
        /\ u \in Videos /\ calls[c].data \in TimelineData
    BY <1>1, <1>2 DEF TypeOK, CallsOK, CallOK, Generating, Caching
  <2>2. PICK r : r = [calls[c] EXCEPT !.at = "lock"]
    OBVIOUS
  <2>3. r \in Call /\ r.at = "lock" /\ r.video = u /\ r.data = calls[c].data
    BY <2>1, <2>2 DEF Call
  <2>4. calls' = [calls EXCEPT ![c] = r]
    BY <1>4, <2>1, <2>2 DEF GoTo
  <2>5. calls' \in [Calls -> Call] /\ \A d \in Calls : calls'[d] = IF d = c THEN r ELSE calls[d]
    BY <2>1, <2>3, <2>4
  <2>6. file \in [Files -> TimelineData \cup {None}] /\ TimelinePath[u] \in Files
    BY <1>2, <2>1 DEF TypeOK, Files
  <2>7. /\ file' \in [Files -> TimelineData \cup {None}]
        /\ \A p \in Files : file'[p] = IF p = TimelinePath[u] THEN calls[c].data ELSE file[p]
    BY <1>4, <2>1, <2>6
  <2>8. calls[c].data # None
    BY <2>1, NoneOutside
  <2>9. CallsOK'
    <3>1. SUFFICES ASSUME NEW d \in Calls PROVE CallOK(calls'[d], file')
      BY DEF CallsOK
    <3>2. CASE d = c
      BY <2>1, <2>3, <2>5, <3>2 DEF CallOK
    <3>3. CASE d # c
      <4>1. calls'[d] = calls[d] /\ CallOK(calls[d], file)
        BY <1>2, <2>5, <3>3 DEF CallsOK
      <4>2. ASSUME calls[d].at = "load" PROVE file'[TimelinePath[calls[d].video]] # None
        <5>1. calls[d].video \in Videos /\ file[TimelinePath[calls[d].video]] # None
          BY <4>1, <4>2 DEF CallOK, Generating
        <5>2. TimelinePath[calls[d].video] \in Files
          BY <5>1 DEF Files
        <5> QED
          BY <2>7, <2>8, <5>1, <5>2
      <4> QED
        BY <4>1, <4>2 DEF CallOK
    <3> QED
      BY <3>2, <3>3
  <2>10. valid' \subseteq Videos
    BY <1>2, <1>4 DEF TypeOK
  <2>11. TypeOK'
    BY <1>1, <1>2, <2>5, <2>7, <2>10 DEF TypeOK
  <2>12. SizeCoversCache'
    <3>1. TotalSize' = TotalSize
      BY <1>1, TotalSame
    <3> QED
      BY <1>1, <3>1 DEF CacheInv, SizeCoversCache
  <2> QED
    BY <2>9, <2>11, <2>12 DEF CacheInv
<1> QED
  BY <1>3, <1>4 DEF Save

LEMMA CacheModify ==
    ASSUME CacheInv, NEW w \in Videos, Modify(w)
    PROVE  CacheInv'
<1>1. /\ MapThenSumSet(LAMBDA v : version[v], Videos) < MaxEdits
      /\ version' = [version EXCEPT ![w] = @ + 1]
      /\ valid' = valid \ {w}
      /\ raced' \in {raced, raced \cup {w}}
      /\ UNCHANGED <<cache, size, mapLock, sizeLock, calls, made, file>>
  BY DEF Modify
<1>2. TypeOK /\ version \in [Videos -> 0 .. MaxEdits]
  BY DEF CacheInv, TypeOK
<1>3. PICK x : x = version
  OBVIOUS
<1>4. x \in [Videos -> Nat] /\ SumOf(x, Videos) < MaxEdits
  BY <1>1, <1>2, <1>3, ConstantsOK DEF SumOf
<1>5. x[w] \in Nat /\ SumOf(x, Videos) \in Nat /\ x[w] <= SumOf(x, Videos)
  BY <1>4, PartOfSum, ConstantsOK
<1>6. version[w] + 1 \in 0 .. MaxEdits
  BY <1>3, <1>4, <1>5, ConstantsOK
<1>7. version' \in [Videos -> 0 .. MaxEdits]
  BY <1>1, <1>2, <1>6
<1>8. TypeOK'
  BY <1>1, <1>2, <1>7 DEF TypeOK
<1>9. CallsOK'
  BY <1>1 DEF CacheInv, CallsOK
<1>10. SizeCoversCache'
  <2>1. TotalSize' = TotalSize
    BY <1>1, TotalSame
  <2> QED
    BY <1>1, <2>1 DEF CacheInv, SizeCoversCache
<1> QED
  BY <1>8, <1>9, <1>10 DEF CacheInv

LEMMA CacheStep ==
    ASSUME CacheInv, NEW c \in Calls, CallStep(c)
    PROVE  CacheInv'
<1> DEFINE u == calls[c].video
<1>0. /\ TypeOK /\ CallsOK /\ SizeCoversCache
      /\ mapLock \in Calls \cup {None} /\ sizeLock \in Calls \cup {None} /\ size \in Nat
      /\ cache \in [Videos -> TimelineData \cup {None}]
      /\ calls \in [Calls -> Call] /\ calls[c] \in Call
      /\ version \in [Videos -> 0 .. MaxEdits] /\ file \in [Files -> TimelineData \cup {None}]
      /\ CallOK(calls[c], file)
  BY DEF CacheInv, TypeOK, CallsOK
<1>1. CASE Invalidate(c)
  <2>1. /\ calls[c].at = "invalidate" /\ GoTo(c, "lookup")
        /\ cache' = [cache EXCEPT ![u] = None]
        /\ UNCHANGED <<size, mapLock, sizeLock, made, disk>>
    BY <1>1 DEF Invalidate
  <2>2. calls' \in [Calls -> Call] /\ CallsOK'
    BY <1>0, <2>1, CallsGoTo DEF Generating, Caching, disk
  <2>3. /\ cache' \in [Videos -> TimelineData \cup {None}]
        /\ \A v \in Videos : cache'[v] = None \/ cache'[v] = cache[v]
    BY <1>0, <2>1
  <2> QED
    BY <1>0, <2>1, <2>2, <2>3, CacheLoses
<1>2. CASE Lookup(c)
  <2>1. calls[c].at = "lookup" /\ UNCHANGED <<cache, size, mapLock, sizeLock, made, disk>>
    BY <1>2 DEF Lookup
  <2>2. calls' \in [Calls -> Call] /\ CallsOK'
    BY <1>0, <1>2, <2>1, CallsGoTo, CallsReturn DEF Lookup, Generating, Caching, disk
  <2> QED
    BY <1>0, <2>1, <2>2, CacheSame
<1>3. CASE Check(c)
  <2>1. calls[c].at = "check" /\ UNCHANGED <<cache, size, mapLock, sizeLock, made, disk>>
    BY <1>3 DEF Check
  <2>2. (GoTo(c, "load") /\ file[TimelinePath[u]] # None) \/ GoTo(c, "parse")
    BY <1>3 DEF Check
  <2>3. calls' \in [Calls -> Call] /\ CallsOK'
    BY <1>0, <2>1, <2>2, CallsGoTo DEF Generating, Caching, disk
  <2> QED
    BY <1>0, <2>1, <2>3, CacheSame
<1>4. CASE Load(c)
  <2>1. calls[c].at = "load" /\ UNCHANGED <<cache, size, mapLock, sizeLock, made, disk>>
    BY <1>4 DEF Load
  <2>2. calls' \in [Calls -> Call] /\ CallsOK'
    <3>1. CASE GoTo(c, "parse")
      BY <1>0, <2>1, <3>1, CallsGoTo DEF Generating, Caching, disk
    <3>2. CASE calls' = [calls EXCEPT ![c].at = "lock", ![c].data = file[TimelinePath[u]]]
      <4>1. u \in Videos /\ file[TimelinePath[u]] # None
        BY <1>0, <2>1 DEF CallOK, Generating
      <4>2. TimelinePath[u] \in Files
        BY <4>1 DEF Files
      <4>3. file[TimelinePath[u]] \in TimelineData
        BY <1>0, <4>1, <4>2
      <4> QED
        BY <1>0, <2>1, <3>2, <4>3, CallsData DEF Generating, Caching, disk
    <3> QED
      BY <1>4, <3>1, <3>2 DEF Load
  <2> QED
    BY <1>0, <2>1, <2>2, CacheSame
<1>5. CASE Parse(c)
  <2>1. calls[c].at = "parse" /\ UNCHANGED <<cache, size, mapLock, sizeLock, made, disk>>
    BY <1>5 DEF Parse
  <2>2. calls' \in [Calls -> Call] /\ CallsOK'
    <3>1. CASE Return(c)
      BY <1>0, <2>1, <3>1, CallsReturn DEF disk
    <3>2. CASE calls' = [calls EXCEPT ![c].at = "save", ![c].data = [of |-> u, version |-> version[u]]]
      <4>1. u \in Videos
        BY <1>0, <2>1 DEF CallOK, Generating
      <4>2. [of |-> u, version |-> version[u]] \in TimelineData
        BY <1>0, <4>1 DEF TimelineData
      <4> QED
        BY <1>0, <2>1, <3>2, <4>2, CallsData DEF Generating, Caching, disk
    <3> QED
      BY <1>5, <3>1, <3>2 DEF Parse
  <2> QED
    BY <1>0, <2>1, <2>2, CacheSame
<1>6. CASE Save(c)
  BY <1>6, CacheSave
<1>7. CASE LockSize(c)
  <2>1. /\ calls[c].at = "lock" /\ sizeLock' = c
        /\ UNCHANGED <<cache, size, mapLock, made, disk>>
        /\ GoTo(c, "room") \/ GoTo(c, "insert")
    BY <1>7 DEF LockSize
  <2>2. calls' \in [Calls -> Call] /\ CallsOK'
    BY <1>0, <2>1, CallsGoTo DEF Generating, Caching, disk
  <2> QED
    BY <1>0, <2>1, <2>2, CacheSame
<1>8. CASE MakeRoom(c)
  <2>1. /\ calls[c].at = "room" /\ GoTo(c, "count")
        /\ UNCHANGED <<size, mapLock, sizeLock, made, disk>>
    BY <1>8 DEF MakeRoom
  <2>2. PICK gone \in SUBSET Cached :
            cache' = [v \in Videos |-> IF v \in gone THEN None ELSE cache[v]]
    BY <1>8 DEF MakeRoom
  <2>3. calls' \in [Calls -> Call] /\ CallsOK'
    BY <1>0, <2>1, CallsGoTo DEF Generating, Caching, disk
  <2>4. /\ cache' \in [Videos -> TimelineData \cup {None}]
        /\ \A v \in Videos : cache'[v] = None \/ cache'[v] = cache[v]
    BY <1>0, <2>2
  <2> QED
    BY <1>0, <2>1, <2>3, <2>4, CacheLoses
<1>9. CASE Count(c)
  <2>1. /\ calls[c].at = "count" /\ GoTo(c, "insert") /\ size' = TotalSize
        /\ UNCHANGED <<cache, mapLock, sizeLock, made, disk>>
    BY <1>9 DEF Count
  <2>2. calls' \in [Calls -> Call] /\ CallsOK'
    BY <1>0, <2>1, CallsGoTo DEF Generating, Caching, disk
  <2>3. PICK k : k = cache
    OBVIOUS
  <2>4. SizeIn(k, CachedIn(k)) \in Nat
    BY <1>0, <2>3, CacheIs, SizeIsNat
  <2>5. size' = SizeIn(k, CachedIn(k)) /\ cache' = k
    BY <2>1, <2>3, TotalIsSize
  <2>6. SizeIn(cache', CachedIn(cache')) <= size' /\ size' \in Nat
    BY <2>4, <2>5
  <2> QED
    BY <1>0, <2>1, <2>2, <2>6, CacheChange
<1>10. CASE Insert(c)
  <2>1. /\ calls[c].at = "insert" /\ Return(c)
        /\ cache' = [cache EXCEPT ![u] = calls[c].data]
        /\ size' = size + Size[calls[c].data.of]
        /\ sizeLock' = None
        /\ UNCHANGED <<mapLock, made, disk>>
    BY <1>10 DEF Insert
  <2>2. calls' \in [Calls -> Call] /\ CallsOK'
    BY <1>0, <2>1, CallsReturn DEF disk
  <2>3. PICK x : x = calls[c].data
    OBVIOUS
  <2>4. u \in Videos /\ x \in TimelineData
    BY <1>0, <2>1, <2>3 DEF CallOK, Generating, Caching
  <2>5. PICK k : k = cache
    OBVIOUS
  <2>6. PICK l : l = cache'
    OBVIOUS
  <2>7. /\ l \in [Videos -> TimelineData \cup {None}]
        /\ l[u] = x /\ \A v \in Videos : v # u => l[v] = k[v]
    BY <1>0, <2>1, <2>3, <2>4, <2>5, <2>6
  <2>8. x # None /\ x.of \in Videos /\ Size[x.of] \in Nat
    BY <2>4, NoneOutside, ConstantsOK DEF TimelineData
  <2>9. IsCache(k) /\ IsCache(l)
    BY <1>0, <2>5, <2>7, CacheIs
  <2>10. SizeIn(l, CachedIn(l)) <= SizeIn(k, CachedIn(k)) + Size[x.of]
    BY <2>4, <2>7, <2>8, <2>9, SizeInserts
  <2>11. SizeIn(k, CachedIn(k)) \in Nat /\ SizeIn(l, CachedIn(l)) \in Nat
    BY <2>9, SizeIsNat
  <2>12. SizeIn(k, CachedIn(k)) <= size
    BY <1>0, <2>5, TotalIsSize DEF SizeCoversCache
  <2>13. size' = size + Size[x.of]
    BY <2>1, <2>3
  <2>14. SizeIn(l, CachedIn(l)) <= size' /\ size' \in Nat
    BY <1>0, <2>8, <2>10, <2>11, <2>12, <2>13
  <2> QED
    BY <1>0, <2>1, <2>2, <2>6, <2>7, <2>14, CacheChange
<1>11. CASE LockMap(c)
  <2>1. /\ calls[c].at = "map" /\ GoTo(c, "size") /\ mapLock' = c
        /\ UNCHANGED <<cache, size, sizeLock, made, disk>>
    BY <1>11 DEF LockMap
  <2>2. calls' \in [Calls -> Call] /\ CallsOK'
    BY <1>0, <2>1, CallsGoTo DEF Generating, Caching, disk
  <2> QED
    BY <1>0, <2>1, <2>2, CacheSame
<1>12. CASE ReadStats(c)
  <2>1. Return(c) /\ mapLock' = None /\ UNCHANGED <<cache, size, sizeLock, made, disk>>
    BY <1>12 DEF ReadStats
  <2>2. calls' \in [Calls -> Call] /\ CallsOK'
    BY <1>0, <2>1, CallsReturn DEF disk
  <2> QED
    BY <1>0, <2>1, <2>2, CacheSame
<1>13. CASE ClearAll(c)
  <2>1. /\ Return(c) /\ mapLock' = None /\ size' = 0 /\ cache' = [v \in Videos |-> None]
        /\ UNCHANGED <<sizeLock, made, disk>>
    BY <1>13 DEF ClearAll
  <2>2. calls' \in [Calls -> Call] /\ CallsOK'
    BY <1>0, <2>1, CallsReturn DEF disk
  <2>3. PICK l : l = cache'
    OBVIOUS
  <2>4. l \in [Videos -> TimelineData \cup {None}] /\ CachedIn(l) = {}
    BY <2>1, <2>3 DEF CachedIn
  <2>5. SizeIn(l, CachedIn(l)) = 0
    BY <2>4, SizeOfNothing
  <2>6. SizeIn(cache', CachedIn(cache')) <= size' /\ size' \in Nat
    BY <2>1, <2>3, <2>5
  <2> QED
    BY <1>0, <2>1, <2>2, <2>3, <2>4, <2>6, CacheChange
<1> QED
  BY <1>1, <1>2, <1>3, <1>4, <1>5, <1>6, <1>7, <1>8, <1>9, <1>10, <1>11, <1>12, <1>13 DEF CallStep

LEMMA CacheNext == ASSUME CacheInv, [Next]_vars PROVE CacheInv'
<1>1. CASE UNCHANGED vars
  <2>1. UNCHANGED <<cache, size, made, disk>> /\ calls' = calls /\ file' = file /\ mapLock' = mapLock /\ sizeLock' = sizeLock
    BY <1>1 DEF vars, disk
  <2>2. calls' \in [Calls -> Call] /\ CallsOK'
    BY <2>1 DEF CacheInv, TypeOK, CallsOK
  <2> QED
    BY <2>1, <2>2, CacheSame DEF CacheInv, TypeOK
<1>2. ASSUME NEW v \in Videos, Get(v) \/ Preload(v) \/ Regenerate(v) PROVE CacheInv'
  BY <1>2, CacheMake DEF Get, Preload, Regenerate, Kinds
<1>3. CASE Stats \/ Clear
  BY <1>3, CacheMake DEF Stats, Clear, Kinds
<1> QED
  BY <1>1, <1>2, <1>3, CacheModify, CacheStep DEF Next

LEMMA CacheAlways == Spec => []CacheInv
  BY CacheInit, CacheNext, PTL DEF Spec

\* Every variable ranges over what its type holds, for any videos, calls and edits: what is
\* about to be cached is a timeline, and no video is edited more often than there are edits.
THEOREM TypeCorrect == Spec => []TypeOK
<1>1. CacheInv => TypeOK
  BY DEF CacheInv
<1> QED
  BY <1>1, CacheAlways, PTL

\* The size that add_to_cache compares with the limit is at least the size of what is cached,
\* whatever preloads, invalidations and cleanups come between: the cache is cleaned too early,
\* never too late.
THEOREM SizeCovers == Spec => []SizeCoversCache
<1>1. CacheInv => SizeCoversCache
  BY DEF CacheInv
<1> QED
  BY <1>1, CacheAlways, PTL
=============================================================================
