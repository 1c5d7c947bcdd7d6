---------------------------- MODULE LedgerProofs ----------------------------
(***************************************************************************)
(* For any finite set of runs, any slots, compactors and loads: a run that *)
(* ended complete is in the replay, and one that ended otherwise adds no   *)
(* active coverage.  As long as one operation goes on at a time, and none  *)
(* dies or leaves its failure unrecorded: the run that wrote a slot last   *)
(* keeps it, and a read through the cache agrees with a full replay unless *)
(* a span that overwrote another was replaced.                             *)
(*                                                                         *)
(* The replay folds over runs in the order they completed in, and over the *)
(* events of each.  Induction over what is folded goes by the subsets of a *)
(* finite set, whose hypothesis is a set.  The first part needs of the     *)
(* order only that the next element is one of those that are left.  The    *)
(* second does not follow a replay event by event, but says what any view  *)
(* tells of the runs folded into it (Reading), independently of the order  *)
(* they were folded in as long as no run is folded after one that replaced *)
(* it.  The third is the invariant of operations in turn: what each run    *)
(* records fits the runs that were complete before it (Fits), and each     *)
(* cache tells of a first part of them (CacheFits).                        *)
(***************************************************************************)
EXTENDS Ledger, FiniteSetTheorems, SequenceTheorems, WellFoundedInduction, TLAPS

-----------------------------------------------------------------------------
(* Folds over finite sets.                                                 *)

\* Induction over the subsets of a finite set.
LEMMA SubsetInduction ==
  ASSUME NEW D, IsFiniteSet(D), NEW T,
         \A s \in SUBSET D : (\A x \in s : s \ {x} \in T) => s \in T
  PROVE  \A s \in SUBSET D : s \in T
<1> DEFINE Bad == {s \in SUBSET D : s \notin T}
<1>1. IsWellFoundedOn(StrictSubsetOrdering(D), FiniteSubsetsOf(D))
  BY FS_StrictSubsetOrderingWellFounded
<1>2. Bad \subseteq FiniteSubsetsOf(D)
  BY FS_Subset DEF FiniteSubsetsOf
<1>3. SUFFICES ASSUME Bad # {} PROVE FALSE
  OBVIOUS
<1>4. PICK s \in Bad : \A y \in Bad : <<y, s>> \notin StrictSubsetOrdering(D)
  <2> HIDE DEF Bad
  <2> QED
    BY <1>1, <1>2, <1>3, WFMin
<1>5. \A x \in s : s \ {x} \in T
  <2> SUFFICES ASSUME NEW x \in s, s \ {x} \notin T PROVE FALSE
    OBVIOUS
  <2>1. s \ {x} \in Bad
    BY <1>4
  <2>2. <<s \ {x}, s>> \in StrictSubsetOrdering(D)
    <3>1. s \ {x} \in SUBSET D /\ s \in SUBSET D
      BY <1>4
    <3>2. s \ {x} \subseteq s /\ s \ {x} # s
      OBVIOUS
    <3> QED
      BY <3>1, <3>2 DEF StrictSubsetOrdering
  <2> QED
    BY <1>4, <2>1, <2>2
<1> QED
  BY <1>4, <1>5

\* The recursive functions over the subsets of D that take pick[s] next and
\* combine it by `step` with the result so far.
Folds(D, V, base, pick, step) ==
    {g \in [SUBSET D -> V] : \A s \in SUBSET D :
       g[s] = IF s = {} THEN base ELSE step[<<pick[s], g[s \ {pick[s]}]>>]}

\* There is one, whichever element it takes next.
LEMMA FoldExists ==
  ASSUME NEW D, IsFiniteSet(D), NEW V, NEW base \in V,
         NEW pick, \A s \in SUBSET D : s # {} => pick[s] \in s,
         NEW step, \A x \in D, v \in V : step[<<x, v>>] \in V
  PROVE  Folds(D, V, base, pick, step) # {}
<1> DEFINE Next1(g, s) == IF s = {} THEN base ELSE step[<<pick[s], g[s \ {pick[s]}]>>]
           UpTo(g, s) == \A t \in SUBSET D : Cardinality(t) <= Cardinality(s) => g[t] = Next1(g, t)
           T == {s \in SUBSET D : \E g \in [SUBSET D -> V] : UpTo(g, s)}
<1>1. \A s \in SUBSET D : IsFiniteSet(s) /\ Cardinality(s) \in Nat /\ Cardinality(s) <= Cardinality(D)
  BY FS_Subset, FS_CardinalityType
<1>2. \A s \in SUBSET D : Cardinality(s) = 0 <=> s = {}
  BY <1>1, FS_EmptySet
<1>3. \A s \in SUBSET D : \A x \in s : Cardinality(s \ {x}) = Cardinality(s) - 1
  <2> SUFFICES ASSUME NEW s \in SUBSET D, NEW x \in s
               PROVE  Cardinality(s \ {x}) = Cardinality(s) - 1
    OBVIOUS
  <2> QED
    BY <1>1, FS_RemoveElement
<1>4. ASSUME NEW g \in [SUBSET D -> V] PROVE [s \in SUBSET D |-> Next1(g, s)] \in [SUBSET D -> V]
  <2>1. \A s \in SUBSET D : s # {} => pick[s] \in D /\ s \ {pick[s]} \in SUBSET D
    OBVIOUS
  <2>2. \A s \in SUBSET D : Next1(g, s) \in V
    BY <2>1
  <2> QED
    BY <2>2
<1>5. ASSUME NEW s \in SUBSET D, \A x \in s : s \ {x} \in T PROVE s \in T
  <2>1. CASE s = {}
    <3>1. [t \in SUBSET D |-> base] \in [SUBSET D -> V]
      OBVIOUS
    <3>2. UpTo([t \in SUBSET D |-> base], s)
      BY <1>1, <1>2, <2>1
    <3> QED
      BY <3>1, <3>2
  <2>2. CASE s # {}
    <3>1. PICK x \in s : TRUE
      BY <2>2
    <3>2. PICK g \in [SUBSET D -> V] : UpTo(g, s \ {x})
      BY <1>5, <3>1
    <3> DEFINE h == [t \in SUBSET D |-> Next1(g, t)]
    <3>3. h \in [SUBSET D -> V]
      BY <1>4, <3>2
    <3>4. ASSUME NEW t \in SUBSET D, Cardinality(t) <= Cardinality(s) PROVE h[t] = Next1(h, t)
      <4>1. CASE t = {}
        BY <4>1
      <4>2. CASE t # {}
        <5> DEFINE r == t \ {pick[t]}
        <5>1. r \in SUBSET D /\ pick[t] \in t
          BY <4>2
        <5>2. Cardinality(r) <= Cardinality(s \ {x})
          <6>1. Cardinality(r) = Cardinality(t) - 1
            BY <1>3, <5>1
          <6>2. Cardinality(s \ {x}) = Cardinality(s) - 1
            BY <1>3, <3>1
          <6>3. Cardinality(t) \in Nat /\ Cardinality(s) \in Nat
            BY <1>1
          <6> QED
            BY <3>4, <6>1, <6>2, <6>3
        <5>3. g[r] = Next1(g, r)
          BY <3>2, <5>1, <5>2
        <5>4. h[r] = Next1(g, r)
          BY <5>1
        <5>5. h[t] = step[<<pick[t], g[r]>>]
          BY <4>2
        <5>6. Next1(h, t) = step[<<pick[t], h[r]>>]
          BY <4>2
        <5> QED
          BY <5>3, <5>4, <5>5, <5>6
      <4> QED
        BY <4>1, <4>2
    <3> QED
      BY <3>3, <3>4
  <2> QED
    BY <2>1, <2>2
<1>6. D \in T
  <2> HIDE DEF T
  <2>1. \A s \in SUBSET D : (\A x \in s : s \ {x} \in T) => s \in T
    BY <1>5
  <2>2. \A s \in SUBSET D : s \in T
    BY <2>1, SubsetInduction
  <2> QED
    BY <2>2
<1>7. PICK g \in [SUBSET D -> V] : UpTo(g, D)
  BY <1>6
<1>8. \A s \in SUBSET D : g[s] = Next1(g, s)
  BY <1>1, <1>7
<1> QED
  BY <1>8 DEF Folds

-----------------------------------------------------------------------------
(* The next element of a replay.                                           *)

\* A finite set of numbers has a greatest one (FoldLeft takes it next).
LEMMA MaxIsIn ==
  ASSUME NEW S \in SUBSET Int, IsFiniteSet(S), S # {}
  PROVE  Max(S) \in S /\ \A y \in S : Max(S) >= y
<1> DEFINE T == {s \in SUBSET S : s # {} => \E x \in s : \A y \in s : x >= y}
<1>1. ASSUME NEW s \in SUBSET S, \A x \in s : s \ {x} \in T PROVE s \in T
  <2> SUFFICES ASSUME s # {} PROVE \E x \in s : \A y \in s : x >= y
    OBVIOUS
  <2>1. PICK x \in s : TRUE
    OBVIOUS
  <2>2. CASE s \ {x} = {}
    <3>1. \A y \in s : x >= y
      BY <2>1, <2>2
    <3> QED
      BY <2>1, <3>1
  <2>3. CASE s \ {x} # {}
    <3>1. PICK m \in s \ {x} : \A y \in s \ {x} : m >= y
      BY <1>1, <2>1, <2>3
    <3>2. (\A y \in s : m >= y) \/ (\A y \in s : x >= y)
      BY <2>1, <3>1
    <3> QED
      BY <2>1, <3>1, <3>2
  <2> QED
    BY <2>2, <2>3
<1>2. S \in T
  <2> HIDE DEF T
  <2>1. \A s \in SUBSET S : (\A x \in s : s \ {x} \in T) => s \in T
    BY <1>1
  <2>2. \A s \in SUBSET S : s \in T
    BY <2>1, SubsetInduction
  <2> QED
    BY <2>2
<1>3. PICK x \in S : \A y \in S : x >= y
  BY <1>2
<1> QED
  BY <1>3 DEF Max

\* Entries are ordered, and of finitely many one is the last (sorted_complete_runs).
LEMMA LastIsIn ==
  ASSUME NEW S \in SUBSET (Runs \X Nat), IsFiniteSet(S), S # {}
  PROVE  LastOf(S) \in S /\ \A d \in S \ {LastOf(S)} : Before(d, LastOf(S))
<1> USE LedgerAssumption
<1> DEFINE T == {s \in SUBSET S : s # {} => \E e \in s : \A d \in s \ {e} : Before(d, e)}
<1>t. /\ \A d, e \in Runs \X Nat : d # e => Before(d, e) \/ Before(e, d)
      /\ \A c, d, e \in Runs \X Nat : Before(c, d) /\ Before(d, e) => Before(c, e)
  <2>0. Runs \subseteq Nat
    OBVIOUS
  <2>1. \A p \in Runs \X Nat : p = <<p[1], p[2]>> /\ p[1] \in Runs /\ p[2] \in Nat
    OBVIOUS
  <2>2. ASSUME NEW d \in Runs \X Nat, NEW e \in Runs \X Nat, d # e
        PROVE  Before(d, e) \/ Before(e, d)
    <3>1. d[1] \in Nat /\ d[2] \in Nat /\ e[1] \in Nat /\ e[2] \in Nat
      BY <2>0, <2>1
    <3>2. d[1] # e[1] \/ d[2] # e[2]
      BY <2>1, <2>2
    <3> QED
      BY <3>1, <3>2 DEF Before
  <2>3. ASSUME NEW c \in Runs \X Nat, NEW d \in Runs \X Nat, NEW e \in Runs \X Nat,
               Before(c, d), Before(d, e)
        PROVE  Before(c, e)
    <3>1. /\ c[1] \in Nat /\ c[2] \in Nat /\ d[1] \in Nat /\ d[2] \in Nat
          /\ e[1] \in Nat /\ e[2] \in Nat
      BY <2>0, <2>1
    <3> QED
      BY <2>3, <3>1 DEF Before
  <2> QED
    BY <2>2, <2>3
<1>1. ASSUME NEW s \in SUBSET S, \A x \in s : s \ {x} \in T PROVE s \in T
  <2> SUFFICES ASSUME s # {} PROVE \E e \in s : \A d \in s \ {e} : Before(d, e)
    OBVIOUS
  <2>1. PICK x \in s : TRUE
    OBVIOUS
  <2>2. CASE s \ {x} = {}
    BY <2>1, <2>2
  <2>3. CASE s \ {x} # {}
    <3>1. PICK e \in s \ {x} : \A d \in (s \ {x}) \ {e} : Before(d, e)
      BY <1>1, <2>1, <2>3
    <3>2. x \in Runs \X Nat /\ e \in Runs \X Nat /\ x # e /\ s \subseteq Runs \X Nat
      BY <2>1, <3>1
    <3>3. CASE Before(x, e)
      BY <2>1, <3>1, <3>3
    <3>4. CASE Before(e, x)
      <4>1. \A d \in s \ {x} : Before(d, x)
        BY <1>t, <3>1, <3>2, <3>4
      <4> QED
        BY <2>1, <4>1
    <3> QED
      BY <1>t, <3>2, <3>3, <3>4
  <2> QED
    BY <2>2, <2>3
<1>2. S \in T
  <2> HIDE DEF T
  <2>1. \A s \in SUBSET S : (\A x \in s : s \ {x} \in T) => s \in T
    BY <1>1
  <2>2. \A s \in SUBSET S : s \in T
    BY <2>1, SubsetInduction
  <2> QED
    BY <2>2
<1>3. PICK e \in S : \A d \in S \ {e} : Before(d, e)
  BY <1>2
<1> QED
  BY <1>3 DEF LastOf

-----------------------------------------------------------------------------
(* What a replay works on.                                                 *)

\* A record of a span, the records of a projection, an event of a segment.
SpanRecord ==
    [status : {"active", "replaced"}, run : Runs, cover : SUBSET Slots,
     ranges : SUBSET Slots, over : SUBSET Slots, time : Nat]
View == [Runs -> SpanRecord \cup {Nothing}]
Event ==
    [kind : {"span"}, key : Runs, rec : SpanRecord]
    \cup [kind : {"replacement"}, keys : SUBSET Runs]
    \cup [kind : {"terminal"}, status : TerminalStatus]

\* What the events of a replacement make of a record.
AsReplaced(rec) == [rec EXCEPT !.status = "replaced"]

\* An event updates records by records (apply_events).
LEMMA ApplyKeepsView ==
  ASSUME NEW cur \in View, NEW e \in Event
  PROVE  /\ ApplyEvent(cur, e) \in View
         /\ \A k \in Runs :
              \/ ApplyEvent(cur, e)[k] = cur[k]
              \/ e.kind = "span" /\ e.key = k /\ ApplyEvent(cur, e)[k] = e.rec
              \/ cur[k] # Nothing /\ ApplyEvent(cur, e)[k] = AsReplaced(cur[k])
         /\ e.kind = "span" => ApplyEvent(cur, e)[e.key] = e.rec
<1>1. CASE e \in [kind : {"span"}, key : Runs, rec : SpanRecord]
  <2>1. ApplyEvent(cur, e) = [cur EXCEPT ![e.key] = e.rec]
    BY <1>1 DEF ApplyEvent
  <2> QED
    BY <1>1, <2>1 DEF View
<1>2. CASE e \in [kind : {"replacement"}, keys : SUBSET Runs]
  <2>1. ApplyEvent(cur, e) =
          [k \in Runs |-> IF k \in e.keys /\ cur[k] # Nothing
                          THEN [cur[k] EXCEPT !.status = "replaced"] ELSE cur[k]]
    BY <1>2 DEF ApplyEvent
  <2>2. \A k \in Runs : cur[k] # Nothing => [cur[k] EXCEPT !.status = "replaced"] \in SpanRecord
    BY DEF View, SpanRecord
  <2> QED
    BY <1>2, <2>1, <2>2 DEF View, AsReplaced
<1>3. CASE e \in [kind : {"terminal"}, status : TerminalStatus]
  <2>1. ApplyEvent(cur, e) = cur
    BY <1>3 DEF ApplyEvent
  <2> QED
    BY <1>3, <2>1 DEF View
<1> QED
  BY <1>1, <1>2, <1>3 DEF Event

\* Induction over the events of a run: what holds of the events taken so far
\* and the records they lead to holds of all of them.  The next event is the
\* last of those taken.
LEMMA EventsInOrder ==
  ASSUME NEW cur \in View, NEW events \in Seq(Event), NEW T, <<{}, cur>> \in T,
         \A s \in SUBSET DOMAIN events : \A n \in s : \A v \in View :
            <<s \ {n}, v>> \in T /\ (\A m \in s : n >= m)
              => <<s, ApplyEvent(v, events[n])>> \in T
  PROVE  /\ FoldLeft(ApplyEvent, cur, events) \in View
         /\ <<DOMAIN events, FoldLeft(ApplyEvent, cur, events)>> \in T
<1> DEFINE D == DOMAIN events
           pick == [s \in SUBSET D |-> Max(s)]
           step == [p \in D \X View |-> ApplyEvent(p[2], events[p[1]])]
<1>1. IsFiniteSet(D) /\ D \in SUBSET Int
  BY FS_Interval
<1>2. \A s \in SUBSET D : s # {} => pick[s] \in s
  <2> SUFFICES ASSUME NEW s \in SUBSET D, s # {} PROVE Max(s) \in s
    OBVIOUS
  <2>1. IsFiniteSet(s) /\ s \in SUBSET Int
    BY <1>1, FS_Subset
  <2> QED
    BY <2>1, MaxIsIn
<1>3. \A n \in D, v \in View : step[<<n, v>>] = ApplyEvent(v, events[n]) /\ step[<<n, v>>] \in View
  <2> SUFFICES ASSUME NEW n \in D, NEW v \in View
               PROVE  step[<<n, v>>] = ApplyEvent(v, events[n]) /\ step[<<n, v>>] \in View
    OBVIOUS
  <2>1. events[n] \in Event
    OBVIOUS
  <2> QED
    BY <2>1, ApplyKeepsView
<1>4. PICK g \in Folds(D, View, cur, pick, step) : TRUE
  <2> HIDE DEF D, pick, step
  <2> QED
    BY <1>1, <1>2, <1>3, FoldExists
<1>5. \A s \in SUBSET D : s # {} => Max(s) \in s /\ g[s] = ApplyEvent(g[s \ {Max(s)}], events[Max(s)])
  BY <1>2, <1>3, <1>4 DEF Folds
<1>6. g = [s \in SUBSET D |-> IF s = {} THEN cur ELSE ApplyEvent(g[s \ {Max(s)}], events[Max(s)])]
  BY <1>4, <1>5 DEF Folds
<1>7. PICK h : /\ h = [s \in SUBSET D |->
                         IF s = {} THEN cur ELSE ApplyEvent(h[s \ {Max(s)}], events[Max(s)])]
               /\ FoldLeft(ApplyEvent, cur, events) = h[D]
  BY <1>6 DEF FoldLeft, MapThenFoldSet
<1> DEFINE U == {s \in SUBSET D : h[s] \in View /\ <<s, h[s]>> \in T}
<1>8. ASSUME NEW s \in SUBSET D, \A x \in s : s \ {x} \in U PROVE s \in U
  <2>1. CASE s = {}
    BY <1>7, <2>1
  <2>2. CASE s # {}
    <3>1. Max(s) \in s /\ s \ {Max(s)} \in U
      BY <1>5, <1>8, <2>2
    <3>2. h[s] = ApplyEvent(h[s \ {Max(s)}], events[Max(s)])
      BY <1>7, <2>2
    <3>0. \A m \in s : Max(s) >= m
      <4>1. IsFiniteSet(s) /\ s \in SUBSET Int
        BY <1>1, FS_Subset
      <4> QED
        BY <2>2, <4>1, MaxIsIn
    <3>3. <<s, h[s]>> \in T
      BY <3>0, <3>1, <3>2
    <3>4. h[s] \in View
      BY <3>1, <3>2, ApplyKeepsView
    <3> QED
      BY <3>3, <3>4
  <2> QED
    BY <2>1, <2>2
<1>9. D \in U
  <2> HIDE DEF U, D
  <2>1. \A s \in SUBSET D : (\A x \in s : s \ {x} \in U) => s \in U
    BY <1>8
  <2>2. \A s \in SUBSET D : s \in U
    BY <1>1, <2>1, SubsetInduction
  <2> QED
    BY <2>2
<1> QED
  BY <1>7, <1>9

\* The same where the order of the events does not matter.
LEMMA EventsInduction ==
  ASSUME NEW cur \in View, NEW events \in Seq(Event), NEW T, <<{}, cur>> \in T,
         \A s \in SUBSET DOMAIN events : \A n \in s : \A v \in View :
            <<s \ {n}, v>> \in T => <<s, ApplyEvent(v, events[n])>> \in T
  PROVE  /\ FoldLeft(ApplyEvent, cur, events) \in View
         /\ <<DOMAIN events, FoldLeft(ApplyEvent, cur, events)>> \in T
BY EventsInOrder

\* A run's events update records by records, for every reading of its segments.
LEMMA RunKeepsView ==
  ASSUME NEW cur \in View, NEW r, seg[r] \in Seq(Event)
  PROVE  ApplyRun(cur, r) \in View
<1> DEFINE T == (SUBSET DOMAIN seg[r]) \X View
<1>1. \A s \in SUBSET DOMAIN seg[r] : \A n \in s : \A v \in View :
            <<s \ {n}, v>> \in T => <<s, ApplyEvent(v, seg[r][n])>> \in T
  <2> SUFFICES ASSUME NEW s \in SUBSET DOMAIN seg[r], NEW n \in s, NEW v \in View
               PROVE  ApplyEvent(v, seg[r][n]) \in View
    OBVIOUS
  <2>1. seg[r][n] \in Event
    OBVIOUS
  <2> QED
    BY <2>1, ApplyKeepsView
<1>2. <<{}, cur>> \in T
  OBVIOUS
<1> HIDE DEF T
<1> QED
  BY <1>1, <1>2, EventsInduction DEF ApplyRun

\* Induction over the runs of a replay, in the same way.
LEMMA RunsInOrder ==
  ASSUME NEW cur \in View, NEW entries \in SUBSET (Runs \X Nat), IsFiniteSet(entries),
         \A r \in Runs : seg[r] \in Seq(Event),
         NEW T, <<{}, cur>> \in T,
         \A s \in SUBSET entries : \A e \in s : \A v \in View :
            <<s \ {e}, v>> \in T /\ (\A d \in s \ {e} : Before(d, e))
              => <<s, ApplyRun(v, e[1])>> \in T
  PROVE  /\ ReplayOver(cur, entries) \in View
         /\ <<entries, ReplayOver(cur, entries)>> \in T
<1> DEFINE D == entries
           pick == [s \in SUBSET D |-> LastOf(s)]
           step == [p \in D \X View |-> ApplyRun(p[2], p[1][1])]
<1>2. \A s \in SUBSET D : s # {} => pick[s] \in s
  <2> SUFFICES ASSUME NEW s \in SUBSET D, s # {} PROVE LastOf(s) \in s
    OBVIOUS
  <2>1. IsFiniteSet(s) /\ s \in SUBSET (Runs \X Nat)
    BY FS_Subset
  <2> QED
    BY <2>1, LastIsIn
<1>3. \A e \in D, v \in View : step[<<e, v>>] = ApplyRun(v, e[1]) /\ step[<<e, v>>] \in View
  <2> SUFFICES ASSUME NEW e \in D, NEW v \in View
               PROVE  step[<<e, v>>] = ApplyRun(v, e[1]) /\ step[<<e, v>>] \in View
    OBVIOUS
  <2>1. e[1] \in Runs
    OBVIOUS
  <2> QED
    BY <2>1, RunKeepsView
<1>4. PICK g \in Folds(D, View, cur, pick, step) : TRUE
  <2> HIDE DEF D, pick, step
  <2>1. IsFiniteSet(D)
    BY DEF D
  <2> QED
    BY <2>1, <1>2, <1>3, FoldExists
<1>5. \A s \in SUBSET D : s # {} => LastOf(s) \in s /\ g[s] = ApplyRun(g[s \ {LastOf(s)}], LastOf(s)[1])
  BY <1>2, <1>3, <1>4 DEF Folds
<1>6. g = [s \in SUBSET D |-> IF s = {} THEN cur ELSE ApplyRun(g[s \ {LastOf(s)}], LastOf(s)[1])]
  BY <1>4, <1>5 DEF Folds
<1>7. PICK h : /\ h = [s \in SUBSET D |->
                         IF s = {} THEN cur ELSE ApplyRun(h[s \ {LastOf(s)}], LastOf(s)[1])]
               /\ ReplayOver(cur, entries) = h[D]
  BY <1>6 DEF ReplayOver, MapThenFoldSet
<1> DEFINE U == {s \in SUBSET D : h[s] \in View /\ <<s, h[s]>> \in T}
<1>8. ASSUME NEW s \in SUBSET D, \A x \in s : s \ {x} \in U PROVE s \in U
  <2>1. CASE s = {}
    BY <1>7, <2>1
  <2>2. CASE s # {}
    <3>1. LastOf(s) \in s /\ s \ {LastOf(s)} \in U
      BY <1>5, <1>8, <2>2
    <3>2. h[s] = ApplyRun(h[s \ {LastOf(s)}], LastOf(s)[1])
      BY <1>7, <2>2
    <3>0. \A d \in s \ {LastOf(s)} : Before(d, LastOf(s))
      <4>1. IsFiniteSet(s) /\ s \in SUBSET (Runs \X Nat)
        BY FS_Subset
      <4> QED
        BY <2>2, <4>1, LastIsIn
    <3>3. <<s, h[s]>> \in T
      BY <3>0, <3>1, <3>2
    <3>4. h[s] \in View
      BY <3>1, <3>2, RunKeepsView
    <3> QED
      BY <3>3, <3>4
  <2> QED
    BY <2>1, <2>2
<1>9. D \in U
  <2> HIDE DEF U
  <2>1. \A s \in SUBSET D : (\A x \in s : s \ {x} \in U) => s \in U
    BY <1>8
  <2>2. \A s \in SUBSET D : s \in U
    BY <2>1, SubsetInduction
  <2> QED
    BY <2>2
<1> QED
  BY <1>7, <1>9

\* The same where the order of the runs does not matter.
LEMMA RunsInduction ==
  ASSUME NEW cur \in View, NEW entries \in SUBSET (Runs \X Nat), IsFiniteSet(entries),
         \A r \in Runs : seg[r] \in Seq(Event),
         NEW T, <<{}, cur>> \in T,
         \A s \in SUBSET entries : \A e \in s : \A v \in View :
            <<s \ {e}, v>> \in T => <<s, ApplyRun(v, e[1])>> \in T
  PROVE  /\ ReplayOver(cur, entries) \in View
         /\ <<entries, ReplayOver(cur, entries)>> \in T
BY RunsInOrder

-----------------------------------------------------------------------------
(* What a replay keeps.                                                    *)

\* The events record a span of `k`, or no active one.
RecordsKey(events, k) == \E n \in DOMAIN events : events[n].kind = "span" /\ events[n].key = k
NoActive(events, k) ==
    \A n \in DOMAIN events :
      events[n].kind = "span" /\ events[n].key = k => ~IsActive(events[n].rec)

\* Nothing is not active, and a record that is replaced is a record that is not.
LEMMA RecordsDiffer ==
  /\ ~IsActive(Nothing) /\ Nothing \notin SpanRecord
  /\ \A rec \in SpanRecord : /\ rec # Nothing
                             /\ AsReplaced(rec) \in SpanRecord
                             /\ ~IsActive(AsReplaced(rec))
BY DEF SpanRecord, Nothing, IsActive, AsReplaced

\* A key that is not active stays so while its runs record it as replaced only.
LEMMA RunStaysInactive ==
  ASSUME NEW cur \in View, NEW r, seg[r] \in Seq(Event), NEW k \in Runs,
         ~IsActive(cur[k]), NoActive(seg[r], k)
  PROVE  ~IsActive(ApplyRun(cur, r)[k])
<1> DEFINE T == {p \in (SUBSET DOMAIN seg[r]) \X View : ~IsActive(p[2][k])}
<1>1. \A s \in SUBSET DOMAIN seg[r] : \A n \in s : \A v \in View :
            <<s \ {n}, v>> \in T => <<s, ApplyEvent(v, seg[r][n])>> \in T
  <2> SUFFICES ASSUME NEW s \in SUBSET DOMAIN seg[r], NEW n \in s, NEW v \in View, ~IsActive(v[k])
               PROVE  /\ ApplyEvent(v, seg[r][n]) \in View
                      /\ ~IsActive(ApplyEvent(v, seg[r][n])[k])
    OBVIOUS
  <2>1. seg[r][n] \in Event /\ n \in DOMAIN seg[r]
    OBVIOUS
  <2>2. v[k] # Nothing => v[k] \in SpanRecord
    BY DEF View
  <2>3. /\ ApplyEvent(v, seg[r][n]) \in View
        /\ \/ ApplyEvent(v, seg[r][n])[k] = v[k]
           \/ seg[r][n].kind = "span" /\ seg[r][n].key = k
                /\ ApplyEvent(v, seg[r][n])[k] = seg[r][n].rec
           \/ v[k] # Nothing /\ ApplyEvent(v, seg[r][n])[k] = AsReplaced(v[k])
    BY <2>1, ApplyKeepsView
  <2> HIDE DEF T
  <2> QED
    BY <2>1, <2>2, <2>3, RecordsDiffer DEF NoActive
<1>2. <<{}, cur>> \in T
  OBVIOUS
<1>3. <<DOMAIN seg[r], ApplyRun(cur, r)>> \in T
  <2> HIDE DEF T
  <2> QED
    BY <1>1, <1>2, EventsInduction DEF ApplyRun
<1> QED
  BY <1>3

LEMMA ReplayStaysInactive ==
  ASSUME NEW cur \in View, NEW entries \in SUBSET (Runs \X Nat), IsFiniteSet(entries),
         \A r \in Runs : seg[r] \in Seq(Event),
         NEW k \in Runs, ~IsActive(cur[k]), \A e \in entries : NoActive(seg[e[1]], k)
  PROVE  ~IsActive(ReplayOver(cur, entries)[k])
<1> DEFINE T == {p \in (SUBSET entries) \X View : ~IsActive(p[2][k])}
<1>1. \A s \in SUBSET entries : \A e \in s : \A v \in View :
            <<s \ {e}, v>> \in T => <<s, ApplyRun(v, e[1])>> \in T
  <2> SUFFICES ASSUME NEW s \in SUBSET entries, NEW e \in s, NEW v \in View, ~IsActive(v[k])
               PROVE  ApplyRun(v, e[1]) \in View /\ ~IsActive(ApplyRun(v, e[1])[k])
    OBVIOUS
  <2>1. e[1] \in Runs /\ NoActive(seg[e[1]], k)
    OBVIOUS
  <2> QED
    BY <2>1, RunKeepsView, RunStaysInactive
<1>2. <<{}, cur>> \in T
  OBVIOUS
<1>3. <<entries, ReplayOver(cur, entries)>> \in T
  <2> HIDE DEF T
  <2> QED
    BY <1>1, <1>2, RunsInduction
<1> QED
  BY <1>3

\* A key has a record once a run recorded it, and keeps one.
LEMMA RunKeepsRecord ==
  ASSUME NEW cur \in View, NEW r, seg[r] \in Seq(Event), NEW k \in Runs,
         cur[k] # Nothing \/ RecordsKey(seg[r], k)
  PROVE  ApplyRun(cur, r)[k] # Nothing
<1> DEFINE Due(s) == cur[k] # Nothing \/ \E n \in s : seg[r][n].kind = "span" /\ seg[r][n].key = k
           T == {p \in (SUBSET DOMAIN seg[r]) \X View : Due(p[1]) => p[2][k] # Nothing}
<1>1. \A s \in SUBSET DOMAIN seg[r] : \A n \in s : \A v \in View :
            <<s \ {n}, v>> \in T => <<s, ApplyEvent(v, seg[r][n])>> \in T
  <2> SUFFICES ASSUME NEW s \in SUBSET DOMAIN seg[r], NEW n \in s, NEW v \in View,
                      <<s \ {n}, v>> \in T
               PROVE  <<s, ApplyEvent(v, seg[r][n])>> \in T
    OBVIOUS
  <2>0. Due(s \ {n}) => v[k] # Nothing
    OBVIOUS
  <2>1. seg[r][n] \in Event
    OBVIOUS
  <2>2. v[k] # Nothing => v[k] \in SpanRecord
    BY DEF View
  <2>3. seg[r][n].kind = "span" => seg[r][n].rec \in SpanRecord
    BY <2>1 DEF Event
  <2> HIDE DEF T
  <2>4. ApplyEvent(v, seg[r][n]) \in View
    BY <2>1, ApplyKeepsView
  <2>5. /\ \/ ApplyEvent(v, seg[r][n])[k] = v[k]
           \/ seg[r][n].kind = "span" /\ seg[r][n].key = k
                /\ ApplyEvent(v, seg[r][n])[k] = seg[r][n].rec
           \/ v[k] # Nothing /\ ApplyEvent(v, seg[r][n])[k] = AsReplaced(v[k])
        /\ seg[r][n].kind = "span" /\ seg[r][n].key = k =>
              ApplyEvent(v, seg[r][n])[k] = seg[r][n].rec
    <3> DEFINE e == seg[r][n]
    <3>1. e \in Event
      BY <2>1
    <3> HIDE DEF e, Due
    <3>2. \/ ApplyEvent(v, e)[k] = v[k]
          \/ e.kind = "span" /\ e.key = k /\ ApplyEvent(v, e)[k] = e.rec
          \/ v[k] # Nothing /\ ApplyEvent(v, e)[k] = AsReplaced(v[k])
      BY <3>1, ApplyKeepsView
    <3>3. e.kind = "span" /\ e.key = k => ApplyEvent(v, e)[k] = e.rec
      BY <3>1, ApplyKeepsView
    <3> QED
      BY <3>2, <3>3 DEF e
  <2>6. Due(s) => Due(s \ {n}) \/ (seg[r][n].kind = "span" /\ seg[r][n].key = k)
    OBVIOUS
  <2>7. Due(s) => ApplyEvent(v, seg[r][n])[k] # Nothing
    <3> HIDE DEF T, Due
    <3> QED
      BY <2>0, <2>2, <2>3, <2>5, <2>6, RecordsDiffer
  <2> HIDE DEF Due
  <2> QED
    BY <2>4, <2>7 DEF T
<1>2. <<{}, cur>> \in T
  OBVIOUS
<1>3. <<DOMAIN seg[r], ApplyRun(cur, r)>> \in T
  <2> HIDE DEF T
  <2> QED
    BY <1>1, <1>2, EventsInduction DEF ApplyRun
<1>4. Due(DOMAIN seg[r])
  BY DEF RecordsKey
<1> QED
  BY <1>3, <1>4

LEMMA ReplayKeepsRecord ==
  ASSUME NEW cur \in View, NEW entries \in SUBSET (Runs \X Nat), IsFiniteSet(entries),
         \A r \in Runs : seg[r] \in Seq(Event),
         NEW k \in Runs, cur[k] # Nothing \/ \E e \in entries : RecordsKey(seg[e[1]], k)
  PROVE  ReplayOver(cur, entries)[k] # Nothing
<1> DEFINE Due(s) == cur[k] # Nothing \/ \E e \in s : RecordsKey(seg[e[1]], k)
           T == {p \in (SUBSET entries) \X View : Due(p[1]) => p[2][k] # Nothing}
<1>1. \A s \in SUBSET entries : \A e \in s : \A v \in View :
            <<s \ {e}, v>> \in T => <<s, ApplyRun(v, e[1])>> \in T
  <2> SUFFICES ASSUME NEW s \in SUBSET entries, NEW e \in s, NEW v \in View,
                      <<s \ {e}, v>> \in T
               PROVE  <<s, ApplyRun(v, e[1])>> \in T
    OBVIOUS
  <2>0. Due(s \ {e}) => v[k] # Nothing
    OBVIOUS
  <2>1. e[1] \in Runs
    OBVIOUS
  <2>2. Due(s) => Due(s \ {e}) \/ RecordsKey(seg[e[1]], k)
    OBVIOUS
  <2>3. ApplyRun(v, e[1]) \in View /\ (Due(s) => ApplyRun(v, e[1])[k] # Nothing)
    <3> HIDE DEF T, Due
    <3> QED
      BY <2>0, <2>1, <2>2, RunKeepsView, RunKeepsRecord
  <2> HIDE DEF Due
  <2> QED
    BY <2>3
<1>2. <<{}, cur>> \in T
  OBVIOUS
<1>3. <<entries, ReplayOver(cur, entries)>> \in T
  <2> HIDE DEF T
  <2> QED
    BY <1>1, <1>2, RunsInduction
<1>4. Due(entries)
  OBVIOUS
<1> QED
  BY <1>3, <1>4

\* A replay is records again.
LEMMA ReplayKeepsView ==
  ASSUME NEW cur \in View, NEW entries \in SUBSET (Runs \X Nat), IsFiniteSet(entries),
         \A r \in Runs : seg[r] \in Seq(Event)
  PROVE  ReplayOver(cur, entries) \in View
<1> DEFINE T == (SUBSET entries) \X View
<1>1. \A s \in SUBSET entries : \A e \in s : \A v \in View :
            <<s \ {e}, v>> \in T => <<s, ApplyRun(v, e[1])>> \in T
  <2> SUFFICES ASSUME NEW s \in SUBSET entries, NEW e \in s, NEW v \in View
               PROVE  ApplyRun(v, e[1]) \in View
    OBVIOUS
  <2>1. e[1] \in Runs
    OBVIOUS
  <2> QED
    BY <2>1, RunKeepsView
<1>2. <<{}, cur>> \in T
  OBVIOUS
<1> HIDE DEF T
<1> QED
  BY <1>1, <1>2, RunsInduction

\* The subtraction of overwritten ranges takes ranges and nothing else.
LEMMA EffectiveKeeps ==
  ASSUME NEW cur \in View
  PROVE  /\ Effective(cur) \in View
         /\ \A k \in Runs : /\ IsActive(Effective(cur)[k]) <=> IsActive(cur[k])
                            /\ cur[k] # Nothing => Effective(cur)[k] # Nothing
<1> DEFINE Cut(k) == UNION {cur[j].over : j \in {i \in Runs : IsActive(cur[i]) /\ cur[i].run # cur[k].run
                        /\ (\/ cur[k].time < cur[i].time
                            \/ cur[k].time = cur[i].time /\ k < i)}}
<1>1. Effective(cur) = [k \in Runs |-> IF IsActive(cur[k])
                                       THEN [cur[k] EXCEPT !.ranges = @ \ Cut(k)] ELSE cur[k]]
  BY DEF Effective
<1>2. ASSUME NEW k \in Runs, IsActive(cur[k]), NEW c
      PROVE  /\ [cur[k] EXCEPT !.ranges = @ \ c] \in SpanRecord
             /\ IsActive([cur[k] EXCEPT !.ranges = @ \ c])
  <2>1. cur[k] \in SpanRecord
    BY <1>2, RecordsDiffer DEF View
  <2> QED
    BY <1>2, <2>1 DEF SpanRecord, IsActive
<1> HIDE DEF Cut
<1>3. ASSUME NEW k \in Runs
      PROVE  /\ Effective(cur)[k] \in SpanRecord \cup {Nothing}
             /\ IsActive(Effective(cur)[k]) <=> IsActive(cur[k])
             /\ cur[k] # Nothing => Effective(cur)[k] # Nothing
  <2>1. CASE IsActive(cur[k])
    <3>1. Effective(cur)[k] = [cur[k] EXCEPT !.ranges = @ \ Cut(k)]
      BY <1>1, <2>1
    <3> QED
      BY <3>1, <2>1, <1>2, RecordsDiffer
  <2>2. CASE ~IsActive(cur[k])
    <3>1. Effective(cur)[k] = cur[k]
      BY <1>1, <2>2
    <3> QED
      BY <3>1 DEF View
  <2> QED
    BY <2>1, <2>2
<1> QED
  BY <1>1, <1>3 DEF View

-----------------------------------------------------------------------------
(* The inductive invariant.                                                *)

PlanType ==
    [kind : {"none", "ingest", "force", "delete"}, cover : SUBSET Slots, batched : BOOLEAN]
Pcs ==
    {"new", "writing", "sealed", "terminal", "planned", "recorded", "rewriting", "raised",
     "ended", "crashed"}
RunType ==
    [pc : Pcs, plan : PlanType, buf : Seq(Event), over : SUBSET Slots, keys : SUBSET Runs, at : Nat]
MetaType == [status : {"none", "started"} \cup TerminalStatus, at : Nat]
EntrySets == {E \in SUBSET (Runs \X Nat) : IsFiniteSet(E)}
Pointer == [cutoff : Nat, records : View, folded : SUBSET Runs]
CptType ==
    [pc : {"idle", "allowed"}]
    \cup [pc : {"reading"}, entries : EntrySets, todo : SUBSET Runs]
    \cup [pc : {"projected"}, pointer : Pointer]

TypeOK ==
    /\ load \in Loads
    /\ now \in Nat
    /\ run \in [Runs -> RunType]
    /\ seg \in [Runs -> Seq(Event)]
    /\ meta \in [Runs -> MetaType]
    /\ latest \in Pointer \cup {NoPointer}
    /\ cpt \in [Compactors -> CptType]

\* A run records no active span but its own.
OwnsActive(events, r) ==
    \A n \in DOMAIN events :
      events[n].kind = "span" /\ IsActive(events[n].rec) => events[n].key = r

RecordsOwn(r) == OwnsActive(seg[r], r) /\ OwnsActive(run[r].buf, r)

\* Where the span of a run is: in its buffer until the segment is sealed that
\* carries it, and in a segment from then on.  A run that failed may have none.
SpanIsKept(r) ==
    /\ run[r].plan.kind = "delete" => run[r].plan.cover = {}
    /\ run[r].plan.cover # {} =>
         /\ At(r, "writing") /\ run[r].plan.batched => RecordsKey(run[r].buf, r)
         /\ run[r].pc \in {"sealed", "terminal", "planned"} /\ run[r].plan.batched =>
              RecordsKey(seg[r], r)
         /\ At(r, "recorded") => RecordsKey(run[r].buf, r) \/ RecordsKey(seg[r], r)
         /\ At(r, "rewriting") => RecordsKey(seg[r], r)
         /\ At(r, "ended") => RecordsKey(seg[r], r) \/ meta[r].status # "complete"

LedgerInv ==
    /\ TypeOK
    /\ \A r \in Runs : RecordsOwn(r) /\ SpanIsKept(r)
-----------------------------------------------------------------------------
(* Events a run records.                                                   *)

LEMMA ConcatKeeps ==
  ASSUME NEW a \in Seq(Event), NEW b \in Seq(Event), NEW r
  PROVE  /\ a \o b \in Seq(Event)
         /\ OwnsActive(a, r) /\ OwnsActive(b, r) => OwnsActive(a \o b, r)
         /\ RecordsKey(a, r) \/ RecordsKey(b, r) => RecordsKey(a \o b, r)
<1>1. /\ a \o b \in Seq(Event)
      /\ Len(a \o b) = Len(a) + Len(b) /\ Len(a) \in Nat /\ Len(b) \in Nat
      /\ \A n \in 1 .. Len(a) + Len(b) : (a \o b)[n] = IF n <= Len(a) THEN a[n] ELSE b[n - Len(a)]
  BY ConcatProperties
<1>2. DOMAIN a = 1 .. Len(a) /\ DOMAIN b = 1 .. Len(b) /\ DOMAIN (a \o b) = 1 .. Len(a) + Len(b)
  BY <1>1
<1>3. ASSUME NEW n \in DOMAIN (a \o b)
      PROVE  \/ n \in DOMAIN a /\ (a \o b)[n] = a[n]
             \/ n - Len(a) \in DOMAIN b /\ (a \o b)[n] = b[n - Len(a)]
  BY <1>1, <1>2
<1>4. ASSUME NEW n \in DOMAIN a PROVE n \in DOMAIN (a \o b) /\ (a \o b)[n] = a[n]
  BY <1>1, <1>2
<1>5. ASSUME NEW n \in DOMAIN b
      PROVE  n + Len(a) \in DOMAIN (a \o b) /\ (a \o b)[n + Len(a)] = b[n]
  BY <1>1, <1>2
<1>6. OwnsActive(a, r) /\ OwnsActive(b, r) => OwnsActive(a \o b, r)
  BY <1>3 DEF OwnsActive
<1>7. RecordsKey(a, r) => RecordsKey(a \o b, r)
  BY <1>4 DEF RecordsKey
<1>8. RecordsKey(b, r) => RecordsKey(a \o b, r)
  BY <1>5 DEF RecordsKey
<1> QED
  BY <1>1, <1>6, <1>7, <1>8

\* A run's own span, and any span that is marked replaced.
LEMMA SpanEvents ==
  ASSUME NEW r \in Runs, NEW k \in Runs, NEW rec \in SpanRecord, k = r \/ ~IsActive(rec)
  PROVE  /\ <<SpanEvent(k, rec)>> \in Seq(Event)
         /\ OwnsActive(<<SpanEvent(k, rec)>>, r) /\ RecordsKey(<<SpanEvent(k, rec)>>, k)
<1>1. SpanEvent(k, rec) \in Event
  BY DEF SpanEvent, Event
<1> DEFINE one == <<SpanEvent(k, rec)>>
<1>2. one \in Seq(Event) /\ DOMAIN one = 1..1 /\ one[1] = SpanEvent(k, rec)
  BY <1>1
<1>3. /\ SpanEvent(k, rec).kind = "span" /\ SpanEvent(k, rec).key = k
      /\ SpanEvent(k, rec).rec = rec
  BY DEF SpanEvent
<1> HIDE DEF one
<1>4. OwnsActive(one, r)
  BY <1>2, <1>3 DEF OwnsActive
<1>5. RecordsKey(one, k)
  BY <1>2, <1>3 DEF RecordsKey
<1> QED
  BY <1>2, <1>4, <1>5 DEF one

\* Events that are no spans.
LEMMA OtherEvents ==
  ASSUME NEW e \in Event, e.kind # "span", NEW r
  PROVE  <<e>> \in Seq(Event) /\ OwnsActive(<<e>>, r)
<1> DEFINE one == <<e>>
<1>1. one \in Seq(Event) /\ DOMAIN one = 1..1 /\ one[1] = e
  OBVIOUS
<1> HIDE DEF one
<1>2. OwnsActive(one, r)
  BY <1>1 DEF OwnsActive
<1> QED
  BY <1>1, <1>2 DEF one

LEMMA TerminalEvents ==
  ASSUME NEW s \in TerminalStatus, NEW r
  PROVE  <<TerminalEvent(s)>> \in Seq(Event) /\ OwnsActive(<<TerminalEvent(s)>>, r)
<1>1. TerminalEvent(s) \in Event /\ TerminalEvent(s).kind # "span"
  BY DEF TerminalEvent, Event
<1> QED
  BY <1>1, OtherEvents

LEMMA ReplacementEvents ==
  ASSUME NEW keys \in SUBSET Runs, NEW r
  PROVE  <<ReplacementEvent(keys)>> \in Seq(Event) /\ OwnsActive(<<ReplacementEvent(keys)>>, r)
<1>1. ReplacementEvent(keys) \in Event /\ ReplacementEvent(keys).kind # "span"
  BY DEF ReplacementEvent, Event
<1> QED
  BY <1>1, OtherEvents

-----------------------------------------------------------------------------
(* What readers and the compactor see.                                     *)

\* The entries of runs are finitely many, with their times.
LEMMA EntriesTyped ==
  ASSUME TypeOK, NEW runs \in SUBSET Runs
  PROVE  Entries(runs) \in SUBSET (Runs \X Nat) /\ IsFiniteSet(Entries(runs))
<1>1. \A r \in Runs : meta[r].at \in Nat
  BY DEF TypeOK, MetaType
<1>2. Entries(runs) \in SUBSET (Runs \X Nat)
  BY <1>1 DEF Entries
<1>3. IsFiniteSet(runs)
  BY LedgerAssumption, FS_Subset
<1> DEFINE f == [r \in runs |-> <<r, meta[r].at>>]
<1>4. f \in Surjection(runs, Entries(runs))
  BY DEF Surjection, Entries
<1>5. IsFiniteSet(Entries(runs))
  <2> HIDE DEF f
  <2> QED
    BY <1>3, <1>4, FS_Surjection
<1> QED
  BY <1>2, <1>5

LEMMA NoRecordsIsView == NoRecords \in View /\ \A k \in Runs : NoRecords[k] = Nothing
BY DEF NoRecords, View

LEMMA CompleteAreRuns == Complete \in SUBSET Runs /\ \A t : ReplayRuns(t) \in SUBSET Runs
BY DEF Complete, ReplayRuns

\* A read of the current state sees records (load_current_state).
LEMMA CurrentIsView ==
  ASSUME TypeOK
  PROVE  Current \in View
<1>0. \A r \in Runs : seg[r] \in Seq(Event)
  BY DEF TypeOK
<1>1. CASE latest = NoPointer
  <2>1. ReplayOver(NoRecords, Entries(Complete)) \in View
    BY <1>0, EntriesTyped, CompleteAreRuns, NoRecordsIsView, ReplayKeepsView
  <2> QED
    BY <1>1, <2>1, EffectiveKeeps DEF Current, Replayed
<1>2. CASE latest # NoPointer
  <2>1. latest.records \in View
    BY <1>2 DEF TypeOK, Pointer
  <2>2. ReplayOver(latest.records, Entries(ReplayRuns(latest.cutoff))) \in View
    BY <1>0, <2>1, EntriesTyped, CompleteAreRuns, ReplayKeepsView
  <2> QED
    BY <1>2, <2>2, EffectiveKeeps DEF Current
<1> QED
  BY <1>1, <1>2

LEMMA ProjectionIsView ==
  ASSUME TypeOK, NEW entries \in EntrySets
  PROVE  ProjectEntries(entries) \in View
<1>1. \A r \in Runs : seg[r] \in Seq(Event)
  BY DEF TypeOK
<1>2. ReplayOver(NoRecords, entries) \in View
  BY <1>1, NoRecordsIsView, ReplayKeepsView DEF EntrySets
<1> QED
  BY <1>2, EffectiveKeeps DEF ProjectEntries

\* The cutoff of a projection is the latest time among its entries.
LEMMA CutoffIsTime ==
  ASSUME NEW entries \in EntrySets
  PROVE  LET cutoff == MaxOf({0} \cup {e[2] : e \in entries})
         IN /\ cutoff \in Nat
            /\ \A e \in entries : e[2] <= cutoff
            /\ cutoff = 0 \/ \E e \in entries : e[2] = cutoff
<1> DEFINE f == [e \in entries |-> e[2]]
           S == {e[2] : e \in entries}
<1>1. f \in Surjection(entries, S)
  BY DEF Surjection
<1>2. IsFiniteSet(S)
  <2> HIDE DEF f, S
  <2> QED
    BY <1>1, FS_Surjection DEF EntrySets
<1>3. S \subseteq Nat
  BY DEF EntrySets
<1>e. \A e \in entries : e[2] \in S
  OBVIOUS
<1>s. \A x \in S : \E e \in entries : e[2] = x
  OBVIOUS
<1> HIDE DEF S
<1>4. IsFiniteSet(S \cup {0})
  BY <1>2, FS_AddElement
<1>5. {0} \cup S = S \cup {0} /\ {0} \cup S \subseteq Nat
  BY <1>3
<1>6. PICK x \in {0} \cup S : \A y \in {0} \cup S : x >= y
  BY <1>4, <1>5, MaxIsIn
<1>7. \A y \in {0} \cup S : y <= x
  BY <1>5, <1>6
<1>8. MaxOf({0} \cup S) \in {0} \cup S /\ \A y \in {0} \cup S : y <= MaxOf({0} \cup S)
  BY <1>7 DEF MaxOf
<1>9. /\ MaxOf({0} \cup S) \in Nat
      /\ \A e \in entries : e[2] <= MaxOf({0} \cup S)
      /\ MaxOf({0} \cup S) = 0 \/ \E e \in entries : e[2] = MaxOf({0} \cup S)
  BY <1>5, <1>8, <1>e, <1>s
<1> QED
  BY <1>9 DEF S

-----------------------------------------------------------------------------
(* Steps of a run.                                                         *)

\* Run r moves: it and its records keep to their types, and nothing else changes.
MovesRun(r) ==
    /\ load' = load /\ now' \in Nat
    /\ run' \in [Runs -> RunType] /\ \A q \in Runs \ {r} : run'[q] = run[q]
    /\ seg' \in [Runs -> Seq(Event)] /\ \A q \in Runs \ {r} : seg'[q] = seg[q]
    /\ meta' \in [Runs -> MetaType] /\ \A q \in Runs \ {r} : meta'[q] = meta[q]
    /\ latest' = latest /\ cpt' = cpt

LEMMA MovingKeepsInv ==
  ASSUME LedgerInv, NEW r \in Runs, MovesRun(r), RecordsOwn(r)', SpanIsKept(r)'
  PROVE  LedgerInv'
<1>1. TypeOK'
  BY DEF LedgerInv, TypeOK, MovesRun
<1>2. ASSUME NEW q \in Runs \ {r} PROVE RecordsOwn(q)' /\ SpanIsKept(q)'
  BY DEF LedgerInv, MovesRun, RecordsOwn, SpanIsKept, At
<1> QED
  BY <1>1, <1>2 DEF LedgerInv

\* The parts of a move: the process, run.json, a segment.
LEMMA BecomeEffect ==
  ASSUME TypeOK, NEW r \in Runs, NEW p \in RunType, Become(r, p)
  PROVE  /\ run' \in [Runs -> RunType] /\ run'[r] = p
         /\ \A q \in Runs \ {r} : run'[q] = run[q]
BY DEF TypeOK, Become

LEMMA PutMetaEffect ==
  ASSUME TypeOK, NEW r \in Runs, NEW s \in {"none", "started"} \cup TerminalStatus, NEW t \in Nat,
         PutMeta(r, s, t)
  PROVE  /\ meta' \in [Runs -> MetaType] /\ meta'[r].status = s
         /\ \A q \in Runs \ {r} : meta'[q] = meta[q]
<1>1. Meta(s, t) \in MetaType /\ Meta(s, t).status = s
  BY DEF Meta, MetaType
<1> QED
  BY <1>1 DEF TypeOK, PutMeta

LEMMA AppendEffect ==
  ASSUME LedgerInv, NEW r \in Runs, NEW events \in Seq(Event), OwnsActive(events, r),
         Append1(r, events)
  PROVE  /\ seg' \in [Runs -> Seq(Event)]
         /\ \A q \in Runs \ {r} : seg'[q] = seg[q]
         /\ OwnsActive(seg'[r], r)
         /\ RecordsKey(seg[r], r) \/ RecordsKey(events, r) => RecordsKey(seg'[r], r)
<1>1. seg[r] \in Seq(Event) /\ OwnsActive(seg[r], r)
  BY DEF LedgerInv, TypeOK, RecordsOwn
<1>2. seg' = [seg EXCEPT ![r] = seg[r] \o events]
  BY DEF Append1
<1>3. seg[r] \o events \in Seq(Event)
  BY <1>1, ConcatKeeps
<1>4. seg'[r] = seg[r] \o events
  BY <1>2 DEF LedgerInv, TypeOK
<1> QED
  BY <1>1, <1>2, <1>3, <1>4, ConcatKeeps DEF LedgerInv, TypeOK

\* What is known of a run before it moves.
LEMMA RunFields ==
  ASSUME LedgerInv, NEW r \in Runs
  PROVE  /\ run[r] \in RunType /\ run[r].plan \in PlanType /\ run[r].buf \in Seq(Event)
         /\ run[r].plan.cover \in SUBSET Slots /\ run[r].over \in SUBSET Slots
         /\ run[r].keys \in SUBSET Runs /\ run[r].at \in Nat
         /\ meta[r] \in MetaType
         /\ seg[r] \in Seq(Event) /\ now \in Nat /\ Clock \in Nat
         /\ RecordsOwn(r) /\ SpanIsKept(r)
         /\ OwnsActive(<<>>, r) /\ <<>> \in Seq(Event)
BY DEF LedgerInv, TypeOK, RunType, PlanType, Clock, OwnsActive

\* A process with other fields is one again.
Buffered(p, l, b) == [p EXCEPT !.pc = l, !.buf = b]
Emptied(p, l) == [p EXCEPT !.pc = l, !.buf = <<>>]
Planned(p, k, o) == [p EXCEPT !.pc = "planned", !.keys = k, !.over = o]

LEMMA WithBuffer ==
  ASSUME NEW p \in RunType, NEW l \in Pcs, NEW b \in Seq(Event)
  PROVE  /\ Buffered(p, l, b) \in RunType
         /\ Buffered(p, l, b).pc = l /\ Buffered(p, l, b).buf = b
         /\ Buffered(p, l, b).plan = p.plan
BY DEF RunType, Buffered

LEMMA WithoutBuffer ==
  ASSUME NEW p \in RunType, NEW l \in Pcs
  PROVE  /\ Emptied(p, l) \in RunType
         /\ Emptied(p, l).pc = l /\ Emptied(p, l).buf = <<>>
         /\ Emptied(p, l).plan = p.plan
<1>1. <<>> \in Seq(Event)
  BY EmptySeq
<1>2. Emptied(p, l) = Buffered(p, l, <<>>)
  BY DEF Emptied, Buffered
<1>3. ASSUME NEW b \in Seq(Event), NEW q, q = Buffered(p, l, b)
      PROVE  q \in RunType /\ q.pc = l /\ q.buf = b /\ q.plan = p.plan
  BY <1>3, WithBuffer
<1> HIDE DEF Emptied, Buffered
<1> QED
  BY <1>1, <1>2, <1>3, Zenon

LEMMA PcNames ==
  /\ "sealed" \in Pcs /\ "recorded" \in Pcs /\ "rewriting" \in Pcs
  /\ "ended" \in Pcs /\ "crashed" \in Pcs
BY DEF Pcs

LEMMA WithBatch ==
  ASSUME NEW p \in RunType, NEW b \in Seq(Event)
  PROVE  LET q == [p EXCEPT !.plan.batched = TRUE, !.buf = b]
         IN q \in RunType /\ q.pc = p.pc /\ q.buf = b /\ q.plan.kind = p.plan.kind
<1> DEFINE plan == [p.plan EXCEPT !.batched = TRUE]
<1>1. plan \in PlanType /\ plan.kind = p.plan.kind
  BY DEF RunType, PlanType
<1>2. [p EXCEPT !.plan.batched = TRUE, !.buf = b] = [p EXCEPT !.plan = plan, !.buf = b]
  OBVIOUS
<1> HIDE DEF plan
<1> QED
  BY <1>1, <1>2 DEF RunType

LEMMA WithReplacement ==
  ASSUME NEW p \in RunType, NEW k \in SUBSET Runs, NEW o \in SUBSET Slots
  PROVE  LET q == Planned(p, k, o)
         IN q \in RunType /\ q.pc = "planned" /\ q.buf = p.buf /\ q.plan = p.plan
BY DEF RunType, Pcs, Planned

\* The place of a run changes, with nothing in its buffer and its segments.
LEMMA GotoEffect ==
  ASSUME LedgerInv, NEW r \in Runs,
         NEW l \in Pcs, Goto(r, l)
  PROVE  /\ run' \in [Runs -> RunType]
         /\ \A q \in Runs \ {r} : run'[q] = run[q]
         /\ run'[r].pc = l /\ run'[r].plan = run[r].plan /\ run'[r].buf = run[r].buf
<1> DEFINE p == [run[r] EXCEPT !.pc = l]
<1>1. p \in RunType /\ p.pc = l /\ p.plan = run[r].plan /\ p.buf = run[r].buf
  BY RunFields DEF RunType
<1>2. Become(r, p)
  BY DEF Goto
<1> HIDE DEF p
<1> QED
  BY <1>1, <1>2, BecomeEffect DEF LedgerInv

\* A span of a run, as it records it.
LEMMA OwnSpan ==
  ASSUME NEW r \in Runs, NEW cover \in SUBSET Slots, NEW over \in SUBSET Slots, NEW t \in Nat
  PROVE  LET events == <<SpanEvent(r, Span(r, cover, over, t))>>
         IN events \in Seq(Event) /\ OwnsActive(events, r) /\ RecordsKey(events, r)
<1>1. Span(r, cover, over, t) \in SpanRecord
  BY DEF Span, SpanRecord
<1> QED
  BY <1>1, SpanEvents

LEMMA StartIngestStep ==
  ASSUME LedgerInv, NEW r \in Runs, NEW kind \in load.kinds, NEW cover \in Covers,
         StartIngest(r, kind, cover), load' = load
  PROVE  LedgerInv'
<1> DEFINE p == [Idle EXCEPT !.pc = "writing", !.plan = Plan(kind, cover, FALSE)]
<1>1. cover \in SUBSET Slots /\ kind \in {"ingest", "force"}
  <2>1. load \in Loads
    BY DEF LedgerInv, TypeOK
  <2>2. load.slots \subseteq Slots /\ load.kinds \subseteq {"ingest", "force", "delete"}
    BY <2>1, LedgerAssumption
  <2> QED
    BY <2>2 DEF StartIngest, Covers, Interval
<1>2. p \in RunType /\ p.pc = "writing" /\ p.buf = <<>> /\ ~p.plan.batched /\ p.plan.kind = kind
  BY <1>1, RunFields DEF Idle, Plan, NoPlan, RunType, PlanType, Pcs
<1>3. Become(r, p) /\ PutMeta(r, "started", 0)
  BY DEF StartIngest
<1> HIDE DEF p
<1>4. run' \in [Runs -> RunType] /\ run'[r] = p /\ \A q \in Runs \ {r} : run'[q] = run[q]
  BY <1>2, <1>3, BecomeEffect DEF LedgerInv
<1>5. meta' \in [Runs -> MetaType] /\ \A q \in Runs \ {r} : meta'[q] = meta[q]
  BY <1>3, PutMetaEffect DEF LedgerInv
<1>6. MovesRun(r)
  BY <1>4, <1>5 DEF MovesRun, StartIngest, LedgerInv, TypeOK
<1>7. RecordsOwn(r)'
  BY <1>2, <1>4, RunFields DEF RecordsOwn, StartIngest
<1>8. SpanIsKept(r)'
  BY <1>1, <1>2, <1>4 DEF SpanIsKept, At
<1> QED
  BY <1>6, <1>7, <1>8, MovingKeepsInv

LEMMA RecordBatchStep ==
  ASSUME LedgerInv, NEW r \in Runs, RecordBatch(r), load' = load
  PROVE  LedgerInv'
<1> DEFINE ev == <<SpanEvent(r, Span(r, run[r].plan.cover, {}, Clock))>>
           p == [run[r] EXCEPT !.plan.batched = TRUE, !.buf = ev]
<1>1. ev \in Seq(Event) /\ OwnsActive(ev, r) /\ RecordsKey(ev, r)
  BY RunFields, OwnSpan
<1>2. Become(r, p) /\ run[r].plan.kind # "delete" /\ run[r].pc = "writing" /\ now' = Clock
  BY DEF RecordBatch, At, Tick
<1> HIDE DEF ev
<1>3. p \in RunType /\ p.pc = run[r].pc /\ p.plan.kind = run[r].plan.kind /\ p.buf = ev
  BY <1>1, RunFields, WithBatch
<1> HIDE DEF p
<1>4. run' \in [Runs -> RunType] /\ run'[r] = p /\ \A q \in Runs \ {r} : run'[q] = run[q]
  BY <1>2, <1>3, BecomeEffect DEF LedgerInv
<1>6. MovesRun(r)
  BY <1>2, <1>4, RunFields DEF MovesRun, RecordBatch, LedgerInv, TypeOK
<1>7. RecordsOwn(r)'
  BY <1>1, <1>3, <1>4, RunFields DEF RecordsOwn, RecordBatch
<1>8. SpanIsKept(r)'
  BY <1>1, <1>2, <1>3, <1>4 DEF SpanIsKept, At
<1> QED
  BY <1>6, <1>7, <1>8, MovingKeepsInv

LEMMA StartDeleteStep ==
  ASSUME LedgerInv, NEW r \in Runs, NEW k \in Runs, StartDelete(r, k), load' = load
  PROVE  LedgerInv'
<1> DEFINE rec == [Current[k] EXCEPT !.status = "replaced", !.time = Clock]
           ev == <<SpanEvent(k, rec)>>
           p == [Idle EXCEPT !.pc = "writing", !.plan = Plan("delete", {}, FALSE), !.buf = ev]
<1>1. Current[k] \in SpanRecord
  BY CurrentIsView, RecordsDiffer DEF LedgerInv, StartDelete, View
<1>2. rec \in SpanRecord /\ ~IsActive(rec)
  BY <1>1, RunFields DEF SpanRecord, IsActive
<1>3. Become(r, p) /\ PutMeta(r, "started", 0) /\ now' = Clock
  BY DEF StartDelete, Tick
<1> HIDE DEF rec
<1>4. ev \in Seq(Event) /\ OwnsActive(ev, r)
  BY <1>2, SpanEvents
<1> HIDE DEF ev
<1>5. p \in RunType /\ p.pc = "writing" /\ p.buf = ev /\ p.plan.cover = {}
  BY <1>4, RunFields DEF Idle, Plan, NoPlan, RunType, PlanType, Pcs
<1> HIDE DEF p
<1>6. run' \in [Runs -> RunType] /\ run'[r] = p /\ \A q \in Runs \ {r} : run'[q] = run[q]
  BY <1>3, <1>5, BecomeEffect DEF LedgerInv
<1>7. meta' \in [Runs -> MetaType] /\ \A q \in Runs \ {r} : meta'[q] = meta[q]
  BY <1>3, PutMetaEffect DEF LedgerInv
<1>8. MovesRun(r)
  BY <1>3, <1>6, <1>7, RunFields DEF MovesRun, StartDelete, LedgerInv, TypeOK
<1>9. RecordsOwn(r)'
  BY <1>4, <1>5, <1>6, RunFields DEF RecordsOwn, StartDelete
<1>10. SpanIsKept(r)'
  BY <1>5, <1>6 DEF SpanIsKept
<1> QED
  BY <1>8, <1>9, <1>10, MovingKeepsInv

LEMMA SealCompleteStep ==
  ASSUME LedgerInv, NEW r \in Runs, SealComplete(r), load' = load
  PROVE  LedgerInv'
<1> DEFINE last == <<TerminalEvent("complete")>>
           ev == run[r].buf \o last
           p == Emptied(run[r], "sealed")
<1>1. last \in Seq(Event) /\ OwnsActive(last, r)
  BY TerminalEvents DEF TerminalStatus
<1>2. Become(r, p) /\ Append1(r, ev) /\ run[r].pc = "writing"
  BY DEF SealComplete, At, Emptied
<1> HIDE DEF last
<1>3. /\ ev \in Seq(Event) /\ OwnsActive(ev, r)
      /\ RecordsKey(run[r].buf, r) => RecordsKey(ev, r)
  BY <1>1, RunFields, ConcatKeeps DEF RecordsOwn
<1> HIDE DEF ev
<1>4. p \in RunType /\ p.pc = "sealed" /\ p.buf = <<>> /\ p.plan = run[r].plan
  BY RunFields, PcNames, WithoutBuffer
<1> HIDE DEF p
<1>5. run' \in [Runs -> RunType] /\ run'[r] = p /\ \A q \in Runs \ {r} : run'[q] = run[q]
  BY <1>2, <1>4, BecomeEffect DEF LedgerInv
<1>6. /\ seg' \in [Runs -> Seq(Event)] /\ \A q \in Runs \ {r} : seg'[q] = seg[q]
      /\ OwnsActive(seg'[r], r)
      /\ RecordsKey(ev, r) => RecordsKey(seg'[r], r)
  BY <1>2, <1>3, AppendEffect
<1>7. MovesRun(r)
  BY <1>5, <1>6 DEF MovesRun, SealComplete, LedgerInv, TypeOK
<1>8. RecordsOwn(r)'
  BY <1>4, <1>5, <1>6, RunFields DEF RecordsOwn
<1>9. SpanIsKept(r)'
  BY <1>2, <1>3, <1>4, <1>5, <1>6, RunFields DEF SpanIsKept, At
<1> QED
  BY <1>7, <1>8, <1>9, MovingKeepsInv

LEMMA FinalizeCompleteStep ==
  ASSUME LedgerInv, NEW r \in Runs, FinalizeComplete(r), load' = load
  PROVE  LedgerInv'
<1>1. /\ run[r].pc = "sealed" /\ now' = Clock /\ PutMeta(r, "complete", Clock)
      /\ Goto(r, IF run[r].plan.kind = "delete" THEN "ended" ELSE "terminal")
  BY DEF FinalizeComplete, At, Tick
<1>2. /\ run' \in [Runs -> RunType] /\ \A q \in Runs \ {r} : run'[q] = run[q]
      /\ run'[r].pc = (IF run[r].plan.kind = "delete" THEN "ended" ELSE "terminal")
      /\ run'[r].plan = run[r].plan /\ run'[r].buf = run[r].buf
  BY <1>1, GotoEffect DEF Pcs
<1>3. meta' \in [Runs -> MetaType] /\ \A q \in Runs \ {r} : meta'[q] = meta[q]
  BY <1>1, RunFields, PutMetaEffect DEF LedgerInv, TerminalStatus
<1>4. MovesRun(r)
  BY <1>1, <1>2, <1>3, RunFields DEF MovesRun, FinalizeComplete, LedgerInv, TypeOK
<1>5. RecordsOwn(r)' /\ SpanIsKept(r)'
  BY <1>1, <1>2, RunFields DEF RecordsOwn, SpanIsKept, At, FinalizeComplete
<1> QED
  BY <1>4, <1>5, MovingKeepsInv

LEMMA PlanReplacementStep ==
  ASSUME LedgerInv, NEW r \in Runs, PlanReplacement(r), load' = load
  PROVE  LedgerInv'
<1> DEFINE keys == IF run[r].plan.cover = {} THEN {} ELSE ReplacedKeys(r)
           p == Planned(run[r], keys, Overwrites(r))
           Moved(q) == /\ q \in RunType /\ q.pc \in {"planned", "raised"}
                       /\ q.plan = run[r].plan /\ q.buf = run[r].buf
<1>1. run[r].pc = "terminal"
  BY DEF PlanReplacement, At
<1>2. ReplacedKeys(r) \in SUBSET Runs /\ Overwrites(r) \in SUBSET Slots
  <2>1. ReplacedKeys(r) \in SUBSET Runs
    BY DEF ReplacedKeys, PriorSpans
  <2>2. Overwrites(r) \subseteq run[r].plan.cover
    BY DEF Overwrites
  <2> QED
    BY <2>1, <2>2, RunFields
<1>3. Moved(p)
  <2>1. keys \in SUBSET Runs
    BY <1>2
  <2> HIDE DEF keys
  <2> QED
    BY <1>2, <2>1, RunFields, WithReplacement
<1>4. Moved([run[r] EXCEPT !.pc = "planned"]) /\ Moved([run[r] EXCEPT !.pc = "raised"])
  BY RunFields DEF RunType, Pcs
<1>5. PICK q : Moved(q) /\ Become(r, q)
  <2>1. \/ Become(r, [run[r] EXCEPT !.pc = "planned"])
        \/ Become(r, [run[r] EXCEPT !.pc = "raised"])
        \/ Become(r, p)
    BY DEF PlanReplacement, Planned
  <2> HIDE DEF p, Moved
  <2> QED
    BY <1>3, <1>4, <2>1
<1>6. run' \in [Runs -> RunType] /\ run'[r] = q /\ \A o \in Runs \ {r} : run'[o] = run[o]
  BY <1>5, BecomeEffect DEF LedgerInv
<1>7. MovesRun(r)
  BY <1>6 DEF MovesRun, PlanReplacement, LedgerInv, TypeOK
<1>8. RecordsOwn(r)' /\ SpanIsKept(r)'
  BY <1>1, <1>5, <1>6, RunFields DEF RecordsOwn, SpanIsKept, At, PlanReplacement
<1> QED
  BY <1>7, <1>8, MovingKeepsInv

LEMMA RecordSpansStep ==
  ASSUME LedgerInv, NEW r \in Runs, RecordSpans(r), load' = load
  PROVE  LedgerInv'
<1> DEFINE one == <<SpanEvent(r, Span(r, run[r].plan.cover, run[r].over, Clock))>>
           ev == run[r].buf \o one
           p == Buffered(run[r], "recorded", ev)
<1>1. run[r].pc = "planned"
  BY DEF RecordSpans, At
<1>2. CASE RecordsSpan(r) /\ Tick /\ Become(r, p)
  <2>1. one \in Seq(Event) /\ OwnsActive(one, r) /\ RecordsKey(one, r)
    BY RunFields, OwnSpan
  <2> HIDE DEF one
  <2>2. ev \in Seq(Event) /\ OwnsActive(ev, r) /\ RecordsKey(ev, r)
    BY <2>1, RunFields, ConcatKeeps DEF RecordsOwn
  <2> HIDE DEF ev
  <2>3. p \in RunType /\ p.pc = "recorded" /\ p.buf = ev /\ p.plan = run[r].plan
    BY <2>2, RunFields, PcNames, WithBuffer
  <2>4. Become(r, p) /\ now' = Clock
    BY <1>2 DEF Tick
  <2> HIDE DEF p
  <2>5. run' \in [Runs -> RunType] /\ run'[r] = p /\ \A q \in Runs \ {r} : run'[q] = run[q]
    BY <2>3, <2>4, BecomeEffect DEF LedgerInv
  <2>6. MovesRun(r)
    BY <2>4, <2>5, RunFields DEF MovesRun, RecordSpans, LedgerInv, TypeOK
  <2>7. RecordsOwn(r)' /\ SpanIsKept(r)'
    BY <2>2, <2>3, <2>5, RunFields DEF RecordsOwn, SpanIsKept, At, RecordSpans
  <2> QED
    BY <2>6, <2>7, MovingKeepsInv
<1>3. CASE /\ ~RecordsSpan(r) /\ UNCHANGED now
           /\ Goto(r, IF run[r].keys # {} THEN "recorded" ELSE "ended")
  <2>1. /\ run' \in [Runs -> RunType] /\ \A q \in Runs \ {r} : run'[q] = run[q]
        /\ run'[r].pc = (IF run[r].keys # {} THEN "recorded" ELSE "ended")
        /\ run'[r].plan = run[r].plan /\ run'[r].buf = run[r].buf
    BY <1>3, GotoEffect DEF Pcs
  <2>2. MovesRun(r)
    BY <1>3, <2>1, RunFields DEF MovesRun, RecordSpans, LedgerInv, TypeOK
  <2>3. run[r].plan.cover # {} => RecordsKey(seg[r], r)
    <3>1. run[r].plan.cover # {} => run[r].plan.batched
      BY <1>3 DEF RecordsSpan
    <3> QED
      BY <1>1, <3>1, RunFields DEF SpanIsKept, At
  <2>4. RecordsOwn(r)' /\ SpanIsKept(r)'
    BY <2>1, <2>3, RunFields DEF RecordsOwn, SpanIsKept, At, RecordSpans
  <2> QED
    BY <2>2, <2>4, MovingKeepsInv
<1> HIDE DEF p
<1> QED
  BY <1>2, <1>3 DEF RecordSpans, p, ev, one, Buffered

LEMMA SealReplacementStep ==
  ASSUME LedgerInv, NEW r \in Runs, SealReplacement(r), load' = load
  PROVE  LedgerInv'
<1> DEFINE last == <<ReplacementEvent(run[r].keys)>>
           ev == run[r].buf \o last
           p == Emptied(run[r], "rewriting")
<1>1. last \in Seq(Event) /\ OwnsActive(last, r)
  BY RunFields, ReplacementEvents
<1>2. /\ Become(r, p) /\ Append1(r, ev) /\ run[r].pc = "recorded"
      /\ PutMeta(r, "complete", 0)
  BY DEF SealReplacement, At, Emptied
<1> HIDE DEF last
<1>3. /\ ev \in Seq(Event) /\ OwnsActive(ev, r)
      /\ RecordsKey(run[r].buf, r) => RecordsKey(ev, r)
  BY <1>1, RunFields, ConcatKeeps DEF RecordsOwn
<1> HIDE DEF ev
<1>4. p \in RunType /\ p.pc = "rewriting" /\ p.buf = <<>> /\ p.plan = run[r].plan
  BY RunFields, PcNames, WithoutBuffer
<1> HIDE DEF p
<1>5. run' \in [Runs -> RunType] /\ run'[r] = p /\ \A q \in Runs \ {r} : run'[q] = run[q]
  BY <1>2, <1>4, BecomeEffect DEF LedgerInv
<1>6. /\ seg' \in [Runs -> Seq(Event)] /\ \A q \in Runs \ {r} : seg'[q] = seg[q]
      /\ OwnsActive(seg'[r], r)
      /\ RecordsKey(seg[r], r) \/ RecordsKey(ev, r) => RecordsKey(seg'[r], r)
  BY <1>2, <1>3, AppendEffect
<1>7. meta' \in [Runs -> MetaType] /\ \A q \in Runs \ {r} : meta'[q] = meta[q]
  BY <1>2, PutMetaEffect DEF LedgerInv, TerminalStatus
<1>8. MovesRun(r)
  BY <1>5, <1>6, <1>7 DEF MovesRun, SealReplacement, LedgerInv, TypeOK
<1>9. RecordsOwn(r)'
  BY <1>4, <1>5, <1>6, RunFields DEF RecordsOwn
<1>10. SpanIsKept(r)'
  BY <1>2, <1>3, <1>4, <1>5, <1>6, RunFields DEF SpanIsKept, At
<1> QED
  BY <1>8, <1>9, <1>10, MovingKeepsInv

LEMMA SealSpansStep ==
  ASSUME LedgerInv, NEW r \in Runs, SealSpans(r), load' = load
  PROVE  LedgerInv'
<1> DEFINE p == [run[r] EXCEPT !.pc = "rewriting", !.buf = <<>>, !.at = Clock]
<1>1. /\ Become(r, p) /\ Append1(r, run[r].buf) /\ run[r].pc = "recorded"
      /\ PutMeta(r, "complete", 0) /\ now' = Clock
  BY DEF SealSpans, At, Tick
<1>2. p \in RunType /\ p.pc = "rewriting" /\ p.buf = <<>> /\ p.plan = run[r].plan
  <2>1. ASSUME NEW q \in RunType, NEW t \in Nat
        PROVE  LET o == [q EXCEPT !.pc = "rewriting", !.buf = <<>>, !.at = t]
               IN o \in RunType /\ o.pc = "rewriting" /\ o.buf = <<>> /\ o.plan = q.plan
    BY RunFields DEF RunType, Pcs
  <2> QED
    BY <2>1, RunFields
<1> HIDE DEF p
<1>3. run' \in [Runs -> RunType] /\ run'[r] = p /\ \A q \in Runs \ {r} : run'[q] = run[q]
  BY <1>1, <1>2, BecomeEffect DEF LedgerInv
<1>4. /\ seg' \in [Runs -> Seq(Event)] /\ \A q \in Runs \ {r} : seg'[q] = seg[q]
      /\ OwnsActive(seg'[r], r)
      /\ RecordsKey(seg[r], r) \/ RecordsKey(run[r].buf, r) => RecordsKey(seg'[r], r)
  BY <1>1, RunFields, AppendEffect DEF RecordsOwn
<1>5. meta' \in [Runs -> MetaType] /\ \A q \in Runs \ {r} : meta'[q] = meta[q]
  BY <1>1, PutMetaEffect DEF LedgerInv, TerminalStatus
<1>6. MovesRun(r)
  BY <1>1, <1>3, <1>4, <1>5, RunFields DEF MovesRun, SealSpans, LedgerInv, TypeOK
<1>7. RecordsOwn(r)'
  BY <1>2, <1>3, <1>4, RunFields DEF RecordsOwn
<1>8. SpanIsKept(r)'
  BY <1>1, <1>2, <1>3, <1>4, RunFields DEF SpanIsKept, At
<1> QED
  BY <1>6, <1>7, <1>8, MovingKeepsInv

LEMMA RewriteMetaStep ==
  ASSUME LedgerInv, NEW r \in Runs, RewriteMeta(r), load' = load
  PROVE  LedgerInv'
<1>1. /\ run[r].pc = "rewriting" /\ Goto(r, "ended") /\ now' \in Nat
      /\ \E t \in Nat : PutMeta(r, "complete", t)
  BY RunFields DEF RewriteMeta, At, Tick
<1>2. /\ run' \in [Runs -> RunType] /\ \A q \in Runs \ {r} : run'[q] = run[q]
      /\ run'[r].pc = "ended" /\ run'[r].plan = run[r].plan /\ run'[r].buf = run[r].buf
  BY <1>1, GotoEffect DEF Pcs
<1>3. meta' \in [Runs -> MetaType] /\ \A q \in Runs \ {r} : meta'[q] = meta[q]
  BY <1>1, PutMetaEffect DEF LedgerInv, TerminalStatus
<1>4. MovesRun(r)
  BY <1>1, <1>2, <1>3 DEF MovesRun, RewriteMeta, LedgerInv, TypeOK
<1>5. RecordsOwn(r)' /\ SpanIsKept(r)'
  BY <1>1, <1>2, RunFields DEF RecordsOwn, SpanIsKept, At, RewriteMeta
<1> QED
  BY <1>4, <1>5, MovingKeepsInv

\* Failures: the run stops where nothing is due, its buffer is lost or sealed
\* under a status that is not complete.
LEMMA RaisesStep ==
  ASSUME LedgerInv, NEW r \in Runs, Raises(r), load' = load
  PROVE  LedgerInv'
<1>1. Goto(r, "raised")
  BY DEF Raises
<1>2. /\ run' \in [Runs -> RunType] /\ \A q \in Runs \ {r} : run'[q] = run[q]
      /\ run'[r].pc = "raised" /\ run'[r].plan = run[r].plan /\ run'[r].buf = run[r].buf
  BY <1>1, GotoEffect DEF Pcs
<1>3. MovesRun(r)
  BY <1>2 DEF MovesRun, Raises, LedgerInv, TypeOK
<1>4. RecordsOwn(r)' /\ SpanIsKept(r)'
  BY <1>2, RunFields DEF RecordsOwn, SpanIsKept, At, Raises
<1> QED
  BY <1>3, <1>4, MovingKeepsInv

LEMMA RecordFailureStep ==
  ASSUME LedgerInv, NEW r \in Runs, RecordFailure(r), load' = load
  PROVE  LedgerInv'
<1> DEFINE last == <<TerminalEvent("failed")>>
           ev == run[r].buf \o last
           p == Emptied(run[r], "ended")
<1>1. last \in Seq(Event) /\ OwnsActive(last, r)
  BY TerminalEvents DEF TerminalStatus
<1>2. Become(r, p) /\ Append1(r, ev) /\ PutMeta(r, "failed", now)
  BY DEF RecordFailure, Emptied
<1> HIDE DEF last
<1>3. ev \in Seq(Event) /\ OwnsActive(ev, r)
  BY <1>1, RunFields, ConcatKeeps DEF RecordsOwn
<1> HIDE DEF ev
<1>4. p \in RunType /\ p.pc = "ended" /\ p.buf = <<>> /\ p.plan = run[r].plan
  BY RunFields, PcNames, WithoutBuffer
<1> HIDE DEF p
<1>5. run' \in [Runs -> RunType] /\ run'[r] = p /\ \A q \in Runs \ {r} : run'[q] = run[q]
  BY <1>2, <1>4, BecomeEffect DEF LedgerInv
<1>6. /\ seg' \in [Runs -> Seq(Event)] /\ \A q \in Runs \ {r} : seg'[q] = seg[q]
      /\ OwnsActive(seg'[r], r)
  BY <1>2, <1>3, AppendEffect
<1>7. /\ meta' \in [Runs -> MetaType] /\ \A q \in Runs \ {r} : meta'[q] = meta[q]
      /\ meta'[r].status = "failed"
  BY <1>2, RunFields, PutMetaEffect DEF LedgerInv, TerminalStatus
<1>8. MovesRun(r)
  BY <1>5, <1>6, <1>7 DEF MovesRun, RecordFailure, LedgerInv, TypeOK
<1>9. RecordsOwn(r)'
  BY <1>4, <1>5, <1>6, RunFields DEF RecordsOwn
<1>10. SpanIsKept(r)'
  BY <1>4, <1>5, <1>7, RunFields DEF SpanIsKept, At
<1> QED
  BY <1>8, <1>9, <1>10, MovingKeepsInv

LEMMA StopStep ==
  ASSUME LedgerInv, NEW r \in Runs, FailureUnrecorded(r) \/ Crash(r), load' = load
  PROVE  LedgerInv'
<1> DEFINE p == Emptied(run[r], "crashed")
<1>1. Become(r, p) /\ UNCHANGED <<now, seg, meta, latest, cpt>>
  BY DEF FailureUnrecorded, Crash, Emptied
<1>2. p \in RunType /\ p.pc = "crashed" /\ p.buf = <<>> /\ p.plan = run[r].plan
  BY RunFields, PcNames, WithoutBuffer
<1> HIDE DEF p
<1>3. run' \in [Runs -> RunType] /\ run'[r] = p /\ \A q \in Runs \ {r} : run'[q] = run[q]
  BY <1>1, <1>2, BecomeEffect DEF LedgerInv
<1>4. MovesRun(r)
  BY <1>1, <1>3 DEF MovesRun, LedgerInv, TypeOK
<1>5. RecordsOwn(r)' /\ SpanIsKept(r)'
  BY <1>1, <1>2, <1>3, RunFields DEF RecordsOwn, SpanIsKept, At
<1> QED
  BY <1>4, <1>5, MovingKeepsInv

LEMMA AbandonStep ==
  ASSUME LedgerInv, NEW r \in Runs, Abandon(r), load' = load
  PROVE  LedgerInv'
<1> DEFINE ev == <<TerminalEvent("abandoned")>>
<1>1. ev \in Seq(Event) /\ OwnsActive(ev, r)
  BY TerminalEvents DEF TerminalStatus
<1>2. Append1(r, ev) /\ PutMeta(r, "abandoned", now) /\ run[r].pc = "crashed"
  BY DEF Abandon, At
<1> HIDE DEF ev
<1>3. /\ seg' \in [Runs -> Seq(Event)] /\ \A q \in Runs \ {r} : seg'[q] = seg[q]
      /\ OwnsActive(seg'[r], r)
  BY <1>1, <1>2, AppendEffect
<1>4. meta' \in [Runs -> MetaType] /\ \A q \in Runs \ {r} : meta'[q] = meta[q]
  BY <1>2, RunFields, PutMetaEffect DEF LedgerInv, TerminalStatus
<1>5. MovesRun(r)
  BY <1>3, <1>4 DEF MovesRun, Abandon, LedgerInv, TypeOK
<1>6. RecordsOwn(r)' /\ SpanIsKept(r)'
  BY <1>2, <1>3, RunFields DEF RecordsOwn, SpanIsKept, At, Abandon
<1> QED
  BY <1>5, <1>6, MovingKeepsInv

-----------------------------------------------------------------------------
(* The compactor, and all steps.                                           *)

\* A compactor reads entries and publishes records; runs are left alone.
LEMMA CompactKeepsInv ==
  ASSUME LedgerInv, NEW c \in Compactors, CompactStep(c), load' = load
  PROVE  LedgerInv'
<1>1. UNCHANGED <<now, run, seg, meta>>
  BY DEF CompactStep, AssertAllowed, ListEntries, ReadEntry, Project, Publish
<1>2. ASSUME NEW s \in CptType, SetCpt(c, s), latest' \in Pointer \cup {NoPointer}
      PROVE  LedgerInv'
  <2>1. cpt' \in [Compactors -> CptType]
    BY <1>2 DEF SetCpt, LedgerInv, TypeOK
  <2>2. TypeOK'
    BY <1>1, <1>2, <2>1 DEF LedgerInv, TypeOK
  <2> QED
    BY <1>1, <2>2 DEF LedgerInv, RecordsOwn, SpanIsKept, At
<1>3. cpt[c] \in CptType /\ latest \in Pointer \cup {NoPointer}
  BY DEF LedgerInv, TypeOK
<1>4. CASE AssertAllowed(c)
  <2>1. [pc |-> "allowed"] \in CptType
    BY DEF CptType
  <2> QED
    BY <1>2, <1>3, <1>4, <2>1 DEF AssertAllowed
<1>5. CASE ListEntries(c)
  <2> DEFINE s == [pc |-> "reading", entries |-> {}, todo |-> {r \in Runs : meta[r].status # "none"}]
  <2>1. {} \in EntrySets
    BY FS_EmptySet DEF EntrySets
  <2>2. s \in CptType
    BY <2>1 DEF CptType
  <2>3. SetCpt(c, s) /\ latest' = latest
    BY <1>5 DEF ListEntries
  <2> HIDE DEF s
  <2> QED
    BY <1>2, <1>3, <2>2, <2>3
<1>6. ASSUME NEW r \in Runs, ReadEntry(c, r) PROVE LedgerInv'
  <2> DEFINE read == IF meta[r].status = "complete"
                     THEN cpt[c].entries \cup {<<r, meta[r].at>>} ELSE cpt[c].entries
             s == [cpt[c] EXCEPT !.todo = @ \ {r}, !.entries = read]
  <2>1. cpt[c] \in [pc : {"reading"}, entries : EntrySets, todo : SUBSET Runs]
    BY <1>3, <1>6 DEF ReadEntry, CptType
  <2>2. read \in EntrySets
    <3>1. <<r, meta[r].at>> \in Runs \X Nat
      BY RunFields DEF MetaType
    <3>2. cpt[c].entries \in EntrySets
      BY <2>1
    <3> QED
      BY <3>1, <3>2, FS_AddElement DEF EntrySets
  <2>3. SetCpt(c, s) /\ latest' = latest
    BY <1>6 DEF ReadEntry
  <2> HIDE DEF read
  <2>4. s \in CptType
    BY <2>1, <2>2 DEF CptType
  <2> HIDE DEF s
  <2> QED
    BY <1>2, <1>3, <2>3, <2>4
<1>7. CASE Project(c)
  <2> DEFINE entries == cpt[c].entries
             pointer == [cutoff |-> MaxOf({0} \cup {e[2] : e \in entries}),
                         records |-> ProjectEntries(entries),
                         folded |-> {e[1] : e \in entries}]
             s == [pc |-> "projected", pointer |-> pointer]
  <2>1. entries \in EntrySets
    BY <1>3, <1>7 DEF Project, CptType
  <2>2. SetCpt(c, s) /\ latest' = latest
    BY <1>7 DEF Project
  <2>3. {e[1] : e \in entries} \in SUBSET Runs
    BY <2>1 DEF EntrySets
  <2> HIDE DEF entries
  <2>4. pointer \in Pointer
    BY <2>1, <2>3, CutoffIsTime, ProjectionIsView DEF Pointer, LedgerInv
  <2> HIDE DEF pointer
  <2>5. s \in CptType
    BY <2>4 DEF CptType
  <2> HIDE DEF s
  <2> QED
    BY <1>2, <1>3, <2>2, <2>5
<1>8. CASE Publish(c)
  <2>1. cpt[c].pointer \in Pointer
    BY <1>3, <1>8 DEF Publish, CptType
  <2>2. [pc |-> "idle"] \in CptType
    BY DEF CptType
  <2> QED
    BY <1>2, <1>8, <2>1, <2>2 DEF Publish
<1> QED
  BY <1>4, <1>5, <1>6, <1>7, <1>8 DEF CompactStep

LEMMA InitHolds == Init => LedgerInv
<1> SUFFICES ASSUME Init PROVE LedgerInv
  OBVIOUS
<1>1. Idle \in RunType
  BY DEF Idle, NoPlan, Plan, RunType, PlanType, Pcs
<1>2. Meta("none", 0) \in MetaType
  BY DEF Meta, MetaType
<1>3. TypeOK
  <2>1. [pc |-> "idle"] \in CptType
    BY DEF CptType
  <2> QED
    BY <1>1, <1>2, <2>1 DEF Init, TypeOK
<1>4. ASSUME NEW r \in Runs PROVE RecordsOwn(r) /\ SpanIsKept(r)
  BY DEF Init, Idle, NoPlan, Plan, RecordsOwn, OwnsActive, SpanIsKept, At
<1> QED
  BY <1>3, <1>4 DEF LedgerInv

LEMMA NextKeepsInv == LedgerInv /\ [Next]_vars => LedgerInv'
<1> SUFFICES ASSUME LedgerInv, [Next]_vars PROVE LedgerInv'
  OBVIOUS
<1>1. CASE UNCHANGED vars
  BY <1>1 DEF vars, LedgerInv, TypeOK, RecordsOwn, SpanIsKept, At
<1>2. CASE Next
  <2>1. load' = load /\ load.runs \subseteq Runs
    BY <1>2, LedgerAssumption DEF Next, LedgerInv, TypeOK
  <2>2. ASSUME NEW r \in Runs, RunStep(r) PROVE LedgerInv'
    BY <2>1, <2>2, StartIngestStep, RecordBatchStep, StartDeleteStep, SealCompleteStep,
       FinalizeCompleteStep, PlanReplacementStep, RecordSpansStep, SealReplacementStep,
       SealSpansStep, RewriteMetaStep, RaisesStep, RecordFailureStep, StopStep, AbandonStep
       DEF RunStep
  <2>3. ASSUME NEW c \in Compactors, CompactStep(c) PROVE LedgerInv'
    BY <2>1, <2>3, CompactKeepsInv
  <2> QED
    BY <1>2, <2>1, <2>2, <2>3 DEF Next
<1> QED
  BY <1>1, <1>2

LEMMA InvariantHolds == Spec => []LedgerInv
BY InitHolds, NextKeepsInv, PTL DEF Spec

\* Runs, events, run.json, the cache and the compactors keep to their types.
THEOREM TypeCorrect == Spec => []TypeOK
BY InvariantHolds, PTL DEF LedgerInv

\* The replay does not lose the span of a run that ended complete, although it
\* was sealed after the terminal record, and takes no active coverage from a run
\* that ended otherwise (register_run, sorted_complete_runs).
THEOREM EndedAreRecorded == Spec => []EndedRunsAreRecorded
<1>1. LedgerInv => EndedRunsAreRecorded
  <2> SUFFICES ASSUME LedgerInv, NEW r \in Runs, At(r, "ended"), run[r].plan.cover # {}
               PROVE  IF meta[r].status = "complete" THEN Replayed[r] # Nothing
                                                     ELSE ~IsActive(Replayed[r])
    BY DEF EndedRunsAreRecorded
  <2> DEFINE replay == ReplayOver(NoRecords, Entries(Complete))
  <2>1. /\ \A q \in Runs : seg[q] \in Seq(Event)
        /\ Entries(Complete) \in SUBSET (Runs \X Nat) /\ IsFiniteSet(Entries(Complete))
    BY EntriesTyped, CompleteAreRuns DEF LedgerInv, TypeOK
  <2>2. /\ replay \in View
        /\ Replayed = Effective(replay)
    BY <2>1, NoRecordsIsView, ReplayKeepsView DEF Replayed
  <2>3. CASE meta[r].status = "complete"
    <3>1. RecordsKey(seg[r], r)
      BY <2>3, RunFields DEF SpanIsKept
    <3>2. <<r, meta[r].at>> \in Entries(Complete)
      BY <2>3 DEF Entries, Complete
    <3>3. \E e \in Entries(Complete) : RecordsKey(seg[e[1]], r)
      BY <3>1, <3>2
    <3>4. replay[r] # Nothing
      BY <2>1, <3>3, NoRecordsIsView, ReplayKeepsRecord
    <3> HIDE DEF replay
    <3> QED
      BY <2>2, <2>3, <3>4, EffectiveKeeps
  <2>4. CASE meta[r].status # "complete"
    <3>1. ASSUME NEW e \in Entries(Complete) PROVE NoActive(seg[e[1]], r)
      <4>1. e[1] \in Runs /\ e[1] # r
        BY <2>4, <3>1 DEF Entries, Complete
      <4>2. OwnsActive(seg[e[1]], e[1])
        BY <4>1 DEF LedgerInv, RecordsOwn
      <4> QED
        BY <4>1, <4>2 DEF OwnsActive, NoActive
    <3>2. ~IsActive(NoRecords[r])
      BY NoRecordsIsView, RecordsDiffer
    <3>3. ~IsActive(replay[r])
      BY <2>1, <3>1, <3>2, NoRecordsIsView, ReplayStaysInactive
    <3> HIDE DEF replay
    <3> QED
      BY <2>2, <2>4, <3>3, EffectiveKeeps
  <2> QED
    BY <2>3, <2>4
<1> QED
  BY <1>1, InvariantHolds, PTL

-----------------------------------------------------------------------------
(* What a run does to a projection.                                        *)

\* The spans in the segments of a run, and the record of the last.
SpansOf(r) == {n \in DOMAIN seg[r] : seg[r][n].kind = "span"}
Own(r) == seg[r][MaxOf(SpansOf(r))].rec

\* A run recorded a span of its own.
Recorded(r) == run[r].plan.kind # "delete" /\ RecordsKey(seg[r], r)

\* An event says something of the span of k.
Touches(e, k) == \/ e.kind = "span" /\ e.key = k
                 \/ e.kind = "replacement" /\ k \in e.keys

\* Run q replaced or deleted the span of k.
HitBy(q, k) == q # k /\ \E n \in DOMAIN seg[q] : Touches(seg[q][n], k)

\* What a replacement or a deletion leaves of k.
Gone(k, rec) == rec.status = "replaced" /\ rec.over = Own(k).over

\* A deletion copies the record of another run's span, every other run records
\* its own span and replaces those of others.
Shapely(r) ==
    \A n \in DOMAIN seg[r] :
        /\ seg[r][n].kind = "span" =>
             IF run[r].plan.kind = "delete"
             THEN seg[r][n].key # r /\ Gone(seg[r][n].key, seg[r][n].rec)
             ELSE seg[r][n].key = r
        /\ seg[r][n].kind = "replacement" => r \notin seg[r][n].keys

\* What an event leaves alone, and what it does to the rest (apply_events).
LEMMA ApplyTouches ==
  ASSUME NEW v \in View, NEW e \in Event, NEW k \in Runs
  PROVE  /\ ApplyEvent(v, e) \in View
         /\ ~Touches(e, k) => ApplyEvent(v, e)[k] = v[k]
         /\ e.kind = "span" /\ e.key = k => ApplyEvent(v, e)[k] = e.rec
         /\ e.kind = "replacement" /\ k \in e.keys /\ v[k] # Nothing =>
              ApplyEvent(v, e)[k] = AsReplaced(v[k])
<1>0. ApplyEvent(v, e) \in View
  BY ApplyKeepsView
<1>1. CASE e \in [kind : {"span"}, key : Runs, rec : SpanRecord]
  <2>1. ApplyEvent(v, e) = [v EXCEPT ![e.key] = e.rec] /\ e.kind = "span"
    BY <1>1 DEF ApplyEvent
  <2> QED
    BY <1>0, <2>1 DEF View, Touches
<1>2. CASE e \in [kind : {"replacement"}, keys : SUBSET Runs]
  <2>1. /\ ApplyEvent(v, e) =
             [j \in Runs |-> IF j \in e.keys /\ v[j] # Nothing
                             THEN [v[j] EXCEPT !.status = "replaced"] ELSE v[j]]
        /\ e.kind = "replacement"
    BY <1>2 DEF ApplyEvent
  <2> QED
    BY <1>0, <2>1 DEF View, Touches, AsReplaced
<1>3. CASE e \in [kind : {"terminal"}, status : TerminalStatus]
  <2>1. ApplyEvent(v, e) = v /\ e.kind = "terminal"
    BY <1>3 DEF ApplyEvent
  <2> QED
    BY <1>0, <2>1 DEF View
<1> QED
  BY <1>1, <1>2, <1>3 DEF Event

\* A run leaves alone what its events do not touch.
LEMMA RunMisses ==
  ASSUME NEW cur \in View, NEW r, seg[r] \in Seq(Event), NEW k \in Runs,
         \A n \in DOMAIN seg[r] : ~Touches(seg[r][n], k)
  PROVE  ApplyRun(cur, r)[k] = cur[k]
<1> DEFINE T == {p \in (SUBSET DOMAIN seg[r]) \X View : p[2][k] = cur[k]}
<1>1. \A s \in SUBSET DOMAIN seg[r] : \A n \in s : \A v \in View :
            <<s \ {n}, v>> \in T => <<s, ApplyEvent(v, seg[r][n])>> \in T
  <2> SUFFICES ASSUME NEW s \in SUBSET DOMAIN seg[r], NEW n \in s, NEW v \in View, v[k] = cur[k]
               PROVE  ApplyEvent(v, seg[r][n]) \in View /\ ApplyEvent(v, seg[r][n])[k] = cur[k]
    OBVIOUS
  <2> DEFINE e == seg[r][n]
  <2>1. e \in Event /\ ~Touches(e, k)
    OBVIOUS
  <2> HIDE DEF e
  <2>2. ApplyEvent(v, e) \in View /\ ApplyEvent(v, e)[k] = v[k]
    BY <2>1, ApplyTouches
  <2> QED
    BY <2>2 DEF e
<1>2. <<{}, cur>> \in T
  OBVIOUS
<1>3. <<DOMAIN seg[r], ApplyRun(cur, r)>> \in T
  <2> HIDE DEF T
  <2> QED
    BY <1>1, <1>2, EventsInduction DEF ApplyRun
<1> QED
  BY <1>3

\* Of the spans a run recorded for itself the last one counts.
LEMMA RunRecordsOwn ==
  ASSUME NEW cur \in View, NEW r \in Runs, seg[r] \in Seq(Event), Shapely(r), Recorded(r)
  PROVE  ApplyRun(cur, r)[r] = Own(r)
<1> DEFINE D == DOMAIN seg[r]
           IsLast(n, s) == /\ n \in s /\ seg[r][n].kind = "span"
                           /\ \A m \in s : seg[r][m].kind = "span" => n >= m
           T == {p \in (SUBSET D) \X View : \A n \in D : IsLast(n, p[1]) => p[2][r] = seg[r][n].rec}
<1>1. \A s \in SUBSET D : \A n \in s : \A v \in View :
            <<s \ {n}, v>> \in T /\ (\A m \in s : n >= m) => <<s, ApplyEvent(v, seg[r][n])>> \in T
  <2> SUFFICES ASSUME NEW s \in SUBSET D, NEW n \in s, NEW v \in View,
                      <<s \ {n}, v>> \in T, \A m \in s : n >= m
               PROVE  <<s, ApplyEvent(v, seg[r][n])>> \in T
    OBVIOUS
  <2> DEFINE e == seg[r][n]
  <2>1. e \in Event
    OBVIOUS
  <2>2. ApplyEvent(v, e) \in View
    BY <2>1, ApplyTouches
  <2>3. ASSUME NEW l \in D, IsLast(l, s) PROVE ApplyEvent(v, e)[r] = seg[r][l].rec
    <3>1. CASE e.kind = "span"
      <4>1. l = n
        BY <2>3, <3>1
      <4>2. e.key = r
        BY <3>1 DEF Shapely, Recorded
      <4> HIDE DEF e
      <4>3. ApplyEvent(v, e)[r] = e.rec
        BY <2>1, <3>1, <4>2, ApplyTouches
      <4> QED
        BY <4>1, <4>3 DEF e
    <3>2. CASE e.kind # "span"
      <4>1. IsLast(l, s \ {n})
        BY <2>3, <3>2
      <4>2. v[r] = seg[r][l].rec
        BY <4>1
      <4>3. ~Touches(e, r)
        BY <3>2 DEF Shapely, Touches
      <4> HIDE DEF e
      <4>4. ApplyEvent(v, e)[r] = v[r]
        BY <2>1, <4>3, ApplyTouches
      <4> QED
        BY <4>2, <4>4
    <3> QED
      BY <3>1, <3>2
  <2> HIDE DEF IsLast
  <2> QED
    BY <2>2, <2>3
<1>2. <<{}, cur>> \in T
  OBVIOUS
<1>3. <<D, ApplyRun(cur, r)>> \in T
  <2> HIDE DEF T
  <2> QED
    BY <1>1, <1>2, EventsInOrder DEF ApplyRun
<1>4. IsLast(MaxOf(SpansOf(r)), D)
  <2>1. SpansOf(r) # {} /\ SpansOf(r) \in SUBSET Int /\ SpansOf(r) \subseteq D
    BY DEF Recorded, RecordsKey, SpansOf
  <2>2. IsFiniteSet(SpansOf(r))
    BY <2>1, FS_Interval, FS_Subset
  <2>3. PICK x \in SpansOf(r) : \A y \in SpansOf(r) : x >= y
    BY <2>1, <2>2, MaxIsIn
  <2>4. \A y \in SpansOf(r) : y <= x
    BY <2>1, <2>3
  <2>5. MaxOf(SpansOf(r)) \in SpansOf(r) /\ \A y \in SpansOf(r) : y <= MaxOf(SpansOf(r))
    BY <2>4 DEF MaxOf
  <2> QED
    BY <2>1, <2>5 DEF SpansOf
<1> QED
  BY <1>3, <1>4 DEF Own

\* A run takes the spans it hits.
LEMMA RunHits ==
  ASSUME NEW cur \in View, NEW r, seg[r] \in Seq(Event), NEW k \in Runs, Shapely(r), HitBy(r, k),
         cur[k] # Nothing, cur[k].over = Own(k).over
  PROVE  ApplyRun(cur, r)[k] # Nothing /\ Gone(k, ApplyRun(cur, r)[k])
<1> DEFINE Touched(s) == \E n \in s : Touches(seg[r][n], k)
           Kept(v) == v[k] # Nothing /\ v[k].over = Own(k).over
           T == {p \in (SUBSET DOMAIN seg[r]) \X View :
                   Kept(p[2]) /\ (Touched(p[1]) => p[2][k].status = "replaced")}
<1>1. \A s \in SUBSET DOMAIN seg[r] : \A n \in s : \A v \in View :
            <<s \ {n}, v>> \in T => <<s, ApplyEvent(v, seg[r][n])>> \in T
  <2> SUFFICES ASSUME NEW s \in SUBSET DOMAIN seg[r], NEW n \in s, NEW v \in View,
                      <<s \ {n}, v>> \in T
               PROVE  <<s, ApplyEvent(v, seg[r][n])>> \in T
    OBVIOUS
  <2> DEFINE e == seg[r][n]
             w == ApplyEvent(v, e)
  <2>1. e \in Event
    OBVIOUS
  <2>2. Kept(v) /\ (Touched(s \ {n}) => v[k].status = "replaced")
    OBVIOUS
  <2>3. v[k] \in SpanRecord
    BY <2>2 DEF View
  <2>4. w \in View
    BY <2>1, ApplyTouches
  <2>5. CASE ~Touches(e, k)
    <3>1. w[k] = v[k]
      <4> HIDE DEF e
      <4> QED
        BY <2>1, <2>5, ApplyTouches
    <3>2. Touched(s) => Touched(s \ {n})
      BY <2>5
    <3> HIDE DEF w, e, Touched
    <3>3. Kept(w) /\ (Touched(s) => w[k].status = "replaced")
      BY <2>2, <3>1, <3>2
    <3> QED
      BY <2>4, <3>3 DEF w, e
  <2>6. CASE e.kind = "span" /\ e.key = k
    <3>1. Gone(k, e.rec) /\ e.rec \in SpanRecord
      BY <2>1, <2>6 DEF Shapely, HitBy, Event
    <3> HIDE DEF e
    <3>2. w[k] = e.rec
      BY <2>1, <2>6, ApplyTouches
    <3> HIDE DEF w, Touched
    <3>3. Kept(w) /\ w[k].status = "replaced"
      BY <3>1, <3>2, RecordsDiffer DEF Gone
    <3> QED
      BY <2>4, <3>3 DEF w, e
  <2>7. CASE e.kind = "replacement" /\ k \in e.keys
    <3> HIDE DEF e
    <3>1. w[k] = AsReplaced(v[k])
      BY <2>1, <2>2, <2>7, ApplyTouches
    <3> HIDE DEF w, Touched
    <3>2. Kept(w) /\ w[k].status = "replaced"
      BY <2>2, <2>3, <3>1, RecordsDiffer DEF AsReplaced, SpanRecord
    <3> QED
      BY <2>4, <3>2 DEF w, e
  <2> QED
    BY <2>5, <2>6, <2>7 DEF Touches
<1>2. <<{}, cur>> \in T
  OBVIOUS
<1>3. <<DOMAIN seg[r], ApplyRun(cur, r)>> \in T
  <2> HIDE DEF T
  <2> QED
    BY <1>1, <1>2, EventsInduction DEF ApplyRun
<1>4. Touched(DOMAIN seg[r])
  BY DEF HitBy
<1> HIDE DEF Touched
<1> QED
  BY <1>3, <1>4 DEF Gone

\* Of two spans the later one, as readers order them.
LaterSpan(j, k) == Own(k).time < Own(j).time \/ (Own(k).time = Own(j).time /\ k < j)

\* What later spans of X overwrote of span k.
Cuts(X, k) == UNION {Own(j).over : j \in {i \in X : Recorded(i) /\ i # k /\ LaterSpan(i, k)}}

Hit(X, k) == \E q \in X : HitBy(q, k)

\* An active record of k: its own, up to ranges that were overwritten.
Standing(rec, X, k) ==
    /\ IsActive(rec) /\ rec.run = k /\ rec.over = Own(k).over /\ rec.time = Own(k).time
    /\ rec.ranges \subseteq Own(k).ranges /\ Own(k).ranges \ Cuts(X, k) \subseteq rec.ranges

\* View v tells of the runs X: spans nobody hit stand, the others are gone.
Reading(v, X) ==
    \A k \in Runs :
      /\ k \in X /\ Recorded(k) /\ ~Hit(X, k) => Standing(v[k], X, k)
      /\ k \in X /\ Recorded(k) /\ Hit(X, k) => v[k] # Nothing /\ Gone(k, v[k])
      /\ ~(k \in X /\ Recorded(k)) /\ ~Hit(X, k) => v[k] = Nothing

\* The span a complete run recorded stands when it is recorded.
OwnStands(r) == Recorded(r) => IsActive(Own(r)) /\ Own(r).run = r /\ Own(r) # Nothing

\* One more run, that nothing before it hit, is told of with those before it.
LEMMA RunIsTold ==
  ASSUME NEW v \in View, NEW Y \in SUBSET Runs, NEW q \in Runs, seg[q] \in Seq(Event),
         Shapely(q), OwnStands(q), Reading(v, Y), \A p \in Y : ~HitBy(p, q)
  PROVE  Reading(ApplyRun(v, q), Y \cup {q})
<1> DEFINE w == ApplyRun(v, q)
           X == Y \cup {q}
<1>1. ASSUME NEW k \in Runs
      PROVE  /\ k \in X /\ Recorded(k) /\ ~Hit(X, k) => Standing(w[k], X, k)
             /\ k \in X /\ Recorded(k) /\ Hit(X, k) => w[k] # Nothing /\ Gone(k, w[k])
             /\ ~(k \in X /\ Recorded(k)) /\ ~Hit(X, k) => w[k] = Nothing
  <2>1. CASE k = q
    <3>1. ~Hit(X, k) /\ ~Hit(Y, k)
      BY <2>1 DEF Hit, HitBy
    <3>2. CASE Recorded(k)
      <4>1. w[k] = Own(k)
        BY <2>1, <3>2, RunRecordsOwn
      <4>2. Standing(Own(k), X, k) /\ k \in X
        BY <2>1, <3>2 DEF Standing, OwnStands
      <4> HIDE DEF w, X
      <4> QED
        BY <3>1, <3>2, <4>1, <4>2
    <3>3. CASE ~Recorded(k)
      <4>1. v[k] = Nothing
        BY <3>1, <3>3 DEF Reading
      <4>2. \A n \in DOMAIN seg[q] : ~Touches(seg[q][n], k)
        BY <2>1, <3>3 DEF Shapely, Touches, Recorded, RecordsKey
      <4>3. w[k] = v[k]
        BY <4>2, RunMisses
      <4> HIDE DEF w, X
      <4> QED
        BY <3>1, <3>3, <4>1, <4>3
    <3> QED
      BY <3>2, <3>3
  <2>2. CASE k # q /\ HitBy(q, k)
    <3>1. Hit(X, k)
      BY <2>2 DEF Hit
    <3>2. ASSUME k \in X, Recorded(k) PROVE w[k] # Nothing /\ Gone(k, w[k])
      <4>1. k \in Y
        BY <2>2, <3>2
      <4>2. v[k] # Nothing /\ v[k].over = Own(k).over
        BY <3>2, <4>1, RecordsDiffer DEF Reading, Standing, Gone
      <4> QED
        BY <2>2, <4>2, RunHits
    <3> HIDE DEF w, X
    <3> QED
      BY <3>1, <3>2
  <2>3. CASE k # q /\ ~HitBy(q, k)
    <3>1. w[k] = v[k]
      BY <2>3, RunMisses DEF HitBy
    <3>2. Hit(X, k) <=> Hit(Y, k)
      BY <2>3 DEF Hit
    <3>3. Cuts(Y, k) \subseteq Cuts(X, k)
      BY DEF Cuts
    <3>4. Standing(v[k], Y, k) => Standing(v[k], X, k)
      BY <3>3 DEF Standing
    <3>5. k \in X <=> k \in Y
      BY <2>3
    <3> HIDE DEF w, X
    <3> QED
      BY <3>1, <3>2, <3>4, <3>5 DEF Reading
  <2> QED
    BY <2>1, <2>2, <2>3
<1> HIDE DEF w, X
<1>2. Reading(w, X)
  BY <1>1 DEF Reading
<1> QED
  BY <1>2 DEF w, X

\* The runs of entries.
RunsOf(entries) == {e[1] : e \in entries}

\* A replay in order tells of all its runs, besides those of the records it starts
\* from (apply_events over sorted_complete_runs).
LEMMA ReplayTells ==
  ASSUME NEW cur \in View, NEW F \in SUBSET Runs, Reading(cur, F),
         NEW entries \in SUBSET (Runs \X Nat), IsFiniteSet(entries),
         \A r \in Runs : seg[r] \in Seq(Event),
         \A e \in entries : Shapely(e[1]) /\ OwnStands(e[1]),
         \A e \in entries : \A f \in F : ~HitBy(f, e[1]),
         \A d, e \in entries : HitBy(d[1], e[1]) => ~Before(d, e)
  PROVE  Reading(ReplayOver(cur, entries), F \cup RunsOf(entries))
<1> DEFINE T == {p \in (SUBSET entries) \X View : Reading(p[2], F \cup RunsOf(p[1]))}
<1>1. ASSUME NEW s \in SUBSET entries, NEW e \in s, NEW v \in View,
             <<s \ {e}, v>> \in T, \A d \in s \ {e} : Before(d, e)
      PROVE  <<s, ApplyRun(v, e[1])>> \in T
  <2> DEFINE Y == F \cup RunsOf(s \ {e})
             q == e[1]
  <2>1. q \in Runs /\ Y \in SUBSET Runs
    BY DEF RunsOf
  <2>2. Reading(v, Y)
    BY <1>1
  <2>3. \A p \in Y : ~HitBy(p, q)
    BY <1>1 DEF RunsOf
  <2>4. F \cup RunsOf(s) = Y \cup {q}
    BY DEF RunsOf
  <2>5. Shapely(q) /\ OwnStands(q) /\ seg[q] \in Seq(Event)
    BY <2>1
  <2>6. ApplyRun(v, q) \in View
    BY <2>5, RunKeepsView
  <2> HIDE DEF Y, q
  <2>7. Reading(ApplyRun(v, q), Y \cup {q})
    BY <2>1, <2>2, <2>3, <2>5, RunIsTold
  <2>8. Reading(ApplyRun(v, q), F \cup RunsOf(s))
    BY <2>4, <2>7
  <2> QED
    BY <2>6, <2>8 DEF q
<1>2. <<{}, cur>> \in T
  <2>1. F \cup RunsOf({}) = F
    BY DEF RunsOf
  <2> QED
    BY <2>1
<1>3. <<entries, ReplayOver(cur, entries)>> \in T
  <2> HIDE DEF T
  <2> QED
    BY <1>1, <1>2, RunsInOrder
<1> QED
  BY <1>3

\* Without records a view tells of no run.
LEMMA NothingTold == Reading(NoRecords, {})
BY NoRecordsIsView DEF Reading, Hit

-----------------------------------------------------------------------------
(* What readers make of a view.                                            *)

\* No active span keeps what a later active span overwrote.
Trimmed(v, X) ==
    \A k, j \in X : Recorded(k) /\ ~Hit(X, k) /\ Recorded(j) /\ ~Hit(X, j) /\ j # k /\ LaterSpan(j, k) =>
        v[k].ranges \cap Own(j).over = {}

\* The subtraction leaves the telling as it is, and takes what later spans overwrote
\* (_apply_overwrite_ranges_to_active_coverage).
LEMMA EffectiveTells ==
  ASSUME NEW v \in View, NEW X \in SUBSET Runs, Reading(v, X),
         \A p \in X : \A k \in Runs : HitBy(p, k) => k \in X /\ Recorded(k)
  PROVE  Reading(Effective(v), X) /\ Trimmed(Effective(v), X)
<1> DEFINE Later(k) == {j \in Runs : IsActive(v[j]) /\ v[j].run # v[k].run
                        /\ (\/ v[k].time < v[j].time
                            \/ v[k].time = v[j].time /\ k < j)}
           Cut(k) == UNION {v[j].over : j \in Later(k)}
           w == Effective(v)
<1>1. w = [k \in Runs |-> IF IsActive(v[k]) THEN [v[k] EXCEPT !.ranges = @ \ Cut(k)] ELSE v[k]]
  BY DEF Effective
<1>2. ASSUME NEW j \in Runs, IsActive(v[j])
      PROVE  j \in X /\ Recorded(j) /\ ~Hit(X, j) /\ Standing(v[j], X, j)
  <2>1. v[j] # Nothing
    BY <1>2, RecordsDiffer
  <2>2. j \in X /\ Recorded(j)
    <3>1. Hit(X, j) => j \in X /\ Recorded(j)
      BY DEF Hit
    <3> QED
      BY <2>1, <3>1 DEF Reading
  <2>3. ~Hit(X, j)
    BY <1>2, <2>2 DEF Reading, Gone, IsActive
  <2> QED
    BY <2>2, <2>3 DEF Reading
<1>3. ASSUME NEW k \in Runs, IsActive(v[k])
      PROVE  /\ Later(k) = {j \in X : Recorded(j) /\ ~Hit(X, j) /\ j # k /\ LaterSpan(j, k)}
             /\ Cut(k) = UNION {Own(j).over : j \in Later(k)}
             /\ Cut(k) \subseteq Cuts(X, k)
  <2>1. v[k].run = k /\ v[k].time = Own(k).time
    BY <1>2, <1>3 DEF Standing
  <2>2. ASSUME NEW j \in Later(k)
        PROVE  /\ j \in X /\ Recorded(j) /\ ~Hit(X, j) /\ j # k /\ LaterSpan(j, k)
               /\ v[j].over = Own(j).over
    <3>1. j \in Runs /\ IsActive(v[j])
      OBVIOUS
    <3>2. j \in X /\ Recorded(j) /\ ~Hit(X, j) /\ Standing(v[j], X, j)
      BY <1>2, <3>1
    <3>3. v[j].run = j /\ v[j].time = Own(j).time /\ v[j].over = Own(j).over
      BY <3>2 DEF Standing
    <3> QED
      BY <2>1, <3>2, <3>3 DEF LaterSpan
  <2>3. ASSUME NEW j \in X, Recorded(j), ~Hit(X, j), j # k, LaterSpan(j, k)
        PROVE  j \in Later(k)
    <3>1. Standing(v[j], X, j)
      BY <2>3 DEF Reading
    <3>2. IsActive(v[j]) /\ v[j].run = j /\ v[j].time = Own(j).time
      BY <3>1 DEF Standing
    <3> QED
      BY <2>1, <2>3, <3>2 DEF LaterSpan
  <2>4. Later(k) = {j \in X : Recorded(j) /\ ~Hit(X, j) /\ j # k /\ LaterSpan(j, k)}
    <3> HIDE DEF Later
    <3> QED
      BY <2>2, <2>3
  <2>5. Cut(k) = UNION {Own(j).over : j \in Later(k)}
    <3> HIDE DEF Later
    <3>1. \A j \in Later(k) : v[j].over = Own(j).over
      BY <2>2
    <3> QED
      BY <3>1
  <2>6. Cut(k) \subseteq Cuts(X, k)
    <3> HIDE DEF Cut, Later
    <3> QED
      BY <2>4, <2>5 DEF Cuts
  <2> QED
    BY <2>4, <2>5, <2>6
<1>4. ASSUME NEW k \in Runs, ~IsActive(v[k]) PROVE w[k] = v[k]
  BY <1>1, <1>4
<1>5. ASSUME NEW k \in Runs, IsActive(v[k])
      PROVE  /\ Standing(w[k], X, k)
             /\ w[k].ranges = v[k].ranges \ Cut(k)
  <2>1. v[k] \in SpanRecord
    BY <1>5, RecordsDiffer DEF View
  <2>2. ASSUME NEW c
        PROVE  LET rec == [v[k] EXCEPT !.ranges = @ \ c]
               IN /\ rec.status = v[k].status /\ rec.run = v[k].run /\ rec.over = v[k].over
                  /\ rec.time = v[k].time /\ rec.ranges = v[k].ranges \ c
    BY <2>1 DEF SpanRecord
  <2>3. w[k] = [v[k] EXCEPT !.ranges = @ \ Cut(k)]
    BY <1>1, <1>5
  <2>4. Standing(v[k], X, k) /\ Cut(k) \subseteq Cuts(X, k)
    BY <1>2, <1>3, <1>5
  <2> HIDE DEF Cut, w
  <2>5. /\ w[k].status = v[k].status /\ w[k].run = v[k].run /\ w[k].over = v[k].over
        /\ w[k].time = v[k].time /\ w[k].ranges = v[k].ranges \ Cut(k)
    BY <2>2, <2>3
  <2> QED
    BY <2>4, <2>5 DEF Standing, IsActive
<1> HIDE DEF w, Cut, Later
<1>6. Reading(w, X)
  <2>1. ASSUME NEW k \in Runs, k \in X, Recorded(k), ~Hit(X, k) PROVE Standing(w[k], X, k)
    <3>1. IsActive(v[k])
      BY <2>1 DEF Reading, Standing
    <3> QED
      BY <1>5, <3>1
  <2>2. ASSUME NEW k \in Runs, k \in X, Recorded(k), Hit(X, k)
        PROVE  w[k] # Nothing /\ Gone(k, w[k])
    <3>1. v[k] # Nothing /\ Gone(k, v[k]) /\ ~IsActive(v[k])
      BY <2>2 DEF Reading, Gone, IsActive
    <3> QED
      BY <1>4, <3>1
  <2>3. ASSUME NEW k \in Runs, ~(k \in X /\ Recorded(k)), ~Hit(X, k) PROVE w[k] = Nothing
    <3>1. v[k] = Nothing
      BY <2>3 DEF Reading
    <3> QED
      BY <1>4, <3>1, RecordsDiffer
  <2> QED
    BY <2>1, <2>2, <2>3 DEF Reading
<1>7. Trimmed(w, X)
  <2> SUFFICES ASSUME NEW k \in X, NEW j \in X, Recorded(k), ~Hit(X, k), Recorded(j), ~Hit(X, j),
                      j # k, LaterSpan(j, k)
               PROVE  w[k].ranges \cap Own(j).over = {}
    BY DEF Trimmed
  <2>1. IsActive(v[k])
    BY DEF Reading, Standing
  <2>2. j \in Later(k)
    BY <1>3, <2>1
  <2>3. Own(j).over \subseteq Cut(k)
    BY <1>3, <2>1, <2>2
  <2> QED
    BY <1>5, <2>1, <2>3
<1> QED
  BY <1>6, <1>7 DEF w

-----------------------------------------------------------------------------
(* The invariant of a load in turn.                                        *)

\* The runs that are over and complete: nothing of them changes any more.
Settled == {r \in Runs : At(r, "ended") /\ meta[r].status = "complete"}

\* A run that raised, whether its failure is recorded yet or not.
Failed(r) == At(r, "raised") \/ (At(r, "ended") /\ meta[r].status # "complete")

\* The settled runs that a run comes after.
Earlier(r) == {q \in Settled \ {r} : r \in Settled => meta[q].at < meta[r].at}

\* No span of a run is later than this.
Limit(r) ==
    IF run[r].pc \in {"terminal", "planned", "ended"} THEN meta[r].at
    ELSE IF run[r].pc = "rewriting" /\ run[r].at # 0 THEN run[r].at ELSE now

\* A run's span, recorded after everything earlier was complete.
FitsSpan(r, e) ==
    /\ run[r].plan.kind # "delete"
    /\ e.key = r /\ e.rec.status = "active" /\ e.rec.run = r
    /\ e.rec.ranges = run[r].plan.cover /\ e.rec.over \subseteq run[r].plan.cover
    /\ e.rec.time <= Limit(r) /\ \A q \in Earlier(r) : meta[q].at < e.rec.time

\* The copy a deletion records of an earlier span.
FitsDeletion(r, e) ==
    /\ run[r].plan.kind = "delete" /\ e.key \in Earlier(r) /\ Recorded(e.key)
    /\ Gone(e.key, e.rec)

\* What run k covered was written again, by run r or between them.
Covered(r, k) ==
    \A s \in run[k].plan.cover :
      \/ s \in run[r].plan.cover
      \/ \E p \in Earlier(r) : meta[k].at < meta[p].at /\ s \in run[p].plan.cover

\* An earlier span that a run may replace.
FitsKey(r, k) ==
    run[r].plan.kind # "delete" /\ k \in Earlier(r) /\ Recorded(k) /\ Covered(r, k)

EventFits(r, e) ==
    /\ e.kind = "span" => FitsSpan(r, e) \/ FitsDeletion(r, e)
    /\ e.kind = "replacement" => \A k \in e.keys : FitsKey(r, k)

\* The events of a run, sealed and buffered.
EventsOf(r) == Range(seg[r]) \cup Range(run[r].buf)

Fits(r) == \A e \in EventsOf(r) : EventFits(r, e)

\* Later than everything settled.
IsLatest(t) == t <= now /\ \A q \in Settled : meta[q].at < t

\* What is known of a run at each of its steps.
Course(r) ==
    /\ At(r, "new") => seg[r] = <<>> /\ meta[r].status = "none"
    /\ run[r].pc \in {"new", "sealed", "terminal", "planned", "rewriting", "ended"} => run[r].buf = <<>>
    /\ run[r].pc \in {"terminal", "planned"} => meta[r].status = "complete" /\ IsLatest(meta[r].at)
    /\ ~Resting(r) => run[r].over \subseteq run[r].plan.cover /\ \A k \in run[r].keys : FitsKey(r, k)
    /\ At(r, "rewriting") /\ run[r].at # 0 => IsLatest(run[r].at)
    /\ run[r].at # 0 => run[r].pc \in {"rewriting", "raised", "ended"}

\* Settled runs are ordered by the times they completed at.
InOrder ==
    \A q \in Settled : /\ meta[q].at <= now
                       /\ \A p \in Settled : p # q => meta[p].at # meta[q].at

\* One process at a time.
TurnsKept ==
    /\ \A r, q \in Runs : ~Resting(r) /\ ~Resting(q) => r = q
    /\ \A r \in Runs, c \in Compactors : ~Resting(r) => cpt[c].pc = "idle"
    /\ \A c, d \in Compactors : cpt[c].pc # "idle" /\ cpt[d].pc # "idle" => c = d

\* The caches there are: the published one, and what a compactor is to publish.
Caches ==
    ({latest} \cup {cpt[c].pointer : c \in {d \in Compactors : cpt[d].pc = "projected"}}) \ {NoPointer}

CacheFits(p) ==
    /\ p.folded \subseteq Settled
    /\ \A q \in p.folded : meta[q].at <= p.cutoff
    /\ p.cutoff = 0 \/ \E q \in p.folded : meta[q].at = p.cutoff
    /\ \A q \in Settled \ p.folded : p.cutoff <= meta[q].at
    /\ Reading(p.records, p.folded)

\* What a compactor has read, and has left to read, is what is settled.
ListingFits(c) ==
    cpt[c].pc = "reading" =>
        /\ cpt[c].entries \subseteq Entries(Settled)
        /\ \A q \in Settled : q \in cpt[c].todo \/ <<q, meta[q].at>> \in cpt[c].entries

RunsFit == InOrder /\ \A r \in Runs : (Failed(r) \/ Fits(r)) /\ Course(r)

Fitting ==
    /\ TurnsKept /\ RunsFit
    /\ \A p \in Caches : CacheFits(p)
    /\ \A c \in Compactors : ListingFits(c)

TurnInv == InTurn => Fitting

-----------------------------------------------------------------------------
(* What fitting events say of a run.                                       *)

LEMMA SegmentFits ==
  ASSUME LedgerInv, NEW r \in Runs, Fits(r), NEW n \in DOMAIN seg[r]
  PROVE  seg[r][n] \in Event /\ EventFits(r, seg[r][n])
<1>1. seg[r] \in Seq(Event)
  BY DEF LedgerInv, TypeOK
<1> QED
  BY <1>1 DEF Fits, EventsOf, Range

\* The record a run left of its own span.
LEMMA OwnFits ==
  ASSUME LedgerInv, NEW r \in Runs, Fits(r), Recorded(r)
  PROVE  /\ Own(r) \in SpanRecord /\ IsActive(Own(r)) /\ Own(r).run = r
         /\ run[r].plan.kind # "delete"
         /\ Own(r).ranges = run[r].plan.cover /\ Own(r).over \subseteq run[r].plan.cover
         /\ Own(r).time \in Nat /\ Own(r).time <= Limit(r)
         /\ \A q \in Earlier(r) : meta[q].at < Own(r).time
<1>1. PICK n \in DOMAIN seg[r] : seg[r][n].kind = "span" /\ Own(r) = seg[r][n].rec
  <2>0. seg[r] \in Seq(Event)
    BY DEF LedgerInv, TypeOK
  <2>1. SpansOf(r) # {} /\ SpansOf(r) \in SUBSET Int /\ SpansOf(r) \subseteq DOMAIN seg[r]
    BY <2>0 DEF Recorded, RecordsKey, SpansOf
  <2>2. IsFiniteSet(SpansOf(r))
    BY <2>0, <2>1, FS_Interval, FS_Subset
  <2>3. PICK x \in SpansOf(r) : \A y \in SpansOf(r) : x >= y
    BY <2>1, <2>2, MaxIsIn
  <2>4. \A y \in SpansOf(r) : y <= x
    BY <2>1, <2>3
  <2>5. MaxOf(SpansOf(r)) \in SpansOf(r)
    BY <2>4 DEF MaxOf
  <2> QED
    BY <2>5 DEF SpansOf, Own
<1> DEFINE e == seg[r][n]
<1>2. e \in Event /\ EventFits(r, e) /\ e.kind = "span"
  BY <1>1, SegmentFits
<1> HIDE DEF e
<1>3. e.rec \in SpanRecord
  BY <1>2 DEF Event
<1>4. FitsSpan(r, e)
  BY <1>2 DEF EventFits, FitsDeletion, Recorded
<1>5. Own(r) = e.rec
  BY <1>1 DEF e
<1>6. e.rec.time \in Nat
  BY <1>3 DEF SpanRecord
<1> QED
  BY <1>3, <1>4, <1>5, <1>6 DEF FitsSpan, IsActive

\* Events that fit are shaped as a replay expects them.
LEMMA FitsShapely ==
  ASSUME LedgerInv, NEW r \in Runs, Fits(r)
  PROVE  Shapely(r) /\ OwnStands(r)
<1>1. ASSUME NEW n \in DOMAIN seg[r]
      PROVE  /\ seg[r][n].kind = "span" =>
                  IF run[r].plan.kind = "delete"
                  THEN seg[r][n].key # r /\ Gone(seg[r][n].key, seg[r][n].rec)
                  ELSE seg[r][n].key = r
             /\ seg[r][n].kind = "replacement" => r \notin seg[r][n].keys
  <2> DEFINE e == seg[r][n]
  <2>1. EventFits(r, e)
    BY SegmentFits
  <2> HIDE DEF e
  <2>2. /\ e.kind = "span" => IF run[r].plan.kind = "delete" THEN e.key # r /\ Gone(e.key, e.rec)
                                                              ELSE e.key = r
        /\ e.kind = "replacement" => r \notin e.keys
    BY <2>1 DEF EventFits, FitsSpan, FitsDeletion, FitsKey, Earlier
  <2> QED
    BY <2>2 DEF e
<1>2. Shapely(r)
  BY <1>1 DEF Shapely
<1>3. OwnStands(r)
  BY OwnFits, RecordsDiffer DEF OwnStands
<1> QED
  BY <1>2, <1>3

\* A run hits earlier spans only, one it deletes or one whose slots were written again.
LEMMA HitsFit ==
  ASSUME LedgerInv, NEW r \in Runs, Fits(r), NEW k, HitBy(r, k)
  PROVE  /\ k \in Earlier(r) /\ Recorded(k)
         /\ \/ /\ run[r].plan.kind = "delete"
               /\ \E n \in DOMAIN seg[r] : seg[r][n].kind = "span" /\ seg[r][n].key = k
            \/ FitsKey(r, k)
<1>1. PICK n \in DOMAIN seg[r] : Touches(seg[r][n], k)
  BY DEF HitBy
<1> DEFINE e == seg[r][n]
<1>2. EventFits(r, e) /\ Touches(e, k)
  BY <1>1, SegmentFits
<1>3. CASE e.kind = "span" /\ e.key = k
  <2>1. FitsSpan(r, e) \/ FitsDeletion(r, e)
    BY <1>2, <1>3 DEF EventFits
  <2> HIDE DEF e
  <2>2. FitsDeletion(r, e)
    BY <1>3, <2>1 DEF FitsSpan, HitBy
  <2>3. k \in Earlier(r) /\ Recorded(k) /\ run[r].plan.kind = "delete"
    BY <1>3, <2>2 DEF FitsDeletion
  <2> QED
    BY <1>3, <2>3 DEF e
<1>4. CASE e.kind = "replacement" /\ k \in e.keys
  <2> HIDE DEF e
  <2>1. FitsKey(r, k)
    BY <1>2, <1>4 DEF EventFits
  <2> QED
    BY <2>1 DEF FitsKey
<1> HIDE DEF e
<1> QED
  BY <1>2, <1>3, <1>4 DEF Touches

LEMMA SettledFits ==
  ASSUME RunsFit, NEW q \in Settled
  PROVE  q \in Runs /\ Fits(q)
BY DEF RunsFit, Settled, Failed, At

\* Of two recorded spans the one whose run completed earlier is the earlier one.
LEMMA SpansInOrder ==
  ASSUME LedgerInv, RunsFit, NEW j \in Settled, NEW k \in Settled, j # k,
         Recorded(j), Recorded(k), LaterSpan(j, k)
  PROVE  meta[k].at < meta[j].at
<1>1. meta[k].at \in Nat /\ meta[j].at \in Nat /\ j \in Runs /\ k \in Runs
  BY RunFields DEF Settled, MetaType
<1>2. SUFFICES ASSUME meta[j].at < meta[k].at PROVE FALSE
  BY <1>1 DEF RunsFit, InOrder
<1>3. j \in Earlier(k)
  BY <1>2 DEF Earlier
<1>4. meta[j].at < Own(k).time /\ Own(k).time \in Nat
  BY <1>1, <1>3, OwnFits, SettledFits
<1>5. Own(j).time <= Limit(j) /\ Own(j).time \in Nat
  BY <1>1, OwnFits, SettledFits
<1>6. Limit(j) = meta[j].at
  BY DEF Limit, Settled, At
<1> QED
  BY <1>1, <1>4, <1>5, <1>6 DEF LaterSpan

-----------------------------------------------------------------------------
(* What readers are told.                                                  *)

\* Complete runs are settled, up to one that is later than those.
Orderly ==
    /\ Settled \subseteq Complete /\ \A q \in Complete : ~Failed(q)
    /\ \A q \in Complete \ Settled : IsLatest(meta[q].at)

LEMMA CompleteFits ==
  ASSUME RunsFit, Orderly, NEW q \in Complete
  PROVE  q \in Runs /\ Fits(q)
BY DEF RunsFit, Orderly, Complete

\* A run hits spans that completed before it.
LEMMA HitsEarlier ==
  ASSUME LedgerInv, RunsFit, Orderly, NEW p \in Complete, NEW q, HitBy(p, q)
  PROVE  q \in Settled /\ Recorded(q) /\ meta[q].at < meta[p].at
<1>1. p \in Runs /\ Fits(p)
  BY CompleteFits
<1>2. q \in Earlier(p) /\ Recorded(q)
  BY <1>1, HitsFit
<1> QED
  BY <1>2 DEF Earlier, Orderly, IsLatest

LEMMA RunsOfEntries ==
  ASSUME NEW X
  PROVE  /\ RunsOf(Entries(X)) = X
         /\ \A e \in Entries(X) : e[1] \in X /\ e[2] = meta[e[1]].at
<1>1. \A e \in Entries(X) : e[1] \in X /\ e[2] = meta[e[1]].at
  BY DEF Entries
<1>2. \A r \in X : <<r, meta[r].at>> \in Entries(X)
  BY DEF Entries
<1>3. \A r \in X : <<r, meta[r].at>>[1] = r
  OBVIOUS
<1>4. RunsOf(Entries(X)) = X
  <2>1. RunsOf(Entries(X)) \subseteq X
    BY <1>1 DEF RunsOf
  <2>2. ASSUME NEW r \in X PROVE r \in RunsOf(Entries(X))
    BY <1>2, <1>3 DEF RunsOf
  <2> QED
    BY <2>1, <2>2
<1> QED
  BY <1>1, <1>4

\* A replay of complete runs on a view of others before them.
LEMMA ReplayOfComplete ==
  ASSUME LedgerInv, RunsFit, Orderly, NEW X \in SUBSET Complete,
         NEW cur \in View, NEW F \in SUBSET Complete, Reading(cur, F),
         \A f \in F, q \in X : meta[f].at <= meta[q].at,
         F \cup X = Complete
  PROVE  LET v == Effective(ReplayOver(cur, Entries(X)))
         IN Reading(v, Complete) /\ Trimmed(v, Complete)
<1> DEFINE E == Entries(X)
           w == ReplayOver(cur, E)
<1>1. X \in SUBSET Runs /\ F \in SUBSET Runs /\ Complete \in SUBSET Runs
  BY CompleteAreRuns
<1>2. \A r \in Runs : seg[r] \in Seq(Event) /\ meta[r].at \in Nat
  BY RunFields DEF MetaType
<1>3. E \in SUBSET (Runs \X Nat) /\ IsFiniteSet(E)
  BY <1>1, EntriesTyped DEF LedgerInv
<1>4. w \in View
  BY <1>2, <1>3, ReplayKeepsView
<1>5. RunsOf(E) = X /\ \A e \in E : e[1] \in X /\ e[2] = meta[e[1]].at
  BY RunsOfEntries
<1>6. \A e \in E : Shapely(e[1]) /\ OwnStands(e[1])
  BY <1>5, FitsShapely, CompleteFits
<1>7. ASSUME NEW e \in E, NEW f \in F PROVE ~HitBy(f, e[1])
  <2>1. SUFFICES ASSUME HitBy(f, e[1]) PROVE FALSE
    OBVIOUS
  <2>2. meta[e[1]].at < meta[f].at
    BY <2>1, HitsEarlier
  <2>3. meta[f].at <= meta[e[1]].at /\ meta[f].at \in Nat /\ meta[e[1]].at \in Nat
    BY <1>1, <1>2, <1>5
  <2> QED
    BY <2>2, <2>3
<1>8. ASSUME NEW d \in E, NEW e \in E, HitBy(d[1], e[1]) PROVE ~Before(d, e)
  <2>1. meta[e[1]].at < meta[d[1]].at
    BY <1>5, <1>8, HitsEarlier
  <2>2. d[2] = meta[d[1]].at /\ e[2] = meta[e[1]].at /\ d[2] \in Nat /\ e[2] \in Nat
    BY <1>1, <1>2, <1>5
  <2> QED
    BY <2>1, <2>2 DEF Before
<1> HIDE DEF E
<1>9. Reading(w, F \cup RunsOf(E))
  BY <1>1, <1>2, <1>3, <1>6, <1>7, <1>8, ReplayTells
<1>10. Reading(w, Complete)
  BY <1>5, <1>9
<1>11. \A p \in Complete : \A k \in Runs : HitBy(p, k) => k \in Complete /\ Recorded(k)
  BY HitsEarlier DEF Orderly
<1> HIDE DEF w
<1>12. Reading(Effective(w), Complete) /\ Trimmed(Effective(w), Complete)
  BY <1>1, <1>4, <1>10, <1>11, EffectiveTells
<1> QED
  BY <1>12 DEF w, E

LEMMA ReplayedTells ==
  ASSUME LedgerInv, RunsFit, Orderly
  PROVE  Reading(Replayed, Complete) /\ Trimmed(Replayed, Complete)
BY NoRecordsIsView, NothingTold, ReplayOfComplete DEF Replayed

LEMMA CurrentTells ==
  ASSUME LedgerInv, RunsFit, Orderly, \A p \in Caches : CacheFits(p)
  PROVE  Reading(Current, Complete) /\ Trimmed(Current, Complete)
<1>1. CASE latest = NoPointer
  BY <1>1, ReplayedTells DEF Current
<1>2. CASE latest # NoPointer
  <2>1. PICK p : p = latest
    OBVIOUS
  <2>2. CacheFits(p) /\ p \in Pointer
    BY <1>2, <2>1 DEF Caches, LedgerInv, TypeOK
  <2>3. p.records \in View /\ p.cutoff \in Nat
    BY <2>2 DEF Pointer
  <2> DEFINE X == ReplayRuns(p.cutoff)
             F == p.folded
  <2>4. F \in SUBSET Complete /\ X \in SUBSET Complete
    BY <2>2 DEF CacheFits, Orderly, ReplayRuns
  <2>t. \A q \in Complete : meta[q].at \in Nat
    BY RunFields DEF MetaType, Complete
  <2>5. \A f \in F, q \in X : meta[f].at <= meta[q].at
    <3>1. \A f \in F : meta[f].at <= p.cutoff
      BY <2>2 DEF CacheFits
    <3>2. \A q \in X : meta[q].at >= p.cutoff
      BY DEF ReplayRuns
    <3> HIDE DEF X, F
    <3> QED
      BY <2>3, <2>4, <2>t, <3>1, <3>2
  <2>6. F \cup X = Complete
    <3>1. ASSUME NEW q \in Complete, q \notin F PROVE p.cutoff <= meta[q].at
      <4>1. CASE q \in Settled
        BY <2>2, <3>1, <4>1 DEF CacheFits
      <4>2. CASE q \notin Settled
        <5>1. \A f \in Settled : meta[f].at < meta[q].at
          BY <4>2 DEF Orderly, IsLatest
        <5>2. p.cutoff = 0 \/ \E f \in Settled : meta[f].at = p.cutoff
          BY <2>2 DEF CacheFits
        <5> QED
          BY <2>3, <2>t, <5>1, <5>2
      <4> QED
        BY <4>1, <4>2
    <3>2. \A q \in Complete : p.cutoff <= meta[q].at => q \in X
      BY <2>3, <2>t DEF ReplayRuns
    <3> HIDE DEF X, F
    <3> QED
      BY <2>4, <3>1, <3>2
  <2>7. Reading(p.records, F)
    BY <2>2 DEF CacheFits
  <2> HIDE DEF X, F
  <2>8. LET v == Effective(ReplayOver(p.records, Entries(X)))
        IN Reading(v, Complete) /\ Trimmed(v, Complete)
    BY <2>3, <2>4, <2>5, <2>6, <2>7, ReplayOfComplete
  <2>9. Current = Effective(ReplayOver(p.records, Entries(X)))
    BY <1>2, <2>1 DEF Current, X
  <2> QED
    BY <2>8, <2>9
<1> QED
  BY <1>1, <1>2

\* What an active record of a view stands for.
LEMMA ActiveStands ==
  ASSUME LedgerInv, RunsFit, Orderly, NEW v, Reading(v, Complete), NEW k \in Runs, IsActive(v[k])
  PROVE  k \in Complete /\ Recorded(k) /\ ~Hit(Complete, k) /\ Standing(v[k], Complete, k)
<1>1. v[k] # Nothing
  BY RecordsDiffer
<1>2. Hit(Complete, k) => k \in Complete /\ Recorded(k)
  BY HitsEarlier DEF Hit, Orderly
<1>3. k \in Complete /\ Recorded(k)
  BY <1>1, <1>2 DEF Reading
<1>4. ~Hit(Complete, k)
  BY <1>3 DEF Reading, Gone, IsActive
<1> QED
  BY <1>3, <1>4 DEF Reading

\* At rest every complete run is settled.
LEMMA RestIsOrderly ==
  ASSUME InTurn, RunsFit, \A r \in Runs : Resting(r)
  PROVE  Orderly /\ Complete = Settled
<1>1. Complete \subseteq Settled
  BY DEF RunsFit, Course, Complete, Settled, Resting, At, InTurn
<1>2. Settled \subseteq Complete
  BY DEF Complete, Settled
<1> QED
  BY <1>1, <1>2 DEF Orderly

-----------------------------------------------------------------------------
(* The properties, from the invariant.                                     *)

\* Spans that stand keep what nobody wrote after them.
LEMMA StandingKeeps ==
  ASSUME LedgerInv, RunsFit, NEW k \in Settled, Recorded(k), NEW rec, Standing(rec, Settled, k),
         NEW s \in run[k].plan.cover,
         \A q \in Settled :
             run[q].plan.kind # "delete" /\ s \in run[q].plan.cover => ~(meta[k].at < meta[q].at)
  PROVE  s \in rec.ranges
<1>1. k \in Runs /\ Fits(k)
  BY SettledFits
<1>2. s \in Own(k).ranges
  BY <1>1, OwnFits
<1>3. s \notin Cuts(Settled, k)
  <2> SUFFICES ASSUME NEW j \in Settled, Recorded(j), j # k, LaterSpan(j, k), s \in Own(j).over
               PROVE  FALSE
    BY DEF Cuts
  <2>1. meta[k].at < meta[j].at
    BY SpansInOrder
  <2>2. s \in run[j].plan.cover /\ run[j].plan.kind # "delete"
    BY OwnFits, SettledFits
  <2> QED
    BY <2>1, <2>2
<1> QED
  BY <1>2, <1>3 DEF Standing

LEMMA InvKeepsLast ==
  ASSUME LedgerInv, TurnInv
  PROVE  LastWriterKeepsSlot
<1> SUFFICES ASSUME InTurn, AtRest, NEW s \in Slots, Writers(s) # {}, LastWriter(s) \notin Deleted
             PROVE  s \in Coverage(Current, LastWriter(s)) /\ s \in Coverage(Replayed, LastWriter(s))
  BY DEF LastWriterKeepsSlot
<1>1. RunsFit /\ \A p \in Caches : CacheFits(p)
  BY DEF TurnInv, Fitting
<1>2. Orderly /\ Complete = Settled
  BY <1>1, RestIsOrderly DEF AtRest
<1> DEFINE w == LastWriter(s)
<1>3. w \in Writers(s) /\ \A q \in Writers(s) \ {w} : meta[q].at < meta[w].at
  <2>0. Writers(s) \subseteq Settled /\ Settled \subseteq Runs
    BY <1>2 DEF Writers, Settled
  <2>t. \A q \in Settled : meta[q].at \in Nat
    BY RunFields DEF MetaType, Settled
  <2> DEFINE at == {meta[q].at : q \in Writers(s)}
             f == [q \in Writers(s) |-> meta[q].at]
  <2>1. IsFiniteSet(Writers(s))
    BY <2>0, LedgerAssumption, FS_Subset
  <2>2. f \in Surjection(Writers(s), at)
    BY DEF Surjection
  <2>3. at \in SUBSET Int /\ at # {}
    BY <2>0, <2>t
  <2> HIDE DEF f, at
  <2>4. IsFiniteSet(at)
    BY <2>1, <2>2, FS_Surjection
  <2>5. PICK m \in at : \A y \in at : m >= y
    BY <2>3, <2>4, MaxIsIn
  <2>6. PICK q \in Writers(s) : m = meta[q].at
    BY DEF at
  <2>7. \A p \in Writers(s) : meta[p].at \in at
    BY DEF at
  <2>8. \A p \in Writers(s) \ {q} : meta[p].at < meta[q].at
    <3> SUFFICES ASSUME NEW p \in Writers(s), p # q PROVE meta[p].at < meta[q].at
      OBVIOUS
    <3>1. meta[q].at >= meta[p].at
      BY <2>5, <2>6, <2>7
    <3>2. meta[p].at # meta[q].at
      BY <1>1, <2>0 DEF RunsFit, InOrder
    <3> QED
      BY <2>0, <2>t, <3>1, <3>2
  <2> QED
    BY <2>8 DEF LastWriter
<1> HIDE DEF w
<1>4. /\ w \in Settled /\ w \in Runs /\ run[w].plan.kind # "delete" /\ s \in run[w].plan.cover
      /\ \A q \in Settled : run[q].plan.kind # "delete" /\ s \in run[q].plan.cover =>
           ~(meta[w].at < meta[q].at)
  <2>1. \A q \in Settled : meta[q].at \in Nat
    BY RunFields DEF MetaType, Settled
  <2> QED
    BY <1>2, <1>3, <2>1 DEF Writers, Settled
<1>5. Recorded(w)
  BY <1>4, RunFields DEF SpanIsKept, Recorded, Settled
<1>6. ~Hit(Complete, w)
  <2> SUFFICES ASSUME NEW q \in Settled, HitBy(q, w) PROVE FALSE
    BY <1>2 DEF Hit
  <2>1. q \in Runs /\ Fits(q)
    BY <1>1, SettledFits
  <2>2. CASE /\ run[q].plan.kind = "delete"
             /\ \E n \in DOMAIN seg[q] : seg[q][n].kind = "span" /\ seg[q][n].key = w
    <3>1. w \in Deleted
      BY <1>2, <1>4, <2>2 DEF Deleted
    <3> QED
      BY <3>1 DEF w
  <2>3. CASE FitsKey(q, w)
    <3>1. w \in Earlier(q) /\ Covered(q, w) /\ run[q].plan.kind # "delete"
      BY <2>3 DEF FitsKey
    <3>2. meta[w].at < meta[q].at
      BY <3>1 DEF Earlier
    <3>3. PICK p \in Earlier(q) : meta[w].at < meta[p].at /\ s \in run[p].plan.cover
      BY <1>4, <3>1, <3>2 DEF Covered
    <3>4. p \in Settled /\ p \in Runs
      BY <3>3 DEF Earlier, Settled
    <3>5. run[p].plan.kind # "delete"
      BY <3>3, <3>4, RunFields DEF SpanIsKept
    <3> QED
      BY <1>4, <3>3, <3>4, <3>5
  <2> QED
    BY <2>1, <2>2, <2>3, HitsFit
<1>7. ASSUME NEW v, Reading(v, Complete) PROVE s \in Coverage(v, w)
  <2>1. Standing(v[w], Settled, w)
    BY <1>2, <1>4, <1>5, <1>6, <1>7 DEF Reading
  <2>2. s \in v[w].ranges
    BY <1>1, <1>4, <1>5, <2>1, StandingKeeps
  <2> QED
    BY <2>1, <2>2 DEF Coverage, Standing
<1>8. s \in Coverage(Current, w)
  BY <1>1, <1>2, <1>7, CurrentTells
<1>9. s \in Coverage(Replayed, w)
  BY <1>1, <1>2, <1>7, ReplayedTells
<1> QED
  BY <1>8, <1>9 DEF w

LEMMA InvAgrees ==
  ASSUME LedgerInv, TurnInv
  PROVE  CacheAgreesUnlessRevoked
<1> SUFFICES ASSUME InTurn, AtRest, Revoked = {}, NEW k \in Runs
             PROVE  Coverage(Current, k) = Coverage(Replayed, k)
  BY DEF CacheAgreesUnlessRevoked, CacheAgrees
<1>1. RunsFit /\ \A p \in Caches : CacheFits(p)
  BY DEF TurnInv, Fitting
<1>2. Orderly
  BY <1>1, RestIsOrderly DEF AtRest
<1>3. /\ Reading(Current, Complete) /\ Trimmed(Current, Complete)
      /\ Reading(Replayed, Complete) /\ Trimmed(Replayed, Complete)
  BY <1>1, <1>2, CurrentTells, ReplayedTells
<1>4. ASSUME NEW j \in Complete, Recorded(j), Hit(Complete, j) PROVE Own(j).over = {}
  <2>1. j \in Runs
    BY DEF Complete
  <2>2. Gone(j, Replayed[j])
    BY <1>3, <1>4, <2>1 DEF Reading
  <2> QED
    BY <2>1, <2>2 DEF Gone, Revoked
<1>5. ASSUME NEW v, Reading(v, Complete), Trimmed(v, Complete)
      PROVE  Coverage(v, k) = IF k \in Complete /\ Recorded(k) /\ ~Hit(Complete, k)
                              THEN Own(k).ranges \ Cuts(Complete, k) ELSE {}
  <2>1. CASE k \in Complete /\ Recorded(k) /\ ~Hit(Complete, k)
    <3>1. Standing(v[k], Complete, k)
      BY <1>5, <2>1 DEF Reading
    <3>2. ASSUME NEW j \in Complete, Recorded(j), j # k, LaterSpan(j, k)
          PROVE  v[k].ranges \cap Own(j).over = {}
      <4>1. CASE Hit(Complete, j)
        BY <1>4, <3>2, <4>1
      <4>2. CASE ~Hit(Complete, j)
        BY <1>5, <2>1, <3>2, <4>2 DEF Trimmed
      <4> QED
        BY <4>1, <4>2
    <3>3. v[k].ranges \cap Cuts(Complete, k) = {}
      BY <3>2 DEF Cuts
    <3>4. v[k].ranges = Own(k).ranges \ Cuts(Complete, k)
      BY <3>1, <3>3 DEF Standing
    <3> QED
      BY <2>1, <3>1, <3>4 DEF Coverage, Standing
  <2>2. CASE ~(k \in Complete /\ Recorded(k) /\ ~Hit(Complete, k))
    <3>1. ~IsActive(v[k])
      BY <1>1, <1>2, <1>5, <2>2, ActiveStands
    <3> QED
      BY <2>2, <3>1 DEF Coverage
  <2> QED
    BY <2>1, <2>2
<1> QED
  BY <1>3, <1>5

-----------------------------------------------------------------------------
(* Settled runs stay as they are.                                          *)

Grows ==
    /\ Settled \subseteq Settled'
    /\ \A p \in Settled : run'[p] = run[p] /\ seg'[p] = seg[p] /\ meta'[p] = meta[p]

LEMMA OwnStays ==
  ASSUME NEW p, seg'[p] = seg[p], run'[p] = run[p]
  PROVE  /\ Own(p)' = Own(p) /\ (Recorded(p)' <=> Recorded(p))
         /\ \A k : HitBy(p, k)' <=> HitBy(p, k)
<1>1. SpansOf(p)' = SpansOf(p)
  BY DEF SpansOf
<1>2. Own(p)' = Own(p)
  BY <1>1 DEF Own
<1>3. Recorded(p)' <=> Recorded(p)
  BY DEF Recorded
<1>4. ASSUME NEW k PROVE HitBy(p, k)' <=> HitBy(p, k)
  BY DEF HitBy
<1> QED
  BY <1>2, <1>3, <1>4

\* So does what a view tells of them.
LEMMA ReadingStays ==
  ASSUME NEW v, NEW F, \A p \in F : run'[p] = run[p] /\ seg'[p] = seg[p], Reading(v, F)
  PROVE  Reading(v, F)'
<1>1. \A p \in F : Own(p)' = Own(p) /\ (Recorded(p)' <=> Recorded(p))
  BY OwnStays
<1>2. ASSUME NEW k PROVE Hit(F, k)' <=> Hit(F, k)
  <2>1. \A p \in F : HitBy(p, k)' <=> HitBy(p, k)
    BY OwnStays
  <2> QED
    BY <2>1 DEF Hit
<1>3. ASSUME NEW k \in F PROVE Cuts(F, k)' = Cuts(F, k)
  <2>1. ASSUME NEW i \in F PROVE LaterSpan(i, k)' <=> LaterSpan(i, k)
    BY <1>1 DEF LaterSpan
  <2> DEFINE S == {i \in F : Recorded(i) /\ i # k /\ LaterSpan(i, k)}
  <2>2. S' = S
    BY <1>1, <2>1
  <2>3. \A i \in S : Own(i)' = Own(i)
    BY <1>1
  <2>5. Cuts(F, k) = UNION {Own(j).over : j \in S} /\ Cuts(F, k)' = UNION {Own(j)'.over : j \in S'}
    BY DEF Cuts
  <2> HIDE DEF S
  <2> QED
    BY <2>2, <2>3, <2>5
<1>4. ASSUME NEW k \in F, NEW rec, Standing(rec, F, k) PROVE Standing(rec, F, k)'
  BY <1>1, <1>3, <1>4 DEF Standing
<1>5. ASSUME NEW k \in F, NEW rec, Gone(k, rec) PROVE Gone(k, rec)'
  BY <1>1, <1>5 DEF Gone
<1>6. ASSUME NEW k \in Runs
      PROVE  /\ k \in F /\ Recorded(k)' /\ ~Hit(F, k)' => Standing(v[k], F, k)'
             /\ k \in F /\ Recorded(k)' /\ Hit(F, k)' => v[k] # Nothing /\ Gone(k, v[k])'
             /\ ~(k \in F /\ Recorded(k)') /\ ~Hit(F, k)' => v[k] = Nothing
  BY <1>1, <1>2, <1>4, <1>5 DEF Reading
<1> QED
  BY <1>6 DEF Reading

\* An event that fits a run goes on fitting it.
Keeps(q) ==
    /\ run'[q].plan.kind = run[q].plan.kind /\ run'[q].plan.cover = run[q].plan.cover
    /\ Earlier(q) \subseteq Earlier(q)'
    /\ Earlier(q)' \subseteq Earlier(q)

LEMMA KeyStays ==
  ASSUME Grows, NEW q, Keeps(q), NEW k, FitsKey(q, k)
  PROVE  FitsKey(q, k)'
<1>1. Earlier(q) \subseteq Settled
  BY DEF Earlier
<1>2. k \in Settled
  BY <1>1 DEF FitsKey
<1>3. Recorded(k)'
  BY <1>2, OwnStays DEF FitsKey, Grows
<1>4. \A p \in Settled : run'[p] = run[p] /\ meta'[p] = meta[p]
  BY DEF Grows
<1>5. Covered(q, k)'
  <2> SUFFICES ASSUME NEW s \in run'[k].plan.cover
               PROVE  \/ s \in run'[q].plan.cover
                      \/ \E p \in Earlier(q)' : meta'[k].at < meta'[p].at /\ s \in run'[p].plan.cover
    BY DEF Covered
  <2>1. s \in run[k].plan.cover
    BY <1>2, <1>4
  <2>2. \/ s \in run[q].plan.cover
        \/ \E p \in Earlier(q) : meta[k].at < meta[p].at /\ s \in run[p].plan.cover
    BY <2>1 DEF FitsKey, Covered
  <2> QED
    BY <1>1, <1>2, <1>4, <2>2 DEF Keeps
<1> QED
  BY <1>3, <1>5 DEF FitsKey, Keeps

LEMMA EventStays ==
  ASSUME Grows, NEW q, Keeps(q), Limit(q) \in Nat, Limit(q)' \in Nat, Limit(q) <= Limit(q)',
         NEW e \in Event, EventFits(q, e)
  PROVE  EventFits(q, e)'
<1>1. Earlier(q) \subseteq Settled
  BY DEF Earlier
<1>2. ASSUME FitsSpan(q, e), e.kind = "span" PROVE FitsSpan(q, e)'
  <2>1. e.rec.time \in Nat
    BY <1>2 DEF Event, SpanRecord
  <2>2. e.rec.time <= Limit(q)'
    BY <1>2, <2>1 DEF FitsSpan
  <2>3. Earlier(q)' \subseteq Earlier(q)
    BY <1>2 DEF FitsSpan, Keeps
  <2>4. \A p \in Earlier(q)' : meta'[p].at < e.rec.time
    BY <1>1, <1>2, <2>3 DEF FitsSpan, Grows
  <2> QED
    BY <1>2, <2>2, <2>4 DEF FitsSpan, Keeps
<1>3. ASSUME FitsDeletion(q, e) PROVE FitsDeletion(q, e)'
  <2> PICK k : k = e.key
    OBVIOUS
  <2>1. k \in Settled
    BY <1>1, <1>3 DEF FitsDeletion
  <2>2. Recorded(k)' /\ Own(k)' = Own(k)
    BY <1>3, <2>1, OwnStays DEF FitsDeletion, Grows
  <2>3. Gone(k, e.rec)'
    BY <1>3, <2>2 DEF FitsDeletion, Gone
  <2> QED
    BY <1>3, <2>2, <2>3 DEF FitsDeletion, Keeps
<1>4. ASSUME NEW k \in e.keys, e.kind = "replacement" PROVE FitsKey(q, k)'
  BY <1>4, KeyStays DEF EventFits
<1> QED
  BY <1>2, <1>3, <1>4 DEF EventFits

\* What is known of a cache goes on holding while later runs settle.
LEMMA CacheStays ==
  ASSUME LedgerInv, Grows, NEW p, CacheFits(p),
         \A q \in Settled' \ Settled :
             meta'[q].at \in Nat /\ \A f \in Settled : meta[f].at < meta'[q].at
  PROVE  CacheFits(p)'
<1>1. p.folded \subseteq Settled
  BY DEF CacheFits
<1>2. \A q \in Settled : run'[q] = run[q] /\ seg'[q] = seg[q] /\ meta'[q] = meta[q]
  BY DEF Grows
<1>3. Reading(p.records, p.folded)'
  <2> PICK v, F : v = p.records /\ F = p.folded
    OBVIOUS
  <2>1. Reading(v, F)'
    BY <1>1, <1>2, ReadingStays DEF CacheFits
  <2> QED
    BY <2>1
<1>4. p.folded \subseteq Settled'
  BY <1>1 DEF Grows
<1>5. \A q \in p.folded : meta'[q].at <= p.cutoff
  BY <1>1, <1>2 DEF CacheFits
<1>6. p.cutoff = 0 \/ \E q \in p.folded : meta'[q].at = p.cutoff
  BY <1>1, <1>2 DEF CacheFits
<1>7. ASSUME NEW q \in Settled' \ p.folded PROVE p.cutoff <= meta'[q].at
  <2>1. CASE q \in Settled
    BY <1>2, <2>1 DEF CacheFits
  <2>2. CASE q \notin Settled
    <3>1. meta'[q].at \in Nat /\ \A f \in Settled : meta[f].at < meta'[q].at
      BY <2>2
    <3>2. \A f \in Settled : meta[f].at \in Nat
      BY RunFields DEF MetaType, Settled
    <3> QED
      BY <1>1, <3>1, <3>2 DEF CacheFits
  <2> QED
    BY <2>1, <2>2
<1> QED
  BY <1>3, <1>4, <1>5, <1>6, <1>7 DEF CacheFits

-----------------------------------------------------------------------------
(* A run moves while everything else rests.                                *)

\* What its step leaves alone, and when it may settle.
Moves(r) ==
    /\ load' = load /\ now <= now' /\ latest' = latest /\ cpt' = cpt
    /\ r \notin Settled
    /\ \A q \in Runs \ {r} : run'[q] = run[q] /\ seg'[q] = seg[q] /\ meta'[q] = meta[q]
    /\ \A q \in Runs \ {r} : Resting(q)
    /\ \A c \in Compactors : cpt[c].pc = "idle"
    /\ r \in Settled' => meta'[r].at <= now' /\ \A q \in Settled : meta[q].at < meta'[r].at

LEMMA MovesSettled ==
  ASSUME NEW r \in Runs, Moves(r)
  PROVE  Grows /\ Settled' \ {r} = Settled
<1>1. ASSUME NEW q \in Runs \ {r} PROVE q \in Settled' <=> q \in Settled
  BY DEF Moves, Settled, At
<1>2. Settled \subseteq Runs /\ Settled' \subseteq Runs /\ r \notin Settled
  BY DEF Settled, Moves
<1>3. Settled' \ {r} = Settled
  BY <1>1, <1>2
<1> QED
  BY <1>2, <1>3 DEF Grows, Moves

\* The mover comes after what was settled, before and after its step.
LEMMA MoverEarlier ==
  ASSUME NEW r \in Runs, Moves(r)
  PROVE  Earlier(r) = Settled /\ Earlier(r)' = Settled
<1>1. Settled' \ {r} = Settled /\ Grows
  BY MovesSettled
<1>2. Earlier(r) = Settled
  BY DEF Earlier, Moves
<1>3. Earlier(r)' = {q \in Settled' \ {r} : r \in Settled' => meta'[q].at < meta'[r].at}
  BY DEF Earlier
<1>4. \A q \in Settled' \ {r} : r \in Settled' => meta'[q].at < meta'[r].at
  BY <1>1 DEF Moves, Grows
<1> QED
  BY <1>1, <1>2, <1>3, <1>4

\* The events of the others go on fitting, and their course stays.
LEMMA OthersStay ==
  ASSUME LedgerInv, LedgerInv', InTurn, RunsFit, NEW r \in Runs, Moves(r), NEW q \in Runs \ {r}
  PROVE  (Failed(q)' \/ Fits(q)') /\ Course(q)'
<1>1. Settled' \ {r} = Settled /\ Grows
  BY MovesSettled
<1>2. run'[q] = run[q] /\ seg'[q] = seg[q] /\ meta'[q] = meta[q] /\ Resting(q) /\ now <= now'
  BY DEF Moves
<1>3. (Failed(q) \/ Fits(q)) /\ Course(q)
  BY DEF RunsFit
<1>4. q \in Settled' <=> q \in Settled
  BY <1>1
<1>5. Course(q)'
  BY <1>2, <1>3 DEF Course, At, Resting
<1>6. EventsOf(q)' = EventsOf(q)
  BY <1>2 DEF EventsOf
<1>7. CASE run[q].pc = "new"
  <2>1. EventsOf(q) = {}
    BY <1>3, <1>7 DEF Course, At, EventsOf, Range
  <2>2. EventsOf(q)' = {}
    BY <1>6, <2>1
  <2>3. Fits(q)'
    BY <2>2 DEF Fits
  <2> QED
    BY <1>5, <2>3
<1>8. CASE At(q, "ended") /\ meta[q].status # "complete"
  BY <1>2, <1>5, <1>8 DEF Failed, At
<1>9. CASE q \in Settled
  <2>0. \A p \in Settled : meta'[p] = meta[p] /\ meta[p].at \in Nat
    BY <1>1, RunFields DEF Grows, MetaType, Settled
  <2>1. Earlier(q) \subseteq Earlier(q)'
    BY <1>1, <1>2, <1>4, <2>0 DEF Earlier
  <2>2. ASSUME NEW p \in Earlier(q)' PROVE p \in Earlier(q)
    <3>1. p \in Settled' /\ p # q /\ meta'[p].at < meta'[q].at
      BY <1>4, <1>9 DEF Earlier
    <3>2. p # r
      <4>1. ASSUME p = r
            PROVE  meta[q].at < meta'[r].at /\ meta'[r].at \in Nat /\ meta[q].at \in Nat
        BY <1>9, <2>0, <3>1, <4>1, RunFields DEF Moves, LedgerInv, TypeOK, MetaType
      <4> QED
        BY <1>2, <3>1, <4>1
    <3>3. p \in Settled
      BY <1>1, <3>1, <3>2
    <3> QED
      BY <1>2, <2>0, <3>1, <3>3 DEF Earlier
  <2>3. Keeps(q)
    BY <1>2, <2>1, <2>2 DEF Keeps
  <2>4. Limit(q) = meta[q].at /\ Limit(q)' = meta[q].at /\ meta[q].at \in Nat
    BY <1>2, <1>9, RunFields DEF Limit, MetaType, Settled, At
  <2>5. \A e \in EventsOf(q) : e \in Event
    BY RunFields DEF EventsOf, Range
  <2>6. Fits(q)
    BY <1>3, <1>9 DEF Failed, Settled, At
  <2>7. ASSUME NEW e \in EventsOf(q) PROVE EventFits(q, e)'
    <3>1. EventFits(q, e) /\ e \in Event
      BY <2>5, <2>6 DEF Fits
    <3>2. Limit(q) \in Nat /\ Limit(q)' \in Nat /\ Limit(q) <= Limit(q)'
      BY <2>4
    <3> QED
      BY <1>1, <2>3, <3>1, <3>2, EventStays
  <2>8. Fits(q)'
    BY <1>6, <2>7 DEF Fits
  <2> QED
    BY <1>5, <2>8
<1>10. At(q, "new") \/ At(q, "ended")
  BY <1>2 DEF Resting, At, InTurn
<1> QED
  BY <1>7, <1>8, <1>9, <1>10 DEF Settled, At

\* Its own events fit if the new ones do.
LEMMA MoverFits ==
  ASSUME LedgerInv, NEW r \in Runs, Fits(r), Moves(r),
         run'[r].plan.kind = run[r].plan.kind, run'[r].plan.cover = run[r].plan.cover,
         Limit(r) \in Nat, Limit(r)' \in Nat, Limit(r) <= Limit(r)',
         NEW new, \A e \in new : EventFits(r, e)', EventsOf(r)' \subseteq EventsOf(r) \cup new
  PROVE  Fits(r)'
<1>1. Keeps(r) /\ Grows
  BY MoverEarlier, MovesSettled DEF Keeps
<1>2. ASSUME NEW e \in EventsOf(r) PROVE EventFits(r, e)'
  <2>1. EventFits(r, e) /\ e \in Event
    BY RunFields DEF EventsOf, Range, Fits
  <2> QED
    BY <1>1, <2>1, EventStays
<1> QED
  BY <1>2 DEF Fits

LEMMA MovingKeepsTurn ==
  ASSUME LedgerInv, LedgerInv', InTurn, Fitting, NEW r \in Runs, Moves(r),
         Failed(r)' \/ Fits(r)', Course(r)'
  PROVE  TurnInv'
<1>1. Settled' \ {r} = Settled /\ Grows
  BY MovesSettled
<1>2. \A q \in Runs : (Failed(q)' \/ Fits(q)') /\ Course(q)'
  BY OthersStay DEF Fitting
<1>3. InOrder'
  <2>1. \A q \in Settled : meta'[q] = meta[q] /\ meta[q].at \in Nat /\ meta[q].at <= now
    BY <1>1, RunFields DEF Grows, MetaType, Settled, Fitting, RunsFit, InOrder
  <2>2. now \in Nat /\ now' \in Nat /\ now <= now' /\ meta'[r].at \in Nat
    BY DEF Moves, LedgerInv, TypeOK, MetaType
  <2>3. ASSUME NEW q \in Settled' PROVE meta'[q].at <= now'
    <3>1. CASE q = r
      BY <3>1, <2>3 DEF Moves
    <3>2. CASE q # r
      <4>1. q \in Settled
        BY <1>1, <3>2
      <4> QED
        BY <2>1, <2>2, <4>1
    <3> QED
      BY <3>1, <3>2
  <2>4. ASSUME NEW q \in Settled', NEW p \in Settled', p # q PROVE meta'[p].at # meta'[q].at
    <3>1. CASE q = r
      <4>1. p \in Settled
        BY <1>1, <2>4, <3>1
      <4>2. meta[p].at < meta'[r].at
        BY <3>1, <4>1 DEF Moves
      <4> QED
        BY <2>1, <2>2, <3>1, <4>1, <4>2
    <3>2. CASE p = r
      <4>1. q \in Settled
        BY <1>1, <2>4, <3>2
      <4>2. meta[q].at < meta'[r].at
        BY <3>2, <4>1 DEF Moves
      <4> QED
        BY <2>1, <2>2, <3>2, <4>1, <4>2
    <3>3. CASE q # r /\ p # r
      <4>1. q \in Settled /\ p \in Settled
        BY <1>1, <3>3
      <4> QED
        BY <2>1, <2>4, <4>1 DEF Fitting, RunsFit, InOrder
    <3> QED
      BY <3>1, <3>2, <3>3
  <2> QED
    BY <2>3, <2>4 DEF InOrder
<1>4. TurnsKept'
  <2>1. \A q \in Runs \ {r} : Resting(q)'
    BY DEF Moves, Resting
  <2>2. \A c \in Compactors : cpt'[c].pc = "idle"
    BY DEF Moves
  <2> QED
    BY <2>1, <2>2 DEF TurnsKept
<1>5. \A p \in Caches' : CacheFits(p)'
  <2>1. Caches' = Caches
    BY DEF Caches, Moves
  <2>2. \A q \in Settled' \ Settled : meta'[q].at \in Nat /\ \A f \in Settled : meta[f].at < meta'[q].at
    <3>1. Settled' \ Settled \subseteq {r}
      BY <1>1
    <3> QED
      BY <3>1 DEF Moves, LedgerInv, TypeOK, MetaType
  <2> QED
    BY <1>1, <2>1, <2>2, CacheStays DEF Fitting
<1>6. \A c \in Compactors : ListingFits(c)'
  BY DEF ListingFits, Moves
<1> QED
  BY <1>2, <1>3, <1>4, <1>5, <1>6 DEF TurnInv, Fitting, RunsFit

-----------------------------------------------------------------------------
(* Each step of a run.                                                     *)

LEMMA RangeOne == (\A e : Range(<<e>>) = {e}) /\ Range(<<>>) = {}
<1>1. ASSUME NEW e PROVE Range(<<e>>) = {e}
  <2> DEFINE one == <<e>>
  <2>1. DOMAIN one = {1} /\ one[1] = e
    OBVIOUS
  <2> HIDE DEF one
  <2>2. Range(one) = {e}
    BY <2>1 DEF Range
  <2> QED
    BY <2>2 DEF one
<1>2. Range(<<>>) = {}
  BY DEF Range
<1> QED
  BY <1>1, <1>2

LEMMA RangeOf ==
  ASSUME NEW a \in Seq(Event), NEW b \in Seq(Event)
  PROVE  Range(a \o b) \subseteq Range(a) \cup Range(b)
<1>1. /\ Len(a \o b) = Len(a) + Len(b) /\ Len(a) \in Nat /\ Len(b) \in Nat
      /\ \A n \in 1 .. Len(a) + Len(b) : (a \o b)[n] = IF n <= Len(a) THEN a[n] ELSE b[n - Len(a)]
  BY ConcatProperties
<1>2. DOMAIN a = 1 .. Len(a) /\ DOMAIN b = 1 .. Len(b) /\ DOMAIN (a \o b) = 1 .. Len(a) + Len(b)
  BY <1>1, ConcatProperties
<1>3. ASSUME NEW n \in DOMAIN (a \o b)
      PROVE  \/ n \in DOMAIN a /\ (a \o b)[n] = a[n]
             \/ n - Len(a) \in DOMAIN b /\ (a \o b)[n] = b[n - Len(a)]
  BY <1>1, <1>2
<1>4. ASSUME NEW n \in DOMAIN (a \o b) PROVE (a \o b)[n] \in Range(a) \cup Range(b)
  BY <1>3 DEF Range
<1> QED
  BY <1>4 DEF Range

\* Events and one more.
LEMMA RangeMore ==
  ASSUME NEW a \in Seq(Event), NEW e, <<e>> \in Seq(Event)
  PROVE  a \o <<e>> \in Seq(Event) /\ Range(a \o <<e>>) \subseteq Range(a) \cup {e}
<1> DEFINE one == <<e>>
<1>1. Range(one) = {e}
  BY RangeOne
<1> HIDE DEF one
<1>2. one \in Seq(Event)
  BY DEF one
<1>3. a \o one \in Seq(Event) /\ Range(a \o one) \subseteq Range(a) \cup Range(one)
  BY <1>2, RangeOf, ConcatKeeps
<1> QED
  BY <1>1, <1>3 DEF one

\* The effects of the parts of a step.
LEMMA RunEffect ==
  ASSUME LedgerInv, NEW r \in Runs, NEW p, Become(r, p)
  PROVE  run'[r] = p /\ \A q \in Runs \ {r} : run'[q] = run[q]
BY DEF Become, LedgerInv, TypeOK

LEMMA MetaEffect ==
  ASSUME LedgerInv, NEW r \in Runs, NEW s, NEW t, PutMeta(r, s, t)
  PROVE  /\ meta'[r].status = s /\ meta'[r].at = t
         /\ \A q \in Runs \ {r} : meta'[q] = meta[q]
<1>1. Meta(s, t).status = s /\ Meta(s, t).at = t
  BY DEF Meta
<1>2. meta' = [meta EXCEPT ![r] = Meta(s, t)]
  BY DEF PutMeta
<1> QED
  BY <1>1, <1>2 DEF LedgerInv, TypeOK

LEMMA SegEffect ==
  ASSUME LedgerInv, NEW r \in Runs, NEW events \in Seq(Event), Append1(r, events)
  PROVE  /\ Range(seg'[r]) \subseteq Range(seg[r]) \cup Range(events)
         /\ \A q \in Runs \ {r} : seg'[q] = seg[q]
<1>1. seg' = [seg EXCEPT ![r] = seg[r] \o events]
  BY DEF Append1
<1>2. seg'[r] = seg[r] \o events /\ \A q \in Runs \ {r} : seg'[q] = seg[q]
  BY <1>1 DEF LedgerInv, TypeOK
<1> QED
  BY <1>2, RunFields, RangeOf

\* The fields of a process that moved.
LEMMA GotoIs ==
  ASSUME NEW p \in RunType, NEW l
  PROVE  LET q == [p EXCEPT !.pc = l]
         IN /\ q.pc = l /\ q.plan = p.plan /\ q.buf = p.buf /\ q.keys = p.keys
            /\ q.over = p.over /\ q.at = p.at
BY DEF RunType

LEMMA BufferedIs ==
  ASSUME NEW p \in RunType, NEW l, NEW b
  PROVE  LET q == Buffered(p, l, b)
         IN /\ q.pc = l /\ q.plan = p.plan /\ q.buf = b /\ q.keys = p.keys
            /\ q.over = p.over /\ q.at = p.at
BY DEF RunType, Buffered

LEMMA EmptiedIs ==
  ASSUME NEW p \in RunType, NEW l
  PROVE  LET q == Emptied(p, l)
         IN /\ q.pc = l /\ q.plan = p.plan /\ q.buf = <<>> /\ q.keys = p.keys
            /\ q.over = p.over /\ q.at = p.at
BY DEF RunType, Emptied

LEMMA PlannedIs ==
  ASSUME NEW p \in RunType, NEW K, NEW o
  PROVE  LET q == Planned(p, K, o)
         IN /\ q.pc = "planned" /\ q.plan = p.plan /\ q.buf = p.buf /\ q.keys = K
            /\ q.over = o /\ q.at = p.at
BY DEF RunType, Planned

LEMMA GotoFields ==
  ASSUME LedgerInv, NEW r \in Runs, NEW l, Goto(r, l)
  PROVE  /\ run'[r].pc = l /\ run'[r].plan = run[r].plan /\ run'[r].buf = run[r].buf
         /\ run'[r].keys = run[r].keys /\ run'[r].over = run[r].over /\ run'[r].at = run[r].at
         /\ \A q \in Runs \ {r} : run'[q] = run[q]
<1> DEFINE p == [run[r] EXCEPT !.pc = l]
<1>1. /\ p.pc = l /\ p.plan = run[r].plan /\ p.buf = run[r].buf /\ p.keys = run[r].keys
      /\ p.over = run[r].over /\ p.at = run[r].at
  BY RunFields, GotoIs
<1>2. Become(r, p)
  BY DEF Goto
<1> HIDE DEF p
<1> QED
  BY <1>1, <1>2, RunEffect

\* Nothing else is under way when a run moves.
LEMMA MoverAlone ==
  ASSUME Fitting, InTurn, NEW r \in Runs, ~Resting(r) \/ Alone
  PROVE  (\A q \in Runs \ {r} : Resting(q)) /\ (\A c \in Compactors : cpt[c].pc = "idle")
BY DEF Fitting, TurnsKept, Alone, AtRest, InTurn

\* The keys a run may replace, and its limit.
LEMMA MoverKeys ==
  ASSUME NEW r \in Runs, Moves(r),
         run'[r].plan.kind = run[r].plan.kind, run'[r].plan.cover = run[r].plan.cover
  PROVE  \A k : FitsKey(r, k) => FitsKey(r, k)'
<1>1. Keeps(r) /\ Grows
  BY MoverEarlier, MovesSettled DEF Keeps
<1> QED
  BY <1>1, KeyStays

LEMMA MoverFitsOne ==
  ASSUME LedgerInv, NEW r \in Runs, Fits(r), Moves(r),
         run'[r].plan.kind = run[r].plan.kind, run'[r].plan.cover = run[r].plan.cover,
         Limit(r) \in Nat, Limit(r)' \in Nat, Limit(r) <= Limit(r)',
         NEW e, EventFits(r, e)', EventsOf(r)' \subseteq EventsOf(r) \cup {e}
  PROVE  Fits(r)'
<1> DEFINE new == {e}
<1>1. (\A d \in new : EventFits(r, d)') /\ EventsOf(r)' \subseteq EventsOf(r) \cup new
  OBVIOUS
<1> HIDE DEF new
<1> QED
  BY <1>1, MoverFits

LEMMA MoverStays ==
  ASSUME LedgerInv, NEW r \in Runs, Fits(r), Moves(r),
         run'[r].plan.kind = run[r].plan.kind, run'[r].plan.cover = run[r].plan.cover,
         Limit(r) \in Nat, Limit(r)' \in Nat, Limit(r) <= Limit(r)', EventsOf(r)' \subseteq EventsOf(r)
  PROVE  Fits(r)'
<1> DEFINE new == {}
<1>1. (\A e \in new : EventFits(r, e)') /\ EventsOf(r)' \subseteq EventsOf(r) \cup new
  OBVIOUS
<1> HIDE DEF new
<1> QED
  BY <1>1, MoverFits

LEMMA LimitIsTime ==
  ASSUME LedgerInv, NEW r \in Runs
  PROVE  Limit(r) \in Nat
BY RunFields DEF Limit, MetaType

LEMMA FitsNow ==
  ASSUME Fitting, NEW r \in Runs
  PROVE  (Failed(r) \/ Fits(r)) /\ Course(r) /\ \A q \in Settled : meta[q].at <= now
BY DEF Fitting, RunsFit, InOrder

LEMMA FitsAtWork ==
  ASSUME Fitting, NEW r \in Runs, run[r].pc \notin {"raised", "ended"}
  PROVE  Fits(r)
BY DEF Fitting, RunsFit, Failed, At

LEMMA StartIngestInTurn ==
  ASSUME LedgerInv, LedgerInv', InTurn, Fitting, NEW r \in Runs,
         NEW kind \in load.kinds, NEW cover \in Covers, StartIngest(r, kind, cover), load' = load
  PROVE  TurnInv'
<1> DEFINE p == [Idle EXCEPT !.pc = "writing", !.plan = Plan(kind, cover, FALSE)]
<1>1. p.pc = "writing" /\ p.buf = <<>> /\ p.keys = {} /\ p.over = {} /\ p.at = 0
  BY DEF Idle
<1>2. Become(r, p) /\ PutMeta(r, "started", 0) /\ run[r].pc = "new"
  BY DEF StartIngest, At
<1> HIDE DEF p
<1>3. run'[r] = p /\ \A q \in Runs \ {r} : run'[q] = run[q]
  BY <1>2, RunEffect
<1>4. \A q \in Runs \ {r} : meta'[q] = meta[q]
  BY <1>2, MetaEffect
<1>5. Moves(r)
  BY <1>1, <1>2, <1>3, <1>4, MoverAlone, RunFields DEF Moves, StartIngest, Settled, At
<1>6. Fits(r)'
  <2>1. seg[r] = <<>> /\ seg' = seg
    BY <1>2, FitsNow DEF Course, At, StartIngest
  <2>2. EventsOf(r)' = {}
    BY <1>1, <1>3, <2>1, RangeOne DEF EventsOf
  <2> QED
    BY <2>2 DEF Fits
<1>7. Course(r)'
  BY <1>1, <1>3 DEF Course, At, Resting
<1> QED
  BY <1>5, <1>6, <1>7, MovingKeepsTurn

LEMMA RecordBatchInTurn ==
  ASSUME LedgerInv, LedgerInv', InTurn, Fitting, NEW r \in Runs, RecordBatch(r), load' = load
  PROVE  TurnInv'
<1> PICK e : e = SpanEvent(r, Span(r, run[r].plan.cover, {}, Clock))
  OBVIOUS
<1> DEFINE p == [run[r] EXCEPT !.plan.batched = TRUE, !.buf = <<e>>]
<1>1. /\ e.kind = "span" /\ e.key = r /\ e.rec.status = "active" /\ e.rec.run = r
      /\ e.rec.ranges = run[r].plan.cover /\ e.rec.over = {} /\ e.rec.time = Clock
  BY DEF SpanEvent, Span
<1>2. /\ Become(r, p) /\ run[r].pc = "writing" /\ now' = Clock /\ seg' = seg /\ meta' = meta
      /\ run[r].plan.kind # "delete" /\ run[r].plan.cover # {}
  BY DEF RecordBatch, At, Tick
<1>3. /\ p.pc = "writing" /\ p.buf = <<e>> /\ p.keys = run[r].keys /\ p.over = run[r].over
      /\ p.at = run[r].at /\ p.plan.kind = run[r].plan.kind /\ p.plan.cover = run[r].plan.cover
  BY <1>2, RunFields DEF RunType, PlanType
<1> HIDE DEF p
<1>4. run'[r] = p /\ \A q \in Runs \ {r} : run'[q] = run[q]
  BY <1>2, RunEffect
<1>5. now \in Nat /\ Clock = now + 1
  BY RunFields DEF Clock
<1>6. Moves(r)
  BY <1>2, <1>3, <1>4, <1>5, MoverAlone DEF Moves, RecordBatch, Settled, At, Resting
<1>7. Limit(r) = now /\ Limit(r)' = Clock
  BY <1>2, <1>3, <1>4 DEF Limit
<1>8. EventFits(r, e)'
  <2>1. \A q \in Earlier(r)' : meta'[q].at < Clock
    <3>1. \A q \in Settled : meta[q].at \in Nat /\ meta[q].at <= now
      BY FitsNow, RunFields DEF Settled, MetaType
    <3> QED
      BY <1>2, <1>5, <1>6, <3>1, MoverEarlier
  <2>2. run'[r].plan.kind # "delete" /\ run'[r].plan.cover = run[r].plan.cover
    BY <1>2, <1>3, <1>4
  <2>3. e.rec.time = Clock /\ e.rec.time <= Limit(r)'
    BY <1>1, <1>5, <1>7
  <2>4. FitsSpan(r, e)'
    BY <1>1, <1>2, <2>1, <2>2, <2>3 DEF FitsSpan
  <2> QED
    BY <1>1, <2>4 DEF EventFits
<1>9. EventsOf(r)' \subseteq EventsOf(r) \cup {e}
  <2>1. Range(run'[r].buf) = {e}
    BY <1>3, <1>4, RangeOne
  <2> QED
    BY <1>2, <2>1 DEF EventsOf
<1>10. Fits(r)'
  <2>1. Limit(r) \in Nat /\ Limit(r)' \in Nat /\ Limit(r) <= Limit(r)'
    BY <1>5, <1>7
  <2> QED
    BY <1>2, <1>3, <1>4, <1>6, <1>8, <1>9, <2>1, FitsAtWork, MoverFitsOne
<1>11. Course(r)'
  <2>1. Course(r) /\ \A k : FitsKey(r, k) => FitsKey(r, k)'
    BY <1>3, <1>4, <1>6, FitsNow, MoverKeys
  <2> QED
    BY <1>2, <1>3, <1>4, <2>1 DEF Course, At, Resting
<1> QED
  BY <1>6, <1>10, <1>11, MovingKeepsTurn

LEMMA StartDeleteInTurn ==
  ASSUME LedgerInv, LedgerInv', InTurn, Fitting, NEW r \in Runs, NEW k \in Runs,
         StartDelete(r, k), load' = load
  PROVE  TurnInv'
<1> PICK rec : rec = [Current[k] EXCEPT !.status = "replaced", !.time = Clock]
  OBVIOUS
<1> DEFINE e == SpanEvent(k, rec)
           p == [Idle EXCEPT !.pc = "writing", !.plan = Plan("delete", {}, FALSE), !.buf = <<e>>]
<1>1. /\ p.pc = "writing" /\ p.plan.kind = "delete" /\ p.buf = <<e>>
      /\ p.keys = {} /\ p.over = {} /\ p.at = 0
  BY DEF Idle, Plan
<1>2. /\ Become(r, p) /\ PutMeta(r, "started", 0) /\ run[r].pc = "new" /\ now' = Clock /\ seg' = seg
      /\ IsActive(Current[k]) /\ AtRest
  BY DEF StartDelete, At, Tick, Alone, InTurn
<1>3. k \in Settled /\ Recorded(k) /\ rec.status = "replaced" /\ rec.over = Own(k).over
  <2>1. RunsFit /\ Orderly /\ Complete = Settled
    BY <1>2, RestIsOrderly DEF Fitting, AtRest
  <2>2. Reading(Current, Complete)
    BY <2>1, CurrentTells DEF Fitting
  <2>3. k \in Complete /\ Recorded(k) /\ Standing(Current[k], Complete, k)
    BY <1>2, <2>1, <2>2, ActiveStands
  <2>4. Current[k] \in SpanRecord
    BY <1>2, CurrentIsView, RecordsDiffer DEF LedgerInv, View
  <2>5. rec.status = "replaced" /\ rec.over = Current[k].over
    BY <2>4 DEF SpanRecord
  <2> QED
    BY <2>1, <2>3, <2>5 DEF Standing
<1>4. e.kind = "span" /\ e.key = k /\ e.rec = rec
  BY DEF SpanEvent
<1> HIDE DEF e, p
<1>5. run'[r] = p /\ \A q \in Runs \ {r} : run'[q] = run[q]
  BY <1>2, RunEffect
<1>6. \A q \in Runs \ {r} : meta'[q] = meta[q]
  BY <1>2, MetaEffect
<1>7. Moves(r)
  BY <1>1, <1>2, <1>5, <1>6, MoverAlone, RunFields DEF Moves, StartDelete, Settled, At, Clock
<1>8. Fits(r)'
  <2>0. seg'[r] = <<>> /\ run'[r].buf = <<e>>
    BY <1>1, <1>2, <1>5, FitsNow DEF Course, At
  <2>1. Range(seg'[r]) = {} /\ Range(run'[r].buf) = {e}
    BY <2>0, RangeOne
  <2>2. EventsOf(r)' = {e}
    BY <2>1 DEF EventsOf
  <2>3. k \in Earlier(r)' /\ Recorded(k)' /\ Own(k)' = Own(k)
    BY <1>3, <1>7, MoverEarlier, MovesSettled, OwnStays DEF Grows
  <2>4. Gone(k, rec)'
    BY <1>3, <2>3 DEF Gone
  <2>5. FitsDeletion(r, e)'
    BY <1>1, <1>4, <1>5, <2>3, <2>4 DEF FitsDeletion
  <2>6. EventFits(r, e)'
    BY <1>4, <2>5 DEF EventFits
  <2> QED
    BY <2>2, <2>6 DEF Fits
<1>9. Course(r)'
  BY <1>1, <1>5 DEF Course, At, Resting
<1> QED
  BY <1>7, <1>8, <1>9, MovingKeepsTurn

LEMMA TerminalFits ==
  ASSUME NEW r, NEW s
  PROVE  EventFits(r, TerminalEvent(s))'
<1>1. TerminalEvent(s).kind = "terminal"
  BY DEF TerminalEvent
<1> QED
  BY <1>1 DEF EventFits

LEMMA SealCompleteInTurn ==
  ASSUME LedgerInv, LedgerInv', InTurn, Fitting, NEW r \in Runs, SealComplete(r), load' = load
  PROVE  TurnInv'
<1> PICK e : e = TerminalEvent("complete")
  OBVIOUS
<1> DEFINE ev == run[r].buf \o <<e>>
           p == Emptied(run[r], "sealed")
<1>1. <<e>> \in Seq(Event) /\ run[r].buf \in Seq(Event)
  BY RunFields, TerminalEvents DEF TerminalStatus
<1>2. EventFits(r, e)'
  BY TerminalFits
<1>3. Become(r, p) /\ Append1(r, ev) /\ run[r].pc = "writing" /\ meta' = meta /\ now' = now
  BY DEF SealComplete, At, Emptied
<1>4. ev \in Seq(Event) /\ Range(ev) \subseteq Range(run[r].buf) \cup {e}
  BY <1>1, RangeMore
<1> HIDE DEF ev
<1>5. /\ p.pc = "sealed" /\ p.plan = run[r].plan /\ p.buf = <<>> /\ p.keys = run[r].keys
      /\ p.over = run[r].over /\ p.at = run[r].at
  BY RunFields, EmptiedIs
<1> HIDE DEF p
<1>6. run'[r] = p /\ \A q \in Runs \ {r} : run'[q] = run[q]
  BY <1>3, RunEffect
<1>7. /\ Range(seg'[r]) \subseteq Range(seg[r]) \cup Range(ev)
      /\ \A q \in Runs \ {r} : seg'[q] = seg[q]
  BY <1>3, <1>4, SegEffect
<1>8. Moves(r)
  BY <1>3, <1>5, <1>6, <1>7, MoverAlone, RunFields DEF Moves, SealComplete, Settled, At, Resting
<1>9. Fits(r)'
  <2>1. EventsOf(r)' \subseteq EventsOf(r) \cup {e}
    BY <1>4, <1>5, <1>6, <1>7, RangeOne DEF EventsOf
  <2>2. Limit(r) = now /\ Limit(r)' = now /\ now \in Nat
    BY <1>3, <1>5, <1>6, RunFields DEF Limit
  <2>3. Limit(r) \in Nat /\ Limit(r)' \in Nat /\ Limit(r) <= Limit(r)'
    BY <2>2
  <2> QED
    BY <1>3, <1>2, <1>5, <1>6, <1>8, <2>1, <2>3, FitsAtWork, MoverFitsOne
<1>10. Course(r)'
  <2>1. Course(r) /\ \A k : FitsKey(r, k) => FitsKey(r, k)'
    BY <1>5, <1>6, <1>8, FitsNow, MoverKeys
  <2> QED
    BY <1>3, <1>5, <1>6, <2>1 DEF Course, At, Resting
<1> QED
  BY <1>8, <1>9, <1>10, MovingKeepsTurn

LEMMA FinalizeCompleteInTurn ==
  ASSUME LedgerInv, LedgerInv', InTurn, Fitting, NEW r \in Runs, FinalizeComplete(r), load' = load
  PROVE  TurnInv'
<1> DEFINE l == IF run[r].plan.kind = "delete" THEN "ended" ELSE "terminal"
<1>1. /\ run[r].pc = "sealed" /\ now' = Clock /\ PutMeta(r, "complete", Clock) /\ Goto(r, l)
      /\ seg' = seg /\ l \in {"ended", "terminal"}
  BY DEF FinalizeComplete, At, Tick
<1> HIDE DEF l
<1>2. /\ run'[r].pc = l /\ run'[r].plan = run[r].plan /\ run'[r].buf = run[r].buf
      /\ run'[r].keys = run[r].keys /\ run'[r].over = run[r].over /\ run'[r].at = run[r].at
      /\ \A q \in Runs \ {r} : run'[q] = run[q]
  BY <1>1, GotoFields
<1>3. /\ meta'[r].status = "complete" /\ meta'[r].at = Clock
      /\ \A q \in Runs \ {r} : meta'[q] = meta[q]
  BY <1>1, MetaEffect
<1>4. now \in Nat /\ Clock = now + 1
  BY RunFields DEF Clock
<1>5. \A q \in Settled : meta[q].at < Clock
  <2>1. \A q \in Settled : meta[q].at \in Nat /\ meta[q].at <= now
    BY FitsNow, RunFields DEF Settled, MetaType
  <2> QED
    BY <1>4, <2>1
<1>6. Moves(r)
  BY <1>1, <1>2, <1>3, <1>4, <1>5, MoverAlone DEF Moves, FinalizeComplete, Settled, At, Resting
<1>7. Fits(r)'
  <2>1. EventsOf(r)' = EventsOf(r)
    BY <1>1, <1>2 DEF EventsOf
  <2>2. Limit(r) = now /\ Limit(r)' = Clock
    BY <1>1, <1>2, <1>3 DEF Limit
  <2>3. Limit(r) \in Nat /\ Limit(r)' \in Nat /\ Limit(r) <= Limit(r)'
    BY <1>4, <2>2
  <2> QED
    BY <1>1, <1>2, <1>6, <2>1, <2>3, FitsAtWork, MoverStays
<1>8. Course(r)'
  <2>1. Course(r) /\ \A k : FitsKey(r, k) => FitsKey(r, k)'
    BY <1>2, <1>6, FitsNow, MoverKeys
  <2>2. ASSUME l = "terminal" PROVE IsLatest(meta[r].at)'
    <3>1. Settled' \ {r} = Settled /\ Grows /\ r \notin Settled'
      BY <1>2, <1>6, <2>2, MovesSettled DEF Settled, At
    <3> QED
      BY <1>1, <1>3, <1>4, <1>5, <3>1 DEF IsLatest, Grows
  <2> QED
    BY <1>1, <1>2, <1>3, <2>1, <2>2 DEF Course, At, Resting
<1> QED
  BY <1>6, <1>7, <1>8, MovingKeepsTurn

\* What is replaced in full was covered again, by the run or before it: whatever
\* the active record lacks a later run overwrote (_replacement_plan).
LEMMA ReplacedFit ==
  ASSUME LedgerInv, InTurn, Fitting, NEW r \in Runs, run[r].pc = "terminal",
         run[r].plan.kind = "force", NEW k \in ReplacedKeys(r)
  PROVE  FitsKey(r, k)
<1>1. RunsFit /\ \A p \in Caches : CacheFits(p)
  BY DEF Fitting
<1>2. Complete \subseteq Settled \cup {r} /\ Settled \subseteq Complete /\ r \notin Settled
  <2>1. \A q \in Runs \ {r} : Resting(q)
    BY MoverAlone DEF Resting
  <2> QED
    BY <1>1, <2>1 DEF RunsFit, Course, Complete, Settled, Resting, At, InTurn
<1>3. Orderly
  <2>1. IsLatest(meta[r].at)
    BY <1>1 DEF RunsFit, Course
  <2> QED
    BY <1>2, <2>1 DEF Orderly, Failed, Settled, At
<1>4. k \in Runs /\ k # r /\ IsActive(Current[k]) /\ Current[k].ranges \subseteq run[r].plan.cover
  BY DEF ReplacedKeys, PriorSpans
<1>5. k \in Complete /\ Recorded(k) /\ Standing(Current[k], Complete, k)
  <2>1. Reading(Current, Complete)
    BY <1>1, <1>3, CurrentTells
  <2> QED
    BY <1>1, <1>3, <1>4, <2>1, ActiveStands
<1>6. k \in Settled /\ Earlier(r) = Settled
  BY <1>2, <1>4, <1>5 DEF Earlier
<1>7. ASSUME NEW s \in run[k].plan.cover, s \notin run[r].plan.cover
      PROVE  \E p \in Settled : meta[k].at < meta[p].at /\ s \in run[p].plan.cover
  <2>1. s \in Own(k).ranges
    BY <1>1, <1>3, <1>4, <1>5, <1>7, OwnFits, CompleteFits
  <2>2. s \in Cuts(Complete, k)
    BY <1>4, <1>5, <1>7, <2>1 DEF Standing
  <2>3. PICK j \in Complete : Recorded(j) /\ j # k /\ LaterSpan(j, k) /\ s \in Own(j).over
    BY <2>2 DEF Cuts
  <2>4. j \in Runs /\ s \in run[j].plan.cover
    BY <1>1, <1>3, <2>3, OwnFits, CompleteFits
  <2>5. j \in Settled
    BY <1>2, <1>7, <2>3, <2>4
  <2>6. meta[k].at < meta[j].at
    BY <1>1, <1>5, <1>6, <2>3, <2>5, SpansInOrder
  <2> QED
    BY <2>4, <2>5, <2>6
<1>8. Covered(r, k)
  BY <1>6, <1>7 DEF Covered
<1> QED
  BY <1>5, <1>6, <1>8 DEF FitsKey

LEMMA PlanReplacementInTurn ==
  ASSUME LedgerInv, LedgerInv', InTurn, Fitting, NEW r \in Runs, PlanReplacement(r), load' = load
  PROVE  TurnInv'
<1> DEFINE keys == IF run[r].plan.cover = {} THEN {} ELSE ReplacedKeys(r)
           Moved(q) == /\ q.pc \in {"planned", "raised"} /\ q.plan = run[r].plan
                       /\ q.buf = run[r].buf /\ q.at = run[r].at
                       /\ q.pc = "raised" => run[r].plan.cover = {}
                       /\ q.over \subseteq run[r].plan.cover /\ \A k \in q.keys : FitsKey(r, k)
<1>1. run[r].pc = "terminal" /\ UNCHANGED <<now, seg, meta, latest, cpt>>
  BY DEF PlanReplacement, At
<1>2. Course(r) /\ ~Resting(r)
  BY <1>1, FitsNow DEF Resting
<1>3. PICK q : Moved(q) /\ Become(r, q)
  <2>1. CASE Become(r, [run[r] EXCEPT !.pc = "planned"])
    <3> DEFINE q == [run[r] EXCEPT !.pc = "planned"]
    <3>1. /\ q.pc = "planned" /\ q.plan = run[r].plan /\ q.buf = run[r].buf /\ q.keys = run[r].keys
          /\ q.over = run[r].over /\ q.at = run[r].at
      BY RunFields, GotoIs
    <3> HIDE DEF q
    <3>2. Moved(q)
      BY <1>2, <3>1 DEF Course
    <3> QED
      BY <2>1, <3>2 DEF q
  <2>2. CASE run[r].plan.cover = {} /\ Become(r, [run[r] EXCEPT !.pc = "raised"])
    <3> DEFINE q == [run[r] EXCEPT !.pc = "raised"]
    <3>1. /\ q.pc = "raised" /\ q.plan = run[r].plan /\ q.buf = run[r].buf /\ q.keys = run[r].keys
          /\ q.over = run[r].over /\ q.at = run[r].at
      BY RunFields, GotoIs
    <3> HIDE DEF q
    <3>2. Moved(q)
      BY <1>2, <2>2, <3>1 DEF Course
    <3> QED
      BY <2>2, <3>2 DEF q
  <2>3. CASE run[r].plan.kind = "force" /\ Become(r, Planned(run[r], keys, Overwrites(r)))
    <3> DEFINE q == Planned(run[r], keys, Overwrites(r))
    <3>1. Overwrites(r) \subseteq run[r].plan.cover
      BY DEF Overwrites
    <3>2. \A k \in keys : FitsKey(r, k)
      BY <1>1, <2>3, ReplacedFit
    <3> HIDE DEF keys
    <3>3. /\ q.pc = "planned" /\ q.plan = run[r].plan /\ q.buf = run[r].buf /\ q.keys = keys
          /\ q.over = Overwrites(r) /\ q.at = run[r].at
      BY RunFields, PlannedIs
    <3> HIDE DEF q
    <3>4. Moved(q)
      BY <3>1, <3>2, <3>3
    <3> QED
      BY <2>3, <3>4 DEF q
  <2> HIDE DEF Moved
  <2> QED
    BY <2>1, <2>2, <2>3 DEF PlanReplacement, Planned
<1> HIDE DEF keys
<1>4. run'[r] = q /\ \A o \in Runs \ {r} : run'[o] = run[o]
  BY <1>3, RunEffect
<1>5. Moves(r)
  BY <1>1, <1>2, <1>3, <1>4, MoverAlone, RunFields DEF Moves, PlanReplacement, Settled, At
<1>6. Fits(r)'
  <2>1. EventsOf(r)' = EventsOf(r)
    BY <1>1, <1>3, <1>4 DEF EventsOf
  <2>2. Limit(r) = meta[r].at /\ (Limit(r)' = meta[r].at \/ Limit(r)' = now)
    BY <1>1, <1>3, <1>4 DEF Limit
  <2>3. meta[r].at <= now /\ meta[r].at \in Nat /\ now \in Nat
    BY <1>1, <1>2, RunFields DEF Course, IsLatest, MetaType
  <2>4. Limit(r) \in Nat /\ Limit(r)' \in Nat /\ Limit(r) <= Limit(r)'
    BY <2>2, <2>3
  <2> QED
    BY <1>1, <1>3, <1>4, <1>5, <2>1, <2>4, FitsAtWork, MoverStays
<1>7. Course(r)'
  <2>1. \A k : FitsKey(r, k) => FitsKey(r, k)'
    BY <1>3, <1>4, <1>5, MoverKeys
  <2>2. \A k \in run'[r].keys : FitsKey(r, k)'
    BY <1>3, <1>4, <2>1
  <2>3. IsLatest(meta[r].at)'
    <3>1. Settled' \ {r} = Settled /\ r \notin Settled'
      BY <1>3, <1>4, <1>5, MovesSettled DEF Settled, At
    <3>2. IsLatest(meta[r].at)
      BY <1>1, <1>2 DEF Course
    <3> QED
      BY <1>1, <3>1, <3>2 DEF IsLatest
  <2>4. run'[r].plan = run[r].plan /\ run'[r].buf = run[r].buf /\ run'[r].at = run[r].at
    BY <1>3, <1>4
  <2>5. /\ run'[r].pc \in {"planned", "raised"} /\ run'[r].over \subseteq run[r].plan.cover
        /\ run'[r].pc = "raised" => run[r].plan.cover = {}
    BY <1>3, <1>4
  <2> QED
    BY <1>1, <1>2, <2>2, <2>3, <2>4, <2>5 DEF Course, At, Resting
<1> QED
  BY <1>5, <1>6, <1>7, MovingKeepsTurn

LEMMA RecordSpansInTurn ==
  ASSUME LedgerInv, LedgerInv', InTurn, Fitting, NEW r \in Runs, RecordSpans(r), load' = load
  PROVE  TurnInv'
<1>1. run[r].pc = "planned" /\ UNCHANGED <<seg, meta, latest, cpt>>
  BY DEF RecordSpans, At
<1>2. Course(r) /\ ~Resting(r) /\ \A q \in Settled : meta[q].at <= now
  BY <1>1, FitsNow DEF Resting
<1>3. /\ now \in Nat /\ Clock = now + 1 /\ meta[r].at \in Nat /\ meta[r].at <= now
      /\ \A q \in Settled : meta[q].at < meta[r].at
      /\ run[r].over \subseteq run[r].plan.cover /\ run[r].buf = <<>>
  BY <1>1, <1>2, RunFields DEF Clock, Course, IsLatest, MetaType
<1>4. Limit(r) = meta[r].at
  BY <1>1 DEF Limit
<1>5. PICK e : e = SpanEvent(r, Span(r, run[r].plan.cover, run[r].over, Clock))
  OBVIOUS
<1>6. CASE RecordsSpan(r) /\ Tick /\ Become(r, Buffered(run[r], "recorded", run[r].buf \o <<e>>))
  <2> DEFINE ev == run[r].buf \o <<e>>
             p == Buffered(run[r], "recorded", ev)
  <2>1. /\ e.kind = "span" /\ e.key = r /\ e.rec.status = "active" /\ e.rec.run = r
        /\ e.rec.ranges = run[r].plan.cover /\ e.rec.over = run[r].over /\ e.rec.time = Clock
    BY <1>5 DEF SpanEvent, Span
  <2>2. run[r].plan.cover # {} /\ run[r].plan.kind # "delete"
    BY <1>3, <1>6, RunFields DEF RecordsSpan, SpanIsKept
  <2>3. ev \in Seq(Event) /\ Range(ev) \subseteq Range(run[r].buf) \cup {e}
    BY <1>5, RunFields, OwnSpan, RangeMore
  <2> HIDE DEF ev
  <2>4. /\ p.pc = "recorded" /\ p.plan = run[r].plan /\ p.buf = ev /\ p.keys = run[r].keys
        /\ p.over = run[r].over /\ p.at = run[r].at
    BY RunFields, BufferedIs
  <2>5. Become(r, p) /\ now' = Clock
    BY <1>6 DEF Tick, ev
  <2> HIDE DEF p
  <2>6. run'[r] = p /\ \A q \in Runs \ {r} : run'[q] = run[q]
    BY <2>5, RunEffect
  <2>7. Moves(r)
    BY <1>1, <1>2, <1>3, <2>4, <2>5, <2>6, MoverAlone DEF Moves, Settled, At
  <2>8. Limit(r)' = Clock
    BY <2>4, <2>5, <2>6 DEF Limit
  <2>9. EventFits(r, e)'
    <3>1. \A q \in Earlier(r)' : meta'[q].at < Clock
      <4>1. \A q \in Settled : meta[q].at \in Nat
        BY RunFields DEF Settled, MetaType
      <4> QED
        BY <1>1, <1>2, <1>3, <2>7, <4>1, MoverEarlier
    <3>2. FitsSpan(r, e)'
      BY <1>3, <2>1, <2>2, <2>4, <2>6, <2>8, <3>1 DEF FitsSpan
    <3> QED
      BY <2>1, <3>2 DEF EventFits
  <2>10. EventsOf(r)' \subseteq EventsOf(r) \cup {e}
    BY <1>1, <2>3, <2>4, <2>6 DEF EventsOf
  <2>11. Fits(r)'
    <3>1. Limit(r) \in Nat /\ Limit(r)' \in Nat /\ Limit(r) <= Limit(r)'
      BY <1>3, <1>4, <2>8
    <3> QED
      BY <1>1, <2>4, <2>6, <2>7, <2>9, <2>10, <3>1, FitsAtWork, MoverFitsOne
  <2>12. Course(r)'
    <3>1. \A k : FitsKey(r, k) => FitsKey(r, k)'
      BY <2>4, <2>6, <2>7, MoverKeys
    <3> QED
      BY <1>1, <1>2, <2>4, <2>6, <3>1 DEF Course, At, Resting
  <2> QED
    BY <2>7, <2>11, <2>12, MovingKeepsTurn
<1>7. CASE UNCHANGED now /\ Goto(r, IF run[r].keys # {} THEN "recorded" ELSE "ended")
  <2> DEFINE l == IF run[r].keys # {} THEN "recorded" ELSE "ended"
  <2>1. l \in {"recorded", "ended"} /\ Goto(r, l) /\ now' = now
    BY <1>7
  <2> HIDE DEF l
  <2>2. /\ run'[r].pc = l /\ run'[r].plan = run[r].plan /\ run'[r].buf = run[r].buf
        /\ run'[r].keys = run[r].keys /\ run'[r].over = run[r].over /\ run'[r].at = run[r].at
        /\ \A q \in Runs \ {r} : run'[q] = run[q]
    BY <2>1, GotoFields
  <2>3. Moves(r)
    BY <1>1, <1>2, <1>3, <2>1, <2>2, MoverAlone DEF Moves, Settled, At
  <2>4. Fits(r)'
    <3>1. EventsOf(r)' = EventsOf(r)
      BY <1>1, <2>2 DEF EventsOf
    <3>2. Limit(r)' = meta[r].at \/ Limit(r)' = now
      BY <1>1, <2>1, <2>2 DEF Limit
    <3>3. Limit(r) \in Nat /\ Limit(r)' \in Nat /\ Limit(r) <= Limit(r)'
      BY <1>3, <1>4, <3>2
    <3> QED
      BY <1>1, <2>2, <2>3, <3>1, <3>3, FitsAtWork, MoverStays
  <2>5. Course(r)'
    <3>1. \A k : FitsKey(r, k) => FitsKey(r, k)'
      BY <2>2, <2>3, MoverKeys
    <3>2. meta'[r].status = "complete"
      BY <1>1, <1>2 DEF Course
    <3> QED
      BY <1>1, <1>2, <2>1, <2>2, <3>1, <3>2 DEF Course, At, Resting
  <2> QED
    BY <2>3, <2>4, <2>5, MovingKeepsTurn
<1> QED
  BY <1>5, <1>6, <1>7 DEF RecordSpans, Buffered

LEMMA SealReplacementInTurn ==
  ASSUME LedgerInv, LedgerInv', InTurn, Fitting, NEW r \in Runs, SealReplacement(r), load' = load
  PROVE  TurnInv'
<1> PICK e : e = ReplacementEvent(run[r].keys)
  OBVIOUS
<1> DEFINE ev == run[r].buf \o <<e>>
           p == Emptied(run[r], "rewriting")
<1>1. e.kind = "replacement" /\ e.keys = run[r].keys
  BY DEF ReplacementEvent
<1>2. ev \in Seq(Event) /\ Range(ev) \subseteq Range(run[r].buf) \cup {e}
  BY RunFields, ReplacementEvents, RangeMore
<1>3. /\ Become(r, p) /\ Append1(r, ev) /\ run[r].pc = "recorded" /\ now' = now
      /\ PutMeta(r, "complete", 0)
  BY DEF SealReplacement, At, Emptied
<1> HIDE DEF ev
<1>4. /\ p.pc = "rewriting" /\ p.plan = run[r].plan /\ p.buf = <<>> /\ p.keys = run[r].keys
      /\ p.over = run[r].over /\ p.at = run[r].at
  BY RunFields, EmptiedIs
<1> HIDE DEF p
<1>5. run'[r] = p /\ \A q \in Runs \ {r} : run'[q] = run[q]
  BY <1>3, RunEffect
<1>6. /\ Range(seg'[r]) \subseteq Range(seg[r]) \cup Range(ev)
      /\ \A q \in Runs \ {r} : seg'[q] = seg[q]
  BY <1>2, <1>3, SegEffect
<1>7. \A q \in Runs \ {r} : meta'[q] = meta[q]
  BY <1>3, MetaEffect
<1>8. Moves(r)
  BY <1>3, <1>4, <1>5, <1>6, <1>7, MoverAlone, RunFields DEF Moves, SealReplacement, Settled, At, Resting
<1>9. Course(r) /\ \A k : FitsKey(r, k) => FitsKey(r, k)'
  BY <1>4, <1>5, <1>8, FitsNow, MoverKeys
<1>10. run[r].at = 0 /\ \A k \in run[r].keys : FitsKey(r, k)'
  BY <1>3, <1>9 DEF Course, Resting
<1>11. Fits(r)'
  <2>1. EventsOf(r)' \subseteq EventsOf(r) \cup {e}
    BY <1>2, <1>4, <1>5, <1>6, RangeOne DEF EventsOf
  <2>2. EventFits(r, e)'
    BY <1>1, <1>10 DEF EventFits
  <2>3. Limit(r) = now /\ Limit(r)' = now /\ now \in Nat
    BY <1>3, <1>4, <1>5, <1>10, RunFields DEF Limit
  <2>4. Limit(r) \in Nat /\ Limit(r)' \in Nat /\ Limit(r) <= Limit(r)'
    BY <2>3
  <2> QED
    BY <1>3, <1>4, <1>5, <1>8, <2>1, <2>2, <2>4, FitsAtWork, MoverFitsOne
<1>12. Course(r)'
  BY <1>3, <1>4, <1>5, <1>9, <1>10 DEF Course, At, Resting
<1> QED
  BY <1>8, <1>11, <1>12, MovingKeepsTurn

LEMMA SealSpansInTurn ==
  ASSUME LedgerInv, LedgerInv', InTurn, Fitting, NEW r \in Runs, SealSpans(r), load' = load
  PROVE  TurnInv'
<1> DEFINE p == [run[r] EXCEPT !.pc = "rewriting", !.buf = <<>>, !.at = Clock]
<1>1. /\ Become(r, p) /\ Append1(r, run[r].buf) /\ run[r].pc = "recorded" /\ now' = Clock
      /\ PutMeta(r, "complete", 0)
  BY DEF SealSpans, At, Tick
<1>2. /\ p.pc = "rewriting" /\ p.plan = run[r].plan /\ p.buf = <<>> /\ p.keys = run[r].keys
      /\ p.over = run[r].over /\ p.at = Clock
  BY RunFields DEF RunType
<1> HIDE DEF p
<1>3. run'[r] = p /\ \A q \in Runs \ {r} : run'[q] = run[q]
  BY <1>1, RunEffect
<1>4. /\ Range(seg'[r]) \subseteq Range(seg[r]) \cup Range(run[r].buf)
      /\ \A q \in Runs \ {r} : seg'[q] = seg[q]
  BY <1>1, RunFields, SegEffect
<1>5. \A q \in Runs \ {r} : meta'[q] = meta[q]
  BY <1>1, MetaEffect
<1>6. now \in Nat /\ Clock = now + 1
  BY RunFields DEF Clock
<1>7. Moves(r)
  BY <1>1, <1>2, <1>3, <1>4, <1>5, <1>6, MoverAlone DEF Moves, SealSpans, Settled, At, Resting
<1>8. Course(r) /\ \A k : FitsKey(r, k) => FitsKey(r, k)'
  BY <1>2, <1>3, <1>7, FitsNow, MoverKeys
<1>9. Fits(r)'
  <2>1. EventsOf(r)' \subseteq EventsOf(r)
    BY <1>2, <1>3, <1>4, RangeOne DEF EventsOf
  <2>2. Limit(r) = now /\ Limit(r)' = Clock
    BY <1>1, <1>2, <1>3, <1>6 DEF Limit
  <2>3. Limit(r) \in Nat /\ Limit(r)' \in Nat /\ Limit(r) <= Limit(r)'
    BY <1>6, <2>2
  <2> QED
    BY <1>1, <1>2, <1>3, <1>7, <2>1, <2>3, FitsAtWork, MoverStays
<1>10. IsLatest(run[r].at)'
  <2>1. Settled' \ {r} = Settled /\ Grows /\ r \notin Settled'
    BY <1>2, <1>3, <1>7, MovesSettled DEF Settled, At
  <2>2. \A q \in Settled : meta[q].at \in Nat /\ meta[q].at <= now
    BY FitsNow, RunFields DEF Settled, MetaType
  <2> QED
    BY <1>1, <1>2, <1>3, <1>6, <2>1, <2>2 DEF IsLatest, Grows
<1>11. Course(r)'
  BY <1>1, <1>2, <1>3, <1>8, <1>10 DEF Course, At, Resting
<1> QED
  BY <1>7, <1>9, <1>11, MovingKeepsTurn

LEMMA RewriteMetaInTurn ==
  ASSUME LedgerInv, LedgerInv', InTurn, Fitting, NEW r \in Runs, RewriteMeta(r), load' = load
  PROVE  TurnInv'
<1>1. run[r].pc = "rewriting" /\ Goto(r, "ended") /\ UNCHANGED <<seg, latest, cpt>>
  BY DEF RewriteMeta, At
<1>2. /\ run'[r].pc = "ended" /\ run'[r].plan = run[r].plan /\ run'[r].buf = run[r].buf
      /\ run'[r].keys = run[r].keys /\ run'[r].over = run[r].over /\ run'[r].at = run[r].at
      /\ \A q \in Runs \ {r} : run'[q] = run[q]
  BY <1>1, GotoFields
<1>3. Course(r) /\ \A q \in Settled : meta[q].at \in Nat /\ meta[q].at <= now
  BY FitsNow, RunFields DEF Settled, MetaType
<1>4. now \in Nat /\ Clock = now + 1 /\ run[r].at \in Nat
  BY RunFields DEF Clock
<1>5. PICK t \in Nat : /\ PutMeta(r, "complete", t) /\ Limit(r) <= t /\ t <= now' /\ now <= now'
                       /\ \A q \in Settled : meta[q].at < t
  <2>1. CASE run[r].at = 0 /\ Tick /\ PutMeta(r, "complete", Clock)
    <3>1. Limit(r) = now
      BY <1>1, <2>1 DEF Limit
    <3>2. \A q \in Settled : meta[q].at < Clock
      BY <1>3, <1>4
    <3> QED
      BY <1>4, <2>1, <3>1, <3>2 DEF Tick
  <2>2. CASE run[r].at # 0 /\ PutMeta(r, "complete", run[r].at) /\ UNCHANGED now
    <3>1. Limit(r) = run[r].at
      BY <1>1, <2>2 DEF Limit
    <3>2. run[r].at <= now /\ \A q \in Settled : meta[q].at < run[r].at
      BY <1>1, <1>3, <2>2 DEF Course, At, IsLatest
    <3> QED
      BY <1>4, <2>2, <3>1, <3>2
  <2> QED
    BY <2>1, <2>2 DEF RewriteMeta
<1>6. /\ meta'[r].status = "complete" /\ meta'[r].at = t
      /\ \A q \in Runs \ {r} : meta'[q] = meta[q]
  BY <1>5, MetaEffect
<1>7. Moves(r)
  BY <1>1, <1>2, <1>5, <1>6, MoverAlone DEF Moves, Settled, At, Resting
<1>8. Fits(r)'
  <2>1. EventsOf(r)' = EventsOf(r)
    BY <1>1, <1>2 DEF EventsOf
  <2>2. Limit(r)' = t
    BY <1>2, <1>6 DEF Limit
  <2>3. Limit(r) \in Nat /\ Limit(r)' \in Nat /\ Limit(r) <= Limit(r)'
    BY <1>5, <2>2, LimitIsTime
  <2> QED
    BY <1>1, <1>2, <1>7, <2>1, <2>3, FitsAtWork, MoverStays
<1>9. Course(r)'
  BY <1>1, <1>2, <1>3, <1>6 DEF Course, At, Resting
<1> QED
  BY <1>7, <1>8, <1>9, MovingKeepsTurn

LEMMA RaisesInTurn ==
  ASSUME LedgerInv, LedgerInv', InTurn, Fitting, NEW r \in Runs, Raises(r), load' = load
  PROVE  TurnInv'
<1>1. /\ Goto(r, "raised") /\ UNCHANGED <<now, seg, meta, latest, cpt>>
      /\ run[r].pc \in {"writing", "sealed", "terminal", "planned", "recorded", "rewriting"}
  BY DEF Raises
<1>2. /\ run'[r].pc = "raised" /\ run'[r].plan = run[r].plan /\ run'[r].buf = run[r].buf
      /\ run'[r].keys = run[r].keys /\ run'[r].over = run[r].over /\ run'[r].at = run[r].at
      /\ \A q \in Runs \ {r} : run'[q] = run[q]
  BY <1>1, GotoFields
<1>3. Moves(r)
  BY <1>1, <1>2, MoverAlone, RunFields DEF Moves, Settled, At, Resting
<1>4. Failed(r)'
  BY <1>2 DEF Failed, At
<1>5. Course(r)'
  <2>1. Course(r) /\ \A k : FitsKey(r, k) => FitsKey(r, k)'
    BY <1>2, <1>3, FitsNow, MoverKeys
  <2>2. run'[r].over \subseteq run'[r].plan.cover /\ \A k \in run'[r].keys : FitsKey(r, k)'
    BY <1>1, <1>2, <2>1 DEF Course, Resting
  <2> QED
    BY <1>2, <2>2 DEF Course, At
<1> QED
  BY <1>3, <1>4, <1>5, MovingKeepsTurn

LEMMA RecordFailureInTurn ==
  ASSUME LedgerInv, LedgerInv', InTurn, Fitting, NEW r \in Runs, RecordFailure(r), load' = load
  PROVE  TurnInv'
<1> DEFINE ev == run[r].buf \o <<TerminalEvent("failed")>>
           p == Emptied(run[r], "ended")
<1>1. /\ Become(r, p) /\ Append1(r, ev) /\ PutMeta(r, "failed", now) /\ run[r].pc = "raised"
      /\ UNCHANGED <<now, latest, cpt>>
  BY DEF RecordFailure, At, Emptied
<1>2. p.pc = "ended" /\ p.buf = <<>> /\ p.at = run[r].at
  BY RunFields, EmptiedIs
<1>3. run'[r] = p /\ \A q \in Runs \ {r} : run'[q] = run[q]
  BY <1>1, RunEffect
<1>4. \A q \in Runs \ {r} : seg'[q] = seg[q]
  BY <1>1 DEF Append1, LedgerInv, TypeOK
<1>5. meta'[r].status = "failed" /\ \A q \in Runs \ {r} : meta'[q] = meta[q]
  BY <1>1, MetaEffect
<1> HIDE DEF p
<1>6. Moves(r)
  <2>1. r \notin Settled /\ r \notin Settled'
    BY <1>1, <1>5 DEF Settled, At
  <2>2. (\A q \in Runs \ {r} : Resting(q)) /\ \A c \in Compactors : cpt[c].pc = "idle"
    BY <1>1, MoverAlone DEF Resting
  <2> QED
    BY <1>1, <1>3, <1>4, <1>5, <2>1, <2>2, RunFields DEF Moves
<1>7. Failed(r)'
  BY <1>2, <1>3, <1>5 DEF Failed, At
<1>8. Course(r)'
  BY <1>2, <1>3 DEF Course, At, Resting
<1> QED
  BY <1>6, <1>7, <1>8, MovingKeepsTurn

\* After a death, or a failure left unrecorded, nothing is said any more.
LEMMA DeathEndsTurn ==
  ASSUME LedgerInv, InTurn', NEW r \in Runs
  PROVE  ~(FailureUnrecorded(r) \/ Crash(r))
<1> SUFFICES ASSUME NEW p, Become(r, p), p.pc = "crashed" PROVE FALSE
  <2> DEFINE p == [run[r] EXCEPT !.pc = "crashed", !.buf = <<>>]
  <2>1. p.pc = "crashed"
    BY RunFields DEF RunType
  <2>2. FailureUnrecorded(r) \/ Crash(r) => Become(r, p)
    BY DEF FailureUnrecorded, Crash
  <2> HIDE DEF p
  <2> QED
    BY <2>1, <2>2
<1>1. run'[r] = p
  BY RunEffect
<1> QED
  BY <1>1 DEF InTurn, At

-----------------------------------------------------------------------------
(* Each step of a compactor.                                               *)

\* While nothing of a run moves, all that fits the runs goes on fitting them.
LEMMA RunsStay ==
  ASSUME LedgerInv, RunsFit, UNCHANGED <<now, run, seg, meta>>
  PROVE  Settled' = Settled /\ Grows /\ RunsFit'
<1>1. Settled' = Settled /\ Grows
  BY DEF Settled, At, Grows
<1>2. InOrder'
  BY <1>1 DEF RunsFit, InOrder
<1>3. ASSUME NEW q \in Runs PROVE (Failed(q)' \/ Fits(q)') /\ Course(q)'
  <2>1. (Failed(q) \/ Fits(q)) /\ Course(q)
    BY DEF RunsFit
  <2>2. Earlier(q)' = Earlier(q)
    BY <1>1 DEF Earlier
  <2>3. Keeps(q)
    BY <2>2 DEF Keeps
  <2>4. Limit(q)' = Limit(q) /\ Limit(q) \in Nat
    BY LimitIsTime DEF Limit
  <2>5. EventsOf(q)' = EventsOf(q)
    BY DEF EventsOf
  <2>6. \A e \in EventsOf(q) : e \in Event /\ (Fits(q) => EventFits(q, e))
    BY RunFields DEF Fits, EventsOf, Range
  <2>7. ASSUME Fits(q), NEW e \in EventsOf(q) PROVE EventFits(q, e)'
    <3>1. Limit(q) \in Nat /\ Limit(q)' \in Nat /\ Limit(q) <= Limit(q)'
      BY <2>4
    <3> QED
      BY <1>1, <2>3, <2>6, <2>7, <3>1, EventStays
  <2>8. Failed(q)' \/ Fits(q)'
    <3>1. CASE Failed(q)
      BY <3>1 DEF Failed, At
    <3>2. CASE Fits(q)
      BY <2>5, <2>7, <3>2 DEF Fits
    <3> QED
      BY <2>1, <3>1, <3>2
  <2>9. \A k : FitsKey(q, k) => FitsKey(q, k)'
    BY <1>1, <2>3, KeyStays
  <2>10. \A t : IsLatest(t)' <=> IsLatest(t)
    BY <1>1 DEF IsLatest
  <2>11. Course(q)'
    <3>1. ~Resting(q)' => run'[q].over \subseteq run'[q].plan.cover
                         /\ \A k \in run'[q].keys : FitsKey(q, k)'
      BY <2>1, <2>9 DEF Course, Resting
    <3>2. /\ run'[q].pc \in {"terminal", "planned"} =>
                meta'[q].status = "complete" /\ IsLatest(meta[q].at)'
          /\ At(q, "rewriting")' /\ run'[q].at # 0 => IsLatest(run[q].at)'
      BY <2>1, <2>10 DEF Course, At
    <3> QED
      BY <2>1, <3>1, <3>2 DEF Course, At, IsLatest
  <2> QED
    BY <2>8, <2>11
<1> QED
  BY <1>1, <1>2, <1>3 DEF RunsFit

LEMMA StutterKeepsTurn ==
  ASSUME LedgerInv, InTurn, Fitting, UNCHANGED <<load, now, run, seg, meta, latest, cpt>>
  PROVE  TurnInv'
<1>1. Settled' = Settled /\ Grows /\ RunsFit'
  BY RunsStay DEF Fitting
<1>2. TurnsKept'
  BY DEF Fitting, TurnsKept, Resting
<1>3. \A p \in Caches' : CacheFits(p)'
  <2>1. Caches' = Caches
    BY DEF Caches
  <2> QED
    BY <1>1, <2>1, CacheStays DEF Fitting
<1>4. \A c \in Compactors : ListingFits(c)'
  <2>1. Entries(Settled)' = Entries(Settled)
    BY <1>1 DEF Entries
  <2> QED
    BY <1>1, <2>1 DEF Fitting, ListingFits
<1> QED
  BY <1>1, <1>2, <1>3, <1>4 DEF TurnInv, Fitting

LEMMA CompactorKeepsTurn ==
  ASSUME LedgerInv, LedgerInv', InTurn, Fitting, NEW c \in Compactors, NEW s, SetCpt(c, s),
         UNCHANGED <<load, now, run, seg, meta>>,
         \A r \in Runs : Resting(r), \A d \in Compactors \ {c} : cpt[d].pc = "idle",
         latest' = NoPointer \/ CacheFits(latest'),
         s.pc = "projected" => CacheFits(s.pointer),
         s.pc = "reading" => /\ s.entries \subseteq Entries(Settled)
                             /\ \A q \in Settled : q \in s.todo \/ <<q, meta[q].at>> \in s.entries
  PROVE  TurnInv'
<1>1. cpt'[c] = s /\ \A d \in Compactors \ {c} : cpt'[d] = cpt[d]
  BY DEF SetCpt, LedgerInv, TypeOK
<1>2. Settled' = Settled /\ Grows
  BY DEF Settled, At, Grows
<1>3. TurnsKept'
  <2>1. \A r \in Runs : Resting(r)'
    BY DEF Resting
  <2>2. \A d \in Compactors \ {c} : cpt'[d].pc = "idle"
    BY <1>1
  <2> QED
    BY <2>1, <2>2 DEF TurnsKept
<1>4. RunsFit'
  BY RunsStay DEF Fitting
<1>5. ASSUME NEW p \in Caches' PROVE CacheFits(p)'
  <2>1. CacheFits(p)
    <3>1. p = latest' \/ \E d \in Compactors : cpt'[d].pc = "projected" /\ p = cpt'[d].pointer
      BY DEF Caches
    <3>2. \A d \in Compactors \ {c} : cpt'[d].pc # "projected"
      BY <1>1
    <3>3. p # NoPointer
      BY DEF Caches
    <3>4. p = latest' \/ (s.pc = "projected" /\ p = s.pointer)
      BY <1>1, <3>1, <3>2
    <3> QED
      BY <3>3, <3>4
  <2> QED
    BY <1>2, <2>1, CacheStays
<1>6. ASSUME NEW d \in Compactors PROVE ListingFits(d)'
  <2>1. Entries(Settled)' = Entries(Settled)
    BY <1>2 DEF Entries
  <2>2. CASE d = c
    BY <1>1, <1>2, <2>1, <2>2 DEF ListingFits
  <2>3. CASE d # c
    BY <1>1, <2>3 DEF ListingFits
  <2> QED
    BY <2>2, <2>3
<1> QED
  BY <1>3, <1>4, <1>5, <1>6 DEF TurnInv, Fitting

\* What a compactor projects is what a full replay tells.
LEMMA ProjectionFits ==
  ASSUME LedgerInv, InTurn, Fitting, \A r \in Runs : Resting(r),
         NEW pointer,
         pointer.cutoff = MaxOf({0} \cup {e[2] : e \in Entries(Settled)}),
         pointer.records = ProjectEntries(Entries(Settled)),
         pointer.folded = Settled
  PROVE  CacheFits(pointer)
<1>1. RunsFit /\ Orderly /\ Complete = Settled
  BY RestIsOrderly DEF Fitting
<1>2. Entries(Settled) \in EntrySets
  BY EntriesTyped DEF LedgerInv, EntrySets, Settled
<1>3. /\ \A e \in Entries(Settled) : e[2] <= pointer.cutoff
      /\ pointer.cutoff = 0 \/ \E e \in Entries(Settled) : e[2] = pointer.cutoff
  BY <1>2, CutoffIsTime
<1>4. \A e \in Entries(Settled) : e[1] \in Settled /\ e[2] = meta[e[1]].at
  BY RunsOfEntries
<1>5. \A q \in Settled : meta[q].at <= pointer.cutoff
  <2> SUFFICES ASSUME NEW q \in Settled PROVE meta[q].at <= pointer.cutoff
    OBVIOUS
  <2>1. <<q, meta[q].at>> \in Entries(Settled)
    BY DEF Entries
  <2>2. <<q, meta[q].at>>[2] <= pointer.cutoff
    BY <1>3, <2>1
  <2> QED
    BY <2>2
<1>6. pointer.cutoff = 0 \/ \E q \in Settled : meta[q].at = pointer.cutoff
  BY <1>3, <1>4
<1>7. pointer.records = Replayed
  BY <1>1 DEF ProjectEntries, Replayed
<1>8. Reading(pointer.records, Settled)
  BY <1>1, <1>7, ReplayedTells
<1> QED
  BY <1>5, <1>6, <1>8 DEF CacheFits

LEMMA CompactInTurn ==
  ASSUME LedgerInv, LedgerInv', InTurn, Fitting, NEW c \in Compactors, CompactStep(c), load' = load
  PROVE  TurnInv'
<1>1. UNCHANGED <<load, now, run, seg, meta>>
  BY DEF CompactStep, AssertAllowed, ListEntries, ReadEntry, Project, Publish
<1>2. (\A r \in Runs : Resting(r)) /\ (\A d \in Compactors \ {c} : cpt[d].pc = "idle")
  <2>1. cpt[c].pc # "idle" \/ AtRest
    BY DEF CompactStep, AssertAllowed, ListEntries, ReadEntry, Project, Publish, Alone, InTurn
  <2> QED
    BY <2>1 DEF Fitting, TurnsKept, AtRest
<1>3. latest = NoPointer \/ CacheFits(latest)
  BY DEF Fitting, Caches
<1>4. Complete = Settled
  BY <1>2, RestIsOrderly DEF Fitting
<1>5. CASE AssertAllowed(c)
  <2>1. SetCpt(c, [pc |-> "allowed"]) /\ latest' = latest
    BY <1>5 DEF AssertAllowed
  <2> DEFINE s == [pc |-> "allowed"]
  <2>2. s.pc = "allowed" /\ SetCpt(c, s)
    BY <2>1
  <2> HIDE DEF s
  <2>3. latest' = NoPointer \/ CacheFits(latest')
    BY <1>3, <2>1
  <2> QED
    BY <1>1, <1>2, <2>2, <2>3, CompactorKeepsTurn
<1>6. CASE ListEntries(c)
  <2> DEFINE s == [pc |-> "reading", entries |-> {}, todo |-> {r \in Runs : meta[r].status # "none"}]
  <2>1. SetCpt(c, s) /\ latest' = latest
    BY <1>6 DEF ListEntries
  <2>2. s.pc = "reading" /\ s.entries \subseteq Entries(Settled) /\ \A q \in Settled : q \in s.todo
    BY DEF Settled
  <2> HIDE DEF s
  <2>3. latest' = NoPointer \/ CacheFits(latest')
    BY <1>3, <2>1
  <2> QED
    BY <1>1, <1>2, <2>1, <2>2, <2>3, CompactorKeepsTurn
<1>7. ASSUME NEW r \in Runs, ReadEntry(c, r) PROVE TurnInv'
  <2> DEFINE read == IF meta[r].status = "complete"
                     THEN cpt[c].entries \cup {<<r, meta[r].at>>} ELSE cpt[c].entries
             s == [cpt[c] EXCEPT !.todo = @ \ {r}, !.entries = read]
  <2>1. SetCpt(c, s) /\ latest' = latest /\ cpt[c].pc = "reading"
    BY <1>7 DEF ReadEntry
  <2>2. cpt[c] \in [pc : {"reading"}, entries : EntrySets, todo : SUBSET Runs]
    BY <2>1 DEF LedgerInv, TypeOK, CptType
  <2>3. /\ cpt[c].entries \subseteq Entries(Settled)
        /\ \A q \in Settled : q \in cpt[c].todo \/ <<q, meta[q].at>> \in cpt[c].entries
    BY <2>1 DEF Fitting, ListingFits
  <2>4. read \subseteq Entries(Settled)
    <3>1. meta[r].status = "complete" => r \in Settled
      BY <1>4 DEF Complete
    <3>2. r \in Settled => <<r, meta[r].at>> \in Entries(Settled)
      BY DEF Entries
    <3> QED
      BY <2>3, <3>1, <3>2
  <2>5. \A q \in Settled : q \in cpt[c].todo \ {r} \/ <<q, meta[q].at>> \in read
    BY <2>3 DEF Settled
  <2> HIDE DEF read
  <2>6. s.pc = "reading" /\ s.entries = read /\ s.todo = cpt[c].todo \ {r}
    BY <2>2
  <2> HIDE DEF s
  <2>7. latest' = NoPointer \/ CacheFits(latest')
    BY <1>3, <2>1
  <2>8. /\ s.entries \subseteq Entries(Settled)
        /\ \A q \in Settled : q \in s.todo \/ <<q, meta[q].at>> \in s.entries
        /\ s.pc # "projected"
    BY <2>4, <2>5, <2>6
  <2> QED
    BY <1>1, <1>2, <2>1, <2>7, <2>8, CompactorKeepsTurn
<1>8. CASE Project(c)
  <2> DEFINE entries == cpt[c].entries
             pointer == [cutoff |-> MaxOf({0} \cup {e[2] : e \in entries}),
                         records |-> ProjectEntries(entries),
                         folded |-> {e[1] : e \in entries}]
             s == [pc |-> "projected", pointer |-> pointer]
  <2>1. SetCpt(c, s) /\ latest' = latest /\ cpt[c].pc = "reading" /\ cpt[c].todo = {}
    BY <1>8 DEF Project
  <2>2. entries = Entries(Settled)
    <3>1. /\ entries \subseteq Entries(Settled)
          /\ \A q \in Settled : <<q, meta[q].at>> \in entries
      BY <2>1 DEF Fitting, ListingFits
    <3>2. Entries(Settled) \subseteq entries
      BY <3>1 DEF Entries
    <3> QED
      BY <3>1, <3>2
  <2>3. RunsOf(Entries(Settled)) = Settled
    BY RunsOfEntries
  <2>4. /\ pointer.cutoff = MaxOf({0} \cup {e[2] : e \in Entries(Settled)})
        /\ pointer.records = ProjectEntries(Entries(Settled))
        /\ pointer.folded = Settled
    BY <2>2, <2>3 DEF RunsOf
  <2> HIDE DEF pointer
  <2>5. CacheFits(pointer)
    BY <1>2, <2>4, ProjectionFits
  <2>6. s.pc = "projected" /\ CacheFits(s.pointer)
    BY <2>5
  <2> HIDE DEF s
  <2>7. latest' = NoPointer \/ CacheFits(latest')
    BY <1>3, <2>1
  <2>8. s.pc # "reading"
    BY <2>6
  <2> QED
    BY <1>1, <1>2, <2>1, <2>6, <2>7, <2>8, CompactorKeepsTurn
<1>9. CASE Publish(c)
  <2> DEFINE s == [pc |-> "idle"]
  <2>1. SetCpt(c, s) /\ latest' = cpt[c].pointer /\ cpt[c].pc = "projected"
    BY <1>9 DEF Publish
  <2>2. s.pc = "idle"
    OBVIOUS
  <2> HIDE DEF s
  <2>3. cpt[c].pointer = NoPointer \/ CacheFits(cpt[c].pointer)
    BY <2>1 DEF Fitting, Caches
  <2>4. latest' = NoPointer \/ CacheFits(latest')
    BY <2>1, <2>3
  <2> QED
    BY <1>1, <1>2, <2>1, <2>2, <2>4, CompactorKeepsTurn
<1> QED
  BY <1>5, <1>6, <1>7, <1>8, <1>9 DEF CompactStep

-----------------------------------------------------------------------------
(* Loads in turn.                                                          *)

LEMMA InitInTurn == Init => TurnInv
<1> SUFFICES ASSUME Init PROVE Fitting
  BY DEF TurnInv
<1>1. /\ \A r \in Runs : /\ run[r].pc = "new" /\ run[r].buf = <<>> /\ run[r].at = 0
                         /\ seg[r] = <<>> /\ meta[r].status = "none"
      /\ \A c \in Compactors : cpt[c].pc = "idle"
      /\ latest = NoPointer
  BY DEF Init, Idle, Meta
<1>2. Settled = {}
  BY <1>1 DEF Settled, At
<1>3. TurnsKept /\ InOrder /\ \A c \in Compactors : ListingFits(c)
  BY <1>1, <1>2 DEF TurnsKept, Resting, InOrder, ListingFits
<1>4. Caches = {}
  BY <1>1 DEF Caches
<1>5. ASSUME NEW r \in Runs PROVE Fits(r) /\ Course(r)
  <2>1. EventsOf(r) = {}
    BY <1>1, RangeOne DEF EventsOf
  <2>2. Fits(r)
    BY <2>1 DEF Fits
  <2>3. Course(r)
    BY <1>1 DEF Course, At, Resting
  <2> QED
    BY <2>2, <2>3
<1> QED
  BY <1>3, <1>4, <1>5 DEF Fitting, RunsFit

\* Loads stay in turn at most: who died stays dead.
LEMMA TurnBefore == LedgerInv /\ load' = load /\ [Next]_vars /\ InTurn' => InTurn
<1> SUFFICES ASSUME LedgerInv, load' = load, [Next]_vars, NEW q \in Runs, run[q].pc = "crashed"
             PROVE  run'[q].pc = "crashed"
  BY DEF InTurn, At
<1>1. load.runs \subseteq Runs
  BY LedgerAssumption DEF LedgerInv, TypeOK
<1>2. ASSUME NEW r \in Runs, RunStep(r) PROVE run'[q].pc = "crashed"
  <2>1. CASE run' = run
    BY <2>1
  <2>2. ASSUME NEW p, Become(r, p), r # q PROVE run'[q].pc = "crashed"
    BY <2>2, RunEffect
  <2>3. r = q => run' = run
    BY <1>2 DEF RunStep, StartIngest, RecordBatch, StartDelete, SealComplete, FinalizeComplete,
       PlanReplacement, RecordSpans, SealReplacement, SealSpans, RewriteMeta, Raises,
       RecordFailure, FailureUnrecorded, Crash, Abandon, At, Resting
  <2>4. run' = run \/ \E p : Become(r, p)
    BY <1>2 DEF RunStep, StartIngest, RecordBatch, StartDelete, SealComplete, FinalizeComplete,
       PlanReplacement, RecordSpans, SealReplacement, SealSpans, RewriteMeta, Raises,
       RecordFailure, FailureUnrecorded, Crash, Abandon, Goto
  <2> QED
    BY <2>1, <2>2, <2>3, <2>4
<1>3. ASSUME NEW c \in Compactors, CompactStep(c) PROVE run' = run
  BY <1>3 DEF CompactStep, AssertAllowed, ListEntries, ReadEntry, Project, Publish
<1>4. CASE UNCHANGED vars
  BY <1>4 DEF vars
<1> QED
  BY <1>1, <1>2, <1>3, <1>4 DEF Next

LEMMA NextKeepsTurn == LedgerInv /\ LedgerInv' /\ TurnInv /\ [Next]_vars => TurnInv'
<1> SUFFICES ASSUME LedgerInv, LedgerInv', TurnInv, [Next]_vars, InTurn' PROVE TurnInv'
  BY DEF TurnInv
<1>1. load' = load
  BY DEF Next, vars
<1>2. InTurn /\ Fitting
  BY <1>1, TurnBefore DEF TurnInv
<1>3. load.runs \subseteq Runs
  BY LedgerAssumption DEF LedgerInv, TypeOK
<1>4. ASSUME NEW r \in Runs, RunStep(r) PROVE TurnInv'
  <2>1. ASSUME NEW kind \in load.kinds, NEW cover \in Covers, StartIngest(r, kind, cover)
        PROVE  TurnInv'
    BY <1>1, <1>2, <2>1, StartIngestInTurn
  <2>2. ASSUME NEW k \in Runs, StartDelete(r, k) PROVE TurnInv'
    BY <1>1, <1>2, <2>2, StartDeleteInTurn
  <2>3. CASE RecordBatch(r) \/ SealComplete(r) \/ FinalizeComplete(r)
    BY <1>1, <1>2, <2>3, RecordBatchInTurn, SealCompleteInTurn, FinalizeCompleteInTurn
  <2>4. CASE PlanReplacement(r) \/ RecordSpans(r)
    BY <1>1, <1>2, <2>4, PlanReplacementInTurn, RecordSpansInTurn
  <2>5. CASE SealReplacement(r) \/ SealSpans(r) \/ RewriteMeta(r)
    BY <1>1, <1>2, <2>5, SealReplacementInTurn, SealSpansInTurn, RewriteMetaInTurn
  <2>6. CASE Raises(r) \/ RecordFailure(r)
    BY <1>1, <1>2, <2>6, RaisesInTurn, RecordFailureInTurn
  <2>7. ~(FailureUnrecorded(r) \/ Crash(r)) /\ ~Abandon(r)
    BY <1>2, DeathEndsTurn DEF InTurn, Abandon
  <2> QED
    BY <1>4, <2>1, <2>2, <2>3, <2>4, <2>5, <2>6, <2>7 DEF RunStep
<1>5. ASSUME NEW c \in Compactors, CompactStep(c) PROVE TurnInv'
  BY <1>1, <1>2, <1>5, CompactInTurn
<1>6. CASE UNCHANGED vars
  <2>1. UNCHANGED <<load, now, run, seg, meta, latest, cpt>>
    BY <1>6 DEF vars
  <2> QED
    BY <1>2, <2>1, StutterKeepsTurn
<1> QED
  BY <1>3, <1>4, <1>5, <1>6 DEF Next

LEMMA TurnHolds == Spec => [](LedgerInv /\ TurnInv)
BY InitHolds, NextKeepsInv, InitInTurn, NextKeepsTurn, PTL DEF Spec

\* Runs, deletions and rebuilds one after another, none of which dies or leaves its
\* failure unrecorded: the run that wrote a slot last keeps it in its active coverage, through the
\* cache and without it, until it is deleted itself, whatever was replaced or
\* overwritten in between (_replacement_plan, _apply_overwrite_ranges_to_active_coverage).
THEOREM LastWriterIsKept == Spec => []LastWriterKeepsSlot
BY TurnHolds, InvKeepsLast, PTL

\* In such a load a read through the cache agrees with the full replay as long as
\* no span that overwrote another was replaced, for every history before and after
\* the cache was built (load_current_state, rebuild_compact).
THEOREM CacheAgreesInTurn == Spec => []CacheAgreesUnlessRevoked
BY TurnHolds, InvAgrees, PTL
=============================================================================
