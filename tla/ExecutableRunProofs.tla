------------------------ MODULE ExecutableRunProofs ------------------------
(***************************************************************************)
(* Proofs about ExecutableRun, for any program, any weights and any number *)
(* of runs and faults: what a run issues is the program, the verdict is    *)
(* about this run, and the table of captured regions stays sound.          *)
(***************************************************************************)
EXTENDS ExecutableRun, SequenceTheorems, FiniteSetTheorems, TLAPS

Size == Len(Program)
Ops == [op : Nat, binding : Bindings]
Runs == [weights : Weights, profile : BOOLEAN, number : 0..MaxRuns]

\* The first n commands of a run.
Prefix(r, n) == SubSeq(Expected(r), 1, n)

\* A run is never inside a region: it is at the start of one, at an append,
\* or at its end.
Boundary(i) ==
    \/ i = 1
    \/ Program[i - 1].append
    \/ i <= Size => Program[i].append \/ Eligible(Program[i]) # Eligible(Program[i - 1])

RunInv ==
    /\ outcome = "running" =>
          /\ active /\ ~lost
          /\ run.number > 0
          /\ issued = Prefix(run, at - 1)
          /\ flag = tripped
          /\ Boundary(at)
    /\ outcome # "running" => ~active

\* The regions that can be captured, and what their commands are in a run
\* with these weights.
Firsts == {i \in 1..Size : FirstOfRegion(i)}
RegionKey(i, w) == Commands(i, RegionEnd(i), [weights |-> w, profile |-> FALSE, number |-> 0])

TableInv ==
    /\ \A i, j \in 1..Len(regions) : regions[i].key = regions[j].key => i = j
    /\ \A i \in 1..Len(regions) :
          /\ regions[i].exec \in {None, regions[i].key}
          /\ regions[i].disabled \/ regions[i].exec # None \/ lost
          /\ \E f \in Firsts, w \in Weights : regions[i].key = RegionKey(f, w)

\* The inductive invariant.
IInv == TypeOK /\ RunInv /\ VerdictTruthful /\ TableInv

-----------------------------------------------------------------------------
\* A set of natural numbers has a least element.
LEMMA LeastElement ==
    ASSUME NEW S \in SUBSET Nat, S # {}
    PROVE  \E x \in S : \A y \in S : x <= y
<1> DEFINE R == OpToRel(<, Nat)
<1>1. IsWellFoundedOn(R, Nat)
  BY NatLessThanWellFounded
<1>2. \A x, y \in Nat : y < x => <<y, x>> \in R
  BY DEF OpToRel
<1> HIDE DEF R
<1>3. PICK x \in S : \A y \in S : <<y, x>> \notin R
  BY <1>1, WFMin
<1>4. \A y \in S : ~(y < x)
  BY <1>2, <1>3, Zenon
<1>5. \A y \in S : x <= y
  BY <1>4
<1> QED BY <1>5

\* There is a last command of the region that starts at i.
LEMMA RegionEnds ==
    ASSUME NEW i \in 1..Size, ~Program[i].append
    PROVE  /\ RegionEnd(i) \in i..Size
           /\ \A k \in i..RegionEnd(i) :
                 ~Program[k].append /\ Eligible(Program[k]) = Eligible(Program[i])
           /\ Boundary(RegionEnd(i) + 1)
<1> DEFINE Stop(j) == j < Size => Program[j + 1].append
                                  \/ Eligible(Program[j + 1]) # Eligible(Program[i])
           S == {j \in i..Size : Stop(j)}
           Whole(j) == \A k \in i..j :
                          ~Program[k].append /\ Eligible(Program[k]) = Eligible(Program[i])
<1>0. Size \in Nat /\ Size \in i..Size
  BY ProgramAssumption, LenProperties DEF Size
<1>1. PICK j \in S : \A k \in S : j <= k
  <2>1. Size \in S
    BY <1>0
  <2>2. S \in SUBSET Nat
    BY <1>0
  <2> HIDE DEF S
  <2> QED BY <2>1, <2>2, LeastElement
<1>2. Whole(j)
  <2> SUFFICES ASSUME NEW k \in i..j, k # i
               PROVE  ~Program[k].append /\ Eligible(Program[k]) = Eligible(Program[i])
    OBVIOUS
  <2>1. k - 1 \in i..Size /\ k - 1 < j
    BY <1>0
  <2>2. ~Stop(k - 1)
    BY <1>1, <2>1
  <2> QED BY <1>0, <2>1, <2>2
<1>3. \E e \in i..Size : Whole(e) /\ Stop(e)
  BY <1>1, <1>2
<1>4. RegionEnd(i) = CHOOSE e \in i..Size : Whole(e) /\ Stop(e)
  BY DEF RegionEnd, Size
<1> DEFINE e == RegionEnd(i)
<1>5. e \in i..Size /\ Whole(e) /\ Stop(e)
  BY <1>3, <1>4
<1>6. Boundary(e + 1)
  <2>1. e + 1 - 1 = e /\ e \in i..e
    BY <1>0, <1>5
  <2>2. Eligible(Program[e]) = Eligible(Program[i])
    BY <1>5, <2>1
  <2> QED BY <1>0, <1>5, <2>1, <2>2 DEF Boundary
<1> QED BY <1>5, <1>6

-----------------------------------------------------------------------------
\* The program as commands of a run, and its parts.
LEMMA ExpectedType ==
    ASSUME NEW r \in Runs, r.number > 0
    PROVE  /\ Expected(r) \in Seq(Ops)
           /\ Len(Expected(r)) = Size
           /\ \A i \in 1..Size : Expected(r)[i] = Command(i, r)
<1>1. Size \in Nat /\ \A i \in 1..Size : Program[i] \in [op : Nat, fixed : BOOLEAN,
                                                       weight : BOOLEAN, append : BOOLEAN]
  BY ProgramAssumption, LenProperties, ElementOfSeq DEF Size
<1>2. ASSUME NEW i \in 1..Size PROVE Command(i, r) \in Ops
  <2>1. Binding(Program[i], r) \in Bindings
    BY <1>1, BoundsAssumption DEF Binding, Bindings, Runs
  <2> QED BY <1>1, <2>1 DEF Command, Ops
<1>3. Expected(r) = [i \in 1..Size |-> Command(i, r)]
  <2>1. Size - 1 + 1 = Size /\ \A i \in 1..Size : 1 + i - 1 = i
    BY <1>1
  <2> QED BY <2>1 DEF Expected, Commands, Size
<1> DEFINE e == Expected(r)
<1>4. e \in [1..Size -> Ops]
  BY <1>2, <1>3
<1> HIDE DEF e
<1>5. e \in Seq(Ops) /\ Len(e) = Size
  BY <1>1, <1>4
<1> QED BY <1>3, <1>5 DEF e

LEMMA CommandsArePart ==
    ASSUME NEW r \in Runs, r.number > 0, NEW from \in 1..Size, NEW to \in from..Size
    PROVE  Commands(from, to, r) = SubSeq(Expected(r), from, to)
<1>1. /\ Expected(r) \in Seq(Ops) /\ Len(Expected(r)) = Size /\ Size \in Nat
      /\ \A i \in 1..Size : Expected(r)[i] = Command(i, r)
  BY ExpectedType, LenProperties
<1> DEFINE c == Commands(from, to, r)
           s == SubSeq(Expected(r), from, to)
           n == to - from + 1
<1>2. c = [i \in 1..n |-> Command(from + i - 1, r)]
  BY DEF Commands
<1>3. ASSUME NEW i \in 1..n PROVE Expected(r)[from + i - 1] = Command(from + i - 1, r)
  BY <1>1
<1>4. /\ s \in Seq(Ops) /\ Len(s) = n
      /\ \A i \in 1..n : s[i] = Expected(r)[from + i - 1]
  <2>1. \A i \in from..to : Expected(r)[i] \in Ops
    BY <1>1, ElementOfSeq
  <2> QED BY <1>1, <2>1, SubSeqProperties
<1>5. s = [i \in 1..n |-> s[i]]
  <2>1. s \in [1..n -> Ops]
    BY <1>4, LenProperties
  <2> HIDE DEF s
  <2> QED BY <2>1
<1> HIDE DEF s
<1>6. \A i \in 1..n : s[i] = Command(from + i - 1, r)
  BY <1>3, <1>4
<1> QED BY <1>2, <1>5, <1>6 DEF s

LEMMA PrefixType ==
    ASSUME NEW r \in Runs, r.number > 0, NEW n \in 0..Size
    PROVE  /\ Prefix(r, n) \in Seq(Ops) /\ Len(Prefix(r, n)) = n
           /\ Prefix(r, Size) = Expected(r)
           /\ Prefix(r, 0) = <<>>
           /\ Prefix(r, n) \in Entry
<1>1. Expected(r) \in Seq(Ops) /\ Len(Expected(r)) = Size /\ Size \in Nat
  BY ExpectedType, LenProperties
<1>2. Prefix(r, n) \in Seq(Ops) /\ Len(Prefix(r, n)) = n
  <2>1. \A i \in 1..n : Expected(r)[i] \in Ops
    BY <1>1, ElementOfSeq
  <2> QED BY <1>1, <2>1, SubSeqProperties DEF Prefix
<1>3. Prefix(r, Size) = Expected(r)
  BY <1>1, SubSeqFull DEF Prefix
<1>4. Prefix(r, 0) = <<>>
  BY SubSeqEmpty DEF Prefix
<1>5. Prefix(r, n) \in Entry
  BY <1>1, <1>2 DEF Entry, Ops, Size
<1> QED BY <1>2, <1>3, <1>4, <1>5

\* The first n of the commands from at on, issued after those before at.
LEMMA PrefixGrows ==
    ASSUME NEW r \in Runs, r.number > 0,
           NEW from \in 1..Size, NEW to \in from..Size, NEW n \in 0..(to - from + 1)
    PROVE  /\ Prefix(r, from - 1) \o SubSeq(Commands(from, to, r), 1, n) = Prefix(r, from - 1 + n)
           /\ Commands(from, to, r) \in Entry /\ Len(Commands(from, to, r)) = to - from + 1
           /\ SubSeq(Commands(from, to, r), 1, to - from + 1) = Commands(from, to, r)
<1> DEFINE e == Expected(r)
           c == Commands(from, to, r)
           m == to - from + 1
<1>1. e \in Seq(Ops) /\ Len(e) = Size /\ Size \in Nat
  BY ExpectedType, LenProperties
<1>2. c = SubSeq(e, from, to)
  BY CommandsArePart
<1> HIDE DEF e, c
<1>3. c \in Seq(Ops) /\ Len(c) = m
  <2>1. \A i \in from..to : e[i] \in Ops
    BY <1>1, ElementOfSeq
  <2> QED BY <1>1, <1>2, <2>1, SubSeqProperties
<1>4. c \in Entry
  BY <1>1, <1>3 DEF Entry, Ops, Size
<1>5. SubSeq(c, 1, m) = c
  BY <1>3, SubSeqFull
<1>6. SubSeq(e, 1, from - 1) \o SubSeq(c, 1, n) = SubSeq(e, 1, from - 1 + n)
  <2>1. CASE n = 0
    <3>1. SubSeq(c, 1, 0) = <<>>
      BY SubSeqEmpty
    <3>2. SubSeq(e, 1, from - 1) \in Seq(Ops)
      <4>1. \A i \in 1..(from - 1) : e[i] \in Ops
        BY <1>1, ElementOfSeq
      <4> QED BY <1>1, <4>1, SubSeqProperties
    <3>3. from - 1 + 0 = from - 1
      BY <1>1
    <3> QED BY <2>1, <3>1, <3>2, <3>3, ConcatEmptySeq
  <2>2. CASE n # 0
    <3>1. SubSeq(c, 1, n) = SubSeq(e, from, from - 1 + n)
      <4>1. /\ 1 \in 1..(to - from + 1) /\ n \in 1..(to - from + 1)
            /\ from \in 1..Len(e) /\ to \in 1..Len(e)
            /\ from + 1 - 1 = from /\ from + n - 1 = from - 1 + n
        BY <1>1, <2>2
      <4>2. SubSeq(SubSeq(e, from, to), 1, n) = SubSeq(e, from + 1 - 1, from + n - 1)
        BY <1>1, <4>1, SubSeqOfSubSeq
      <4> QED BY <1>2, <4>1, <4>2
    <3>2. /\ 1 \in 1..(Len(e) + 1) /\ from - 1 \in (1 - 1)..Len(e)
          /\ from - 1 + n \in (from - 1)..Len(e) /\ from - 1 + 1 = from
      BY <1>1, <2>2
    <3>3. SubSeq(e, 1, from - 1) \o SubSeq(e, from - 1 + 1, from - 1 + n)
             = SubSeq(e, 1, from - 1 + n)
      BY <1>1, <3>2, ConcatAdjacentSubSeq
    <3> QED BY <3>1, <3>2, <3>3
  <2> QED BY <2>1, <2>2
<1> QED BY <1>3, <1>4, <1>5, <1>6 DEF Prefix, e, c

\* The commands of a region without dynamic bindings are the same in every
\* run with the same weights.
LEMMA RegionsRepeat ==
    ASSUME NEW r \in Runs, NEW i \in 1..Size, ~Program[i].append, Eligible(Program[i])
    PROVE  Commands(i, RegionEnd(i), r) = RegionKey(i, r.weights)
<1> DEFINE e == RegionEnd(i)
           s == [weights |-> r.weights, profile |-> FALSE, number |-> 0]
<1>1. e \in i..Size /\ \A k \in i..e : Eligible(Program[k])
  BY RegionEnds
<1>2. ASSUME NEW j \in 1..(e - i + 1) PROVE Command(i + j - 1, r) = Command(i + j - 1, s)
  <2>1. i + j - 1 \in i..e
    BY <1>1
  <2>2. Program[i + j - 1].fixed
    BY <1>1, <2>1 DEF Eligible
  <2> QED BY <2>2 DEF Command, Binding
<1> HIDE DEF e
<1>3. Commands(i, e, r) = Commands(i, e, s)
  BY <1>2 DEF Commands
<1> QED BY <1>3 DEF RegionKey, e

-----------------------------------------------------------------------------
\* What the steps of a run have in common: commands of the program from at
\* on, up to a boundary, are issued; all of them, or the run ends there.
Advance(to) ==
    /\ outcome = "running" /\ at <= Size
    /\ to \in at..Size /\ Boundary(to + 1)
    /\ UNCHANGED <<run, destroyed>>
    /\ \E n \in 0..(to - at + 1) :
          /\ issued' = issued \o SubSeq(Commands(at, to, run), 1, n)
          /\ \/ n = to - at + 1 /\ at' = to + 1 /\ UNCHANGED <<active, outcome, lost>>
             \/ active' = FALSE /\ outcome' = "error" /\ at' = at
    /\ \E bad \in BOOLEAN : flag' = (flag \/ bad) /\ tripped' = (tripped \/ bad)

Advances == \/ PagedAppend \/ EagerRegion \/ DisabledRegion \/ Replay \/ ReplayFails
            \/ DrainFails \/ CaptureFails \/ Capture

LEMMA Forms ==
    ASSUME IInv, outcome = "running", at <= Size, NEW to \in at..Size, Boundary(to + 1),
           UNCHANGED <<run, destroyed>>,
           \/ RunAll(Commands(at, to, run), to + 1) /\ UNCHANGED lost
           \/ RunSome(Commands(at, to, run))
           \/ IssuesNothing /\ Abort
    PROVE  Advance(to)
<1> DEFINE c == Commands(at, to, run)
           m == to - at + 1
<1>1. /\ run \in Runs /\ run.number > 0 /\ at \in 1..Size /\ Size \in Nat
      /\ issued = Prefix(run, at - 1) /\ at - 1 \in 0..Size
      /\ flag \in BOOLEAN /\ tripped \in BOOLEAN
  <2>1. Size \in Nat
    BY ProgramAssumption, LenProperties DEF Size
  <2> QED BY <2>1 DEF IInv, TypeOK, RunInv, Runs, Size
<1>2. Len(c) = m /\ SubSeq(c, 1, m) = c /\ m \in Nat \ {0}
  <2>1. m \in Nat \ {0} /\ 0 \in 0..m
    BY <1>1
  <2>2. Len(c) = m /\ SubSeq(c, 1, m) = c
    BY <1>1, <2>1, PrefixGrows
  <2> QED BY <2>1, <2>2
<1>3. issued \o SubSeq(c, 1, 0) = issued
  <2>1. SubSeq(c, 1, 0) = <<>>
    BY SubSeqEmpty
  <2>2. issued \in Seq(Ops)
    BY <1>1, PrefixType
  <2> QED BY <2>1, <2>2, ConcatEmptySeq
<1> HIDE DEF c
<1>4. CASE RunAll(c, to + 1) /\ UNCHANGED lost
  <2>1. issued' = issued \o SubSeq(c, 1, m) /\ m \in 0..m
    BY <1>2, <1>4 DEF RunAll, Issues
  <2>2. /\ at' = to + 1 /\ UNCHANGED <<active, outcome, lost>>
        /\ \E bad \in BOOLEAN : flag' = (flag \/ bad) /\ tripped' = (tripped \/ bad)
    BY <1>4 DEF RunAll, Issues, Proceed
  <2> QED BY <2>1, <2>2 DEF Advance, c
<1>5. CASE RunSome(c)
  <2>1. PICK n \in 0..(m - 1) : Issues(SubSeq(c, 1, n))
    BY <1>2, <1>5 DEF RunSome
  <2>2. n \in 0..m /\ issued' = issued \o SubSeq(c, 1, n)
        /\ \E bad \in BOOLEAN : flag' = (flag \/ bad) /\ tripped' = (tripped \/ bad)
    BY <1>2, <2>1 DEF Issues
  <2>3. active' = FALSE /\ outcome' = "error" /\ at' = at
    BY <1>5 DEF RunSome, Abort
  <2> QED BY <2>2, <2>3 DEF Advance, c
<1>6. CASE IssuesNothing /\ Abort
  <2>1. 0 \in 0..m /\ issued' = issued \o SubSeq(c, 1, 0)
    BY <1>2, <1>3, <1>6 DEF IssuesNothing
  <2>2. flag' = (flag \/ FALSE) /\ tripped' = (tripped \/ FALSE)
    BY <1>1, <1>6 DEF IssuesNothing
  <2>3. active' = FALSE /\ outcome' = "error" /\ at' = at
    BY <1>6 DEF Abort
  <2> QED BY <2>1, <2>2, <2>3 DEF Advance, c
<1> QED BY <1>4, <1>5, <1>6 DEF c

\* A graph in the table that is not disabled is the region it is launched for.
LEMMA StoredIsRegion ==
    ASSUME IInv, Known(Key(Region))
    PROVE  /\ IndexOf(Key(Region)) \in 1..Len(regions)
           /\ Stored.key = Region
           /\ Stored.exec # None => Stored.exec = Region
<1>1. \E i \in 1..Len(regions) : regions[i].key = Key(Region)
  BY DEF Known
<1>2. /\ IndexOf(Key(Region)) \in 1..Len(regions)
      /\ regions[IndexOf(Key(Region))].key = Key(Region)
  BY <1>1 DEF IndexOf
<1> QED BY <1>2 DEF Stored, Key, IInv, TableInv

LEMMA RunsAdvance == IInv /\ Advances => \E to \in at..Size : Advance(to)
<1> SUFFICES ASSUME IInv, Advances PROVE \E to \in at..Size : Advance(to)
  OBVIOUS
<1>1. Size \in Nat /\ at \in 1..(Size + 1)
  BY ProgramAssumption, LenProperties DEF IInv, TypeOK, Size
<1>2. ASSUME AtRegion, UNCHANGED <<run, destroyed>>,
             \/ RunAll(Region, After) /\ UNCHANGED lost
             \/ RunSome(Region)
             \/ IssuesNothing /\ Abort
      PROVE  Advance(RegionEnd(at)) /\ RegionEnd(at) \in at..Size
  <2>1. outcome = "running" /\ at \in 1..Size /\ at <= Size /\ ~Program[at].append
    BY <1>1, <1>2 DEF AtRegion, AtCommand, Size
  <2>2. RegionEnd(at) \in at..Size /\ Boundary(RegionEnd(at) + 1)
    BY <2>1, RegionEnds
  <2> QED BY <1>2, <2>1, <2>2, Forms DEF Region, After
<1>3. CASE PagedAppend
  <2>1. /\ outcome = "running" /\ at \in at..Size /\ at <= Size /\ UNCHANGED <<run, destroyed>>
        /\ Program[at].append
        /\ \/ RunAll(Commands(at, at, run), at + 1) /\ UNCHANGED lost
           \/ RunSome(Commands(at, at, run))
    BY <1>1, <1>3 DEF PagedAppend, AtCommand, Eagerly, Fine, Size
  <2>2. Boundary(at + 1)
    BY <1>1, <2>1 DEF Boundary
  <2>3. Advance(at)
    BY <2>1, <2>2, Forms
  <2> QED BY <2>1, <2>3
<1>4. CASE EagerRegion
  BY <1>2, <1>4 DEF EagerRegion, Eagerly, Fine
<1>5. CASE DisabledRegion
  BY <1>2, <1>5 DEF DisabledRegion, Eagerly, Fine, Recordable
<1>6. CASE Replay
  BY <1>2, <1>6, StoredIsRegion DEF Replay, Replayable, Recordable, Fine
<1>7. CASE ReplayFails
  BY <1>2, <1>7 DEF ReplayFails, Replayable, Recordable
<1>8. CASE DrainFails
  BY <1>2, <1>8 DEF DrainFails, NewRegion, Recordable
<1>9. CASE CaptureFails
  BY <1>2, <1>9 DEF CaptureFails, NewRegion, Recordable, PassingFault
<1>10. CASE Capture
  BY <1>2, <1>10 DEF Capture, NewRegion, Recordable, Fine
<1> QED BY <1>3, <1>4, <1>5, <1>6, <1>7, <1>8, <1>9, <1>10 DEF Advances

-----------------------------------------------------------------------------
LEMMA RunMoves == IInv /\ [Next]_vars => RunInv' /\ VerdictTruthful'
<1> SUFFICES ASSUME IInv, [Next]_vars PROVE RunInv' /\ VerdictTruthful'
  OBVIOUS
<1>0. /\ flag \in BOOLEAN /\ tripped \in BOOLEAN /\ active \in BOOLEAN
      /\ run \in Runs /\ at \in 1..(Size + 1) /\ Size \in Nat
  BY ProgramAssumption, LenProperties DEF IInv, TypeOK, Runs, Size
<1>1. CASE Advances
  <2>1. PICK to \in at..Size : Advance(to)
    BY <1>1, RunsAdvance
  <2>2. PICK n \in 0..(to - at + 1) :
          /\ issued' = issued \o SubSeq(Commands(at, to, run), 1, n)
          /\ \/ n = to - at + 1 /\ at' = to + 1 /\ UNCHANGED <<active, outcome, lost>>
             \/ active' = FALSE /\ outcome' = "error" /\ at' = at
    BY <2>1 DEF Advance
  <2>3. /\ outcome = "running" /\ active /\ ~lost /\ run.number > 0 /\ issued = Prefix(run, at - 1)
        /\ flag = tripped /\ run' = run /\ Boundary(to + 1) /\ at \in 1..Size
    BY <1>0, <2>1 DEF Advance, IInv, RunInv
  <2>4. issued' = Prefix(run, at - 1 + n)
    BY <1>0, <2>2, <2>3, PrefixGrows
  <2>5. flag' = tripped'
    BY <2>1, <2>3 DEF Advance
  <2>6. CASE n = to - at + 1 /\ at' = to + 1 /\ UNCHANGED <<active, outcome, lost>>
    <3>1. at - 1 + n = at' - 1
      BY <1>0, <2>6
    <3>2. Boundary(at)'
      BY <2>3, <2>6 DEF Boundary
    <3>3. Prefix(run, at - 1)' = Prefix(run, at - 1 + n)
      BY <2>3, <3>1 DEF Prefix
    <3> QED BY <2>3, <2>4, <2>5, <2>6, <3>2, <3>3 DEF RunInv, VerdictTruthful
  <2>7. CASE active' = FALSE /\ outcome' = "error" /\ at' = at
    BY <2>7 DEF RunInv, VerdictTruthful
  <2> QED BY <2>2, <2>6, <2>7
<1>2. CASE \E w \in Weights, p \in BOOLEAN : Begin(w, p)
  <2>1. PICK w \in Weights, p \in BOOLEAN : Begin(w, p)
    BY <1>2
  <2>2. ~active /\ outcome # "running" /\ run.number < MaxRuns
    BY <2>1 DEF Begin, CanBegin, Idle, IInv, RunInv
  <2>3. /\ active' = TRUE /\ flag' = (flag /\ ~ResetFlag) /\ tripped' = FALSE
        /\ at' = 1 /\ issued' = <<>> /\ outcome' = "running"
        /\ run' = [weights |-> w, profile |-> p, number |-> run.number + 1]
        /\ ~lost'
    BY <2>1, <2>2 DEF Begin, NextRun, Fine
  <2>4. run'.number > 0 /\ run' \in Runs
    BY <1>0, <2>2, <2>3, BoundsAssumption DEF Runs
  <2>5. Prefix(run, at - 1)' = <<>>
    <3>1. Prefix(run, at - 1)' = SubSeq(Expected(run'), 1, 0)
      BY <2>3 DEF Prefix
    <3> QED BY <3>1, SubSeqEmpty
  <2>6. Boundary(at)'
    BY <2>3 DEF Boundary
  <2>7. flag' = FALSE
    BY <2>3 DEF ResetFlag
  <2> QED BY <2>3, <2>4, <2>5, <2>6, <2>7 DEF RunInv, VerdictTruthful
<1>3. CASE BeginFails
  BY <1>3 DEF BeginFails, CanBegin, Idle, IInv, RunInv, VerdictTruthful
<1>4. CASE End
  <2>1. outcome = "running" /\ flag = tripped
    BY <1>4 DEF End, AtEnd, IInv, RunInv
  <2>2. /\ active' = FALSE /\ flag' = flag /\ tripped' = tripped
        /\ \/ outcome' = IF flag THEN "invalid" ELSE "ok"
           \/ outcome' = "error"
    BY <1>4 DEF End, Verdict
  <2> QED BY <1>0, <2>1, <2>2 DEF RunInv, VerdictTruthful
<1>5. CASE Destroy
  BY <1>5 DEF Destroy, Idle, IInv, RunInv, VerdictTruthful
<1>6. CASE UNCHANGED vars
  BY <1>6 DEF vars, IInv, RunInv, VerdictTruthful, Prefix, Boundary
<1> QED BY <1>1, <1>2, <1>3, <1>4, <1>5, <1>6 DEF Next, Advances

-----------------------------------------------------------------------------
\* What happens to the table: a new region enters, all leave, or nothing.
LEMMA TableChanges ==
    ASSUME IInv, [Next]_vars
    PROVE  \/ UNCHANGED regions
           \/ regions' = <<>>
           \/ /\ NewRegion
              /\ \E exec \in {None, Region}, disabled \in BOOLEAN :
                    /\ regions' = Append(regions, [key |-> Region, exec |-> exec,
                                                   disabled |-> disabled])
                    /\ disabled \/ exec # None \/ lost'
<1>1. CASE DrainFails
  BY <1>1 DEF DrainFails, Keep, Key
<1>2. CASE CaptureFails
  BY <1>2 DEF CaptureFails, Keep, Key
<1>3. CASE Capture
  <2>1. Region # None
    <3>1. /\ run \in Runs /\ run.number > 0 /\ at \in 1..Size /\ ~Program[at].append
      BY <1>3 DEF Capture, NewRegion, Recordable, AtRegion, AtCommand, IInv, TypeOK, RunInv,
                  Runs, Size
    <3>2. RegionEnd(at) \in at..Size
      BY <3>1, RegionEnds
    <3>3. 0 \in 0..(RegionEnd(at) - at + 1)
      BY <3>1, <3>2
    <3>4. Region \in Entry
      BY <3>1, <3>2, <3>3, PrefixGrows DEF Region
    <3> QED BY <3>4, NoneAssumption
  <2> QED BY <1>3, <2>1 DEF Capture, Keep, Key
<1>4. CASE PagedAppend \/ EagerRegion \/ DisabledRegion \/ Replay \/ ReplayFails \/ BeginFails
           \/ End \/ UNCHANGED vars \/ \E w \in Weights, p \in BOOLEAN : Begin(w, p)
  BY <1>4 DEF PagedAppend, EagerRegion, DisabledRegion, Replay, ReplayFails, BeginFails, End,
              Begin, vars
<1>5. CASE Destroy
  BY <1>5 DEF Destroy
<1> QED BY <1>1, <1>2, <1>3, <1>4, <1>5 DEF Next

\* A lost context stays lost, and the faults are counted up to their bound.
LEMMA FaultsMove ==
    ASSUME IInv, [Next]_vars
    PROVE  faults' \in 0..MaxFaults /\ lost' \in BOOLEAN /\ (lost => lost')
<1>1. faults \in 0..MaxFaults /\ lost \in BOOLEAN
  BY DEF IInv, TypeOK
<1>2. outcome = "running" => ~lost
  BY DEF IInv, RunInv
<1> USE <1>1, BoundsAssumption DEF Fine, Fault, PassingFault, AnyFault
<1>3. CASE \E w \in Weights, p \in BOOLEAN : Begin(w, p)
  BY <1>3 DEF Begin
<1>4. CASE BeginFails
  BY <1>4 DEF BeginFails
<1>5. CASE PagedAppend
  BY <1>2, <1>5 DEF PagedAppend, AtCommand, Eagerly
<1>6. CASE EagerRegion \/ DisabledRegion
  BY <1>2, <1>6 DEF EagerRegion, DisabledRegion, Recordable, AtRegion, AtCommand, Eagerly
<1>7. CASE Replay \/ ReplayFails
  BY <1>2, <1>7 DEF Replay, ReplayFails, Replayable, Recordable, AtRegion, AtCommand
<1>8. CASE DrainFails \/ CaptureFails \/ Capture \/ End
  <2>1. faults' = faults \/ (faults < MaxFaults /\ faults' = faults + 1)
    BY <1>8 DEF DrainFails, CaptureFails, Capture, End
  <2>2. lost' = lost \/ lost' = TRUE
    BY <1>8 DEF DrainFails, CaptureFails, Capture, End
  <2>3. lost' \in BOOLEAN /\ (lost => lost')
    BY <1>1, <2>2, Zenon
  <2>4. faults' \in 0..MaxFaults
    BY <2>1
  <2> QED BY <2>3, <2>4
<1>9. CASE Destroy \/ UNCHANGED vars
  BY <1>9 DEF Destroy, vars
<1> QED BY <1>3, <1>4, <1>5, <1>6, <1>7, <1>8, <1>9 DEF Next

LEMMA NewRegionIsKey ==
    ASSUME IInv, NewRegion
    PROVE  /\ run \in Runs /\ at \in Firsts
           /\ Region \in Entry
           /\ Region = RegionKey(at, run.weights)
           /\ \A i \in 1..Len(regions) : regions[i].key # Region
<1>1. /\ run \in Runs /\ run.number > 0 /\ at \in 1..Size /\ ~Program[at].append
      /\ Eligible(Program[at]) /\ Boundary(at) /\ Size \in Nat
  <2>1. Size \in Nat
    BY ProgramAssumption, LenProperties DEF Size
  <2> QED BY <2>1 DEF NewRegion, Recordable, AtRegion, AtCommand, IInv, TypeOK, RunInv, Runs, Size
<1>2. RegionEnd(at) \in at..Size
  BY <1>1, RegionEnds
<1>3. 0 \in 0..(RegionEnd(at) - at + 1)
  BY <1>1, <1>2
<1>4. Region \in Entry
  BY <1>1, <1>2, <1>3, PrefixGrows DEF Region
<1>5. Region = RegionKey(at, run.weights)
  BY <1>1, RegionsRepeat DEF Region
<1>6. at \in Firsts
  <2>1. ASSUME NEW i \in 1..Size PROVE Program[i].fixed \in BOOLEAN
    <3>1. Program[i] \in [op : Nat, fixed : BOOLEAN, weight : BOOLEAN, append : BOOLEAN]
      BY ProgramAssumption, ElementOfSeq DEF Size
    <3> QED BY <3>1
  <2>2. at > 1 => Program[at - 1].append \/ ~Eligible(Program[at - 1])
    <3>1. CASE at = 1
      BY <3>1
    <3>2. CASE at # 1 /\ ~Program[at - 1].append
      <4>1. Eligible(Program[at]) # Eligible(Program[at - 1])
        <5>1. at <= Size
          BY <1>1
        <5> QED BY <1>1, <3>2, <5>1, Zenon DEF Boundary
      <4>2. Program[at].fixed \in BOOLEAN /\ Program[at - 1].fixed \in BOOLEAN
        BY <1>1, <2>1, <3>2
      <4> QED BY <1>1, <4>1, <4>2, Zenon DEF Eligible
    <3> QED BY <3>1, <3>2
  <2> QED BY <1>1, <2>2 DEF Firsts, FirstOfRegion
<1>7. \A i \in 1..Len(regions) : regions[i].key # Region
  BY DEF NewRegion, Known, Key
<1> QED BY <1>1, <1>4, <1>5, <1>6, <1>7

Row == [key : Entry, exec : Entry \cup {None}, disabled : BOOLEAN]

LEMMA TableMoves == IInv /\ [Next]_vars => TableInv' /\ regions' \in Seq(Row)
<1> SUFFICES ASSUME IInv, [Next]_vars PROVE TableInv' /\ regions' \in Seq(Row)
  OBVIOUS
<1>1. regions \in Seq(Row) /\ Len(regions) \in Nat
  BY LenProperties DEF IInv, TypeOK, Row
<1>2. lost => lost'
  BY FaultsMove
<1>3. TableInv
  BY DEF IInv
<1>4. CASE UNCHANGED regions
  <2>1. \A i \in 1..Len(regions) : regions[i].disabled \/ regions[i].exec # None \/ lost'
    BY <1>2, <1>3 DEF TableInv
  <2> QED BY <1>1, <1>3, <1>4, <2>1 DEF TableInv
<1>5. CASE regions' = <<>>
  BY <1>5 DEF TableInv
<1>6. ASSUME NewRegion, NEW exec \in {None, Region}, NEW disabled \in BOOLEAN,
             regions' = Append(regions, [key |-> Region, exec |-> exec, disabled |-> disabled]),
             disabled \/ exec # None \/ lost'
      PROVE  TableInv' /\ regions' \in Seq(Row)
  <2> DEFINE row == [key |-> Region, exec |-> exec, disabled |-> disabled]
             n == Len(regions)
  <2>1. /\ run \in Runs /\ at \in Firsts /\ Region \in Entry
        /\ Region = RegionKey(at, run.weights)
        /\ \A i \in 1..n : regions[i].key # Region
    BY <1>6, NewRegionIsKey
  <2>2. row \in Row
    BY <2>1 DEF Row
  <2>3. /\ row.key = Region /\ row.exec \in {None, row.key}
        /\ row.disabled \/ row.exec # None \/ lost'
        /\ \E f \in Firsts, w \in Weights : row.key = RegionKey(f, w)
    BY <1>6, <2>1 DEF Runs
  <2>4. /\ regions' \in Seq(Row) /\ Len(regions') = n + 1
        /\ \A i \in 1..n : regions'[i] = regions[i]
        /\ regions'[n + 1] = row
    BY <1>1, <1>6, <2>2, AppendProperties
  <2> HIDE DEF row
  <2>5. ASSUME NEW i \in 1..(n + 1)
        PROVE  /\ regions'[i].exec \in {None, regions'[i].key}
               /\ regions'[i].disabled \/ regions'[i].exec # None \/ lost'
               /\ \E f \in Firsts, w \in Weights : regions'[i].key = RegionKey(f, w)
    <3>1. CASE i \in 1..n
      BY <1>2, <1>3, <2>4, <3>1 DEF TableInv
    <3>2. CASE i = n + 1
      BY <2>3, <2>4, <3>2
    <3> QED BY <1>1, <3>1, <3>2
  <2>6. ASSUME NEW i \in 1..(n + 1), NEW j \in 1..(n + 1), regions'[i].key = regions'[j].key
        PROVE  i = j
    BY <1>1, <1>3, <2>1, <2>3, <2>4, <2>6 DEF TableInv
  <2>7. \A f, w : RegionKey(f, w)' = RegionKey(f, w)
    BY DEF RegionKey
  <2> QED BY <2>4, <2>5, <2>6, <2>7 DEF TableInv
<1> QED BY <1>4, <1>5, <1>6, TableChanges

-----------------------------------------------------------------------------
LEMMA TypeMoves == IInv /\ [Next]_vars => TypeOK'
<1> SUFFICES ASSUME IInv, [Next]_vars PROVE TypeOK'
  OBVIOUS
<1> DEFINE Typed ==
      /\ active \in BOOLEAN /\ flag \in BOOLEAN /\ tripped \in BOOLEAN /\ destroyed \in BOOLEAN
      /\ at \in 1..(Size + 1)
      /\ run \in Runs
      /\ outcome \in {"none", "running", "ok", "invalid", "error", "refused"}
      /\ issued \in Entry
<1>0. Typed /\ Size \in Nat
  BY ProgramAssumption, LenProperties DEF IInv, TypeOK, Runs, Size
<1>1. faults' \in 0..MaxFaults /\ lost' \in BOOLEAN
  BY FaultsMove
<1>2. regions' \in Seq(Row)
  BY TableMoves
<1>3. Typed'
  <2>1. CASE Advances
    <3>1. PICK to \in at..Size : Advance(to)
      BY <2>1, RunsAdvance
    <3>2. PICK n \in 0..(to - at + 1) :
            /\ issued' = issued \o SubSeq(Commands(at, to, run), 1, n)
            /\ \/ n = to - at + 1 /\ at' = to + 1 /\ UNCHANGED <<active, outcome, lost>>
               \/ active' = FALSE /\ outcome' = "error" /\ at' = at
      BY <3>1 DEF Advance
    <3>3. /\ run.number > 0 /\ issued = Prefix(run, at - 1) /\ at \in 1..Size
          /\ run' = run /\ destroyed' = destroyed
      BY <1>0, <3>1 DEF Advance, IInv, RunInv
    <3>4. issued' \in Entry
      <4>1. issued' = Prefix(run, at - 1 + n)
        BY <1>0, <3>2, <3>3, PrefixGrows
      <4>2. at - 1 + n \in 0..Size
        BY <1>0, <3>3
      <4> QED BY <1>0, <3>3, <4>1, <4>2, PrefixType
    <3>5. flag' \in BOOLEAN /\ tripped' \in BOOLEAN
      BY <3>1 DEF Advance
    <3>6. at' \in 1..(Size + 1) /\ active' \in BOOLEAN
          /\ outcome' \in {"none", "running", "ok", "invalid", "error", "refused"}
      <4>1. CASE at' = to + 1 /\ active' = active /\ outcome' = outcome
        BY <1>0, <4>1
      <4>2. CASE active' = FALSE /\ outcome' = "error" /\ at' = at
        BY <1>0, <4>2
      <4> QED BY <3>2, <4>1, <4>2
    <3> QED BY <1>0, <3>3, <3>4, <3>5, <3>6
  <2>2. CASE \E w \in Weights, p \in BOOLEAN : Begin(w, p)
    <3>1. PICK w \in Weights, p \in BOOLEAN : Begin(w, p)
      BY <2>2
    <3>2. ~active /\ run.number < MaxRuns
      BY <3>1 DEF Begin, CanBegin, Idle, IInv, RunInv
    <3>3. /\ active' = TRUE /\ flag' = (flag /\ ~ResetFlag) /\ tripped' = FALSE
          /\ at' = 1 /\ issued' = <<>> /\ outcome' = "running" /\ destroyed' = destroyed
          /\ run' = [weights |-> w, profile |-> p, number |-> run.number + 1]
      BY <3>1, <3>2 DEF Begin, NextRun
    <3>4. run' \in Runs
      BY <1>0, <3>2, <3>3, BoundsAssumption DEF Runs
    <3>5. <<>> \in Entry
      BY <1>0 DEF Entry, Size
    <3>6. flag' = FALSE
      BY <3>3 DEF ResetFlag
    <3>7. destroyed' \in BOOLEAN /\ active' \in BOOLEAN /\ tripped' \in BOOLEAN
      BY <1>0, <3>3, Zenon
    <3>8. at' \in 1..(Size + 1)
      BY <1>0, <3>3
    <3> QED BY <3>3, <3>4, <3>5, <3>6, <3>7, <3>8
  <2>3. CASE BeginFails
    BY <1>0, <2>3 DEF BeginFails
  <2>4. CASE End
    BY <1>0, <2>4 DEF End, Verdict
  <2>5. CASE Destroy
    BY <1>0, <2>5 DEF Destroy
  <2>6. CASE UNCHANGED vars
    BY <1>0, <2>6 DEF vars
  <2> QED BY <2>1, <2>2, <2>3, <2>4, <2>5, <2>6 DEF Next, Advances
<1> QED BY <1>1, <1>2, <1>3 DEF TypeOK, Row, Runs, Size

LEMMA InitIInv == Init => IInv
<1> SUFFICES ASSUME Init PROVE IInv
  OBVIOUS
<1>1. TypeOK
  <2>1. issued \in Entry
    <3>1. <<>> \in Seq([op : Nat, binding : Bindings]) /\ Len(<<>>) = 0 /\ Len(Program) \in Nat
      BY ProgramAssumption, LenProperties, EmptySeq
    <3>2. <<>> \in Entry
      BY <3>1 DEF Entry
    <3> QED BY <3>2 DEF Init
  <2>2. at \in 1..(Len(Program) + 1) /\ faults \in 0..MaxFaults
    BY ProgramAssumption, BoundsAssumption, LenProperties DEF Init
  <2>3. run \in [weights : Weights, profile : BOOLEAN, number : 0..MaxRuns]
    BY BoundsAssumption DEF Init
  <2>4. regions \in Seq([key : Entry, exec : Entry \cup {None}, disabled : BOOLEAN])
    BY EmptySeq DEF Init
  <2>5. /\ active \in BOOLEAN /\ flag \in BOOLEAN /\ tripped \in BOOLEAN
        /\ lost \in BOOLEAN /\ destroyed \in BOOLEAN /\ outcome = "none"
    BY DEF Init
  <2> QED BY <2>1, <2>2, <2>3, <2>4, <2>5 DEF TypeOK
<1>2. RunInv /\ VerdictTruthful /\ TableInv
  BY DEF Init, RunInv, VerdictTruthful, TableInv
<1> QED BY <1>1, <1>2 DEF IInv

LEMMA Invariant == Spec => []IInv
<1>1. IInv /\ [Next]_vars => IInv'
  BY RunMoves, TableMoves, TypeMoves DEF IInv
<1> QED BY InitIInv, <1>1, PTL DEF Spec

-----------------------------------------------------------------------------
\* A run is called valid only if none of its commands failed its validation on
\* the device, and invalid only if one did, whatever run before it was aborted
\* and whichever of its regions were replayed.
THEOREM VerdictsTrue == Spec => []VerdictTruthful
<1>1. IInv => VerdictTruthful
  BY DEF IInv
<1> QED BY <1>1, Invariant, PTL

\* The table has at most one entry for each capturable region and each
\* binding of the weights, no two for the same commands, and none without
\* graph that a later run would launch.
THEOREM TableSound == Spec => []RegionTableSound
<1>1. ASSUME IInv
      PROVE  Len(regions) <= Cardinality(Firsts) * Cardinality(Weights)
  <2> DEFINE P == Firsts \X Weights
             n == Len(regions)
             f == [i \in 1..n |-> CHOOSE p \in P : regions[i].key = RegionKey(p[1], p[2])]
  <2>1. n \in Nat /\ Size \in Nat
    BY <1>1, ProgramAssumption, LenProperties DEF IInv, TypeOK, Size
  <2>2. IsFiniteSet(Firsts)
    <3>1. Firsts \in SUBSET (1..Size) /\ IsFiniteSet(1..Size)
      BY <2>1, FS_Interval DEF Firsts
    <3> QED BY <3>1, FS_Subset
  <2>3. IsFiniteSet(P) /\ Cardinality(P) = Cardinality(Firsts) * Cardinality(Weights)
    BY <2>2, WeightsAssumption, FS_Product
  <2>4. ASSUME NEW i \in 1..n
        PROVE  f[i] \in P /\ regions[i].key = RegionKey(f[i][1], f[i][2])
    <3>1. PICK g \in Firsts, w \in Weights : regions[i].key = RegionKey(g, w)
      BY <1>1 DEF IInv, TableInv
    <3>2. <<g, w>> \in P /\ regions[i].key = RegionKey(<<g, w>>[1], <<g, w>>[2])
      BY <3>1
    <3> HIDE DEF P
    <3> QED BY <3>2
  <2>5. f \in [1..n -> P]
    BY <2>4
  <2>6. ASSUME NEW i \in 1..n, NEW j \in 1..n, f[i] = f[j] PROVE i = j
    <3>1. regions[i].key = regions[j].key
      BY <2>4, <2>6
    <3> QED BY <1>1, <3>1 DEF IInv, TableInv
  <2> HIDE DEF f, P
  <2>7. f \in Injection(1..n, P)
    <3>1. \A i, j \in 1..n : f[i] = f[j] => i = j
      BY <2>6
    <3>2. IsInjective(f)
      BY <2>5, <3>1 DEF IsInjective
    <3> QED BY <2>5, <3>2, Zenon DEF Injection
  <2>8. Cardinality(1..n) <= Cardinality(P)
    BY <2>3, <2>7, FS_Injection
  <2>9. Cardinality(1..n) = n
    <3> HIDE DEF n
    <3>1. 1 \in Int /\ n \in Int
      BY <2>1
    <3>2. Cardinality(1..n) = IF 1 > n THEN 0 ELSE (n - 1) + 1
      BY <3>1, FS_Interval
    <3> QED BY <2>1, <3>2
  <2> QED
    <3>1. n <= Cardinality(Firsts) * Cardinality(Weights)
      BY <2>3, <2>8, <2>9, Zenon
    <3> QED BY <3>1
<1>2. IInv => RegionTableSound
  BY <1>1 DEF IInv, TableInv, RegionTableSound, Firsts, Size
<1> QED BY <1>2, Invariant, PTL

\* Whatever mixture of eager commands, recordings and replays a run is made
\* of, and however the runs before it ended, it issues the commands of the
\* program in order, each once, bound to its own buffers.
THEOREM StreamImplemented == Spec => ImplementsStream
<1> DEFINE plan == IF run.number = 0 THEN <<>> ELSE Expected(run)
<1>1. Init => Stream!Init
  BY DEF Init, Stream!Init
<1>2. ASSUME IInv, [Next]_vars PROVE [Stream!Next]_Stream!vars
  <2>1. CASE Advances
    <3>1. PICK to \in at..Size : Advance(to)
      BY <1>2, <2>1, RunsAdvance
    <3>2. PICK n \in 0..(to - at + 1) :
            /\ issued' = issued \o SubSeq(Commands(at, to, run), 1, n)
            /\ outcome' \in {"running", "error"}
      BY <3>1 DEF Advance
    <3>3. /\ run.number > 0 /\ issued = Prefix(run, at - 1) /\ at \in 1..Size
          /\ run' = run /\ outcome = "running" /\ run \in Runs /\ Size \in Nat
      BY <1>2, <3>1, ProgramAssumption, LenProperties
         DEF Advance, IInv, RunInv, TypeOK, Runs, Size
    <3>4. issued' = Prefix(run, at - 1 + n)
      BY <3>2, <3>3, PrefixGrows
    <3>5. Len(issued) = at - 1 /\ Len(Expected(run)) = Size
      BY <3>3, PrefixType, ExpectedType
    <3>6. at - 1 + n \in Len(issued)..Len(Expected(run))
      BY <3>3, <3>5
    <3>7. plan = Expected(run) /\ plan' = plan
      BY <3>3
    <3>8. Stream!Issue
      BY <3>2, <3>3, <3>4, <3>6, <3>7 DEF Stream!Issue, Prefix
    <3> QED BY <3>8 DEF Stream!Next
  <2>2. CASE \E w \in Weights, p \in BOOLEAN : Begin(w, p)
    <3>1. PICK w \in Weights, p \in BOOLEAN : Begin(w, p)
      BY <2>2
    <3>2. ~active /\ outcome # "running" /\ run.number < MaxRuns /\ run \in Runs
      BY <1>2, <3>1 DEF Begin, CanBegin, Idle, IInv, RunInv, TypeOK, Runs
    <3>3. /\ issued' = <<>> /\ outcome' = "running"
          /\ run' = [weights |-> w, profile |-> p, number |-> run.number + 1]
      BY <3>1, <3>2 DEF Begin, NextRun
    <3>4. run' \in Runs /\ run'.number # 0
      BY <3>2, <3>3, BoundsAssumption DEF Runs
    <3>5. plan' = Expected(run') /\ Expected(run') \in Plans
      BY <3>4 DEF Plans, Runs
    <3> QED BY <3>2, <3>3, <3>5 DEF Stream!Next, Stream!Begin
  <2>3. CASE BeginFails
    BY <2>3 DEF BeginFails, CanBegin, Idle, Stream!Next, Stream!NotBegun
  <2>4. CASE End
    <3>1. /\ run.number > 0 /\ issued = Prefix(run, at - 1) /\ at = Size + 1
          /\ outcome = "running" /\ run \in Runs /\ Size \in Nat
      BY <1>2, <2>4, ProgramAssumption, LenProperties
         DEF End, AtEnd, IInv, RunInv, TypeOK, Runs, Size
    <3>2. issued = Expected(run)
      BY <3>1, PrefixType
    <3>3. run' = run /\ issued' = issued /\ outcome' \in {"ok", "invalid", "error"}
      BY <2>4 DEF End, Verdict
    <3> QED BY <3>1, <3>2, <3>3 DEF Stream!Next, Stream!Finish
  <2>5. CASE Destroy \/ UNCHANGED vars
    BY <2>5 DEF Destroy, vars, Stream!vars
  <2> QED BY <1>2, <2>1, <2>2, <2>3, <2>4, <2>5 DEF Next, Advances
<1>3. Spec => Stream!Spec
  BY <1>1, <1>2, Invariant, PTL DEF Spec, Stream!Spec
<1> QED BY <1>3 DEF ImplementsStream
=============================================================================
