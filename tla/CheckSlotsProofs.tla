--------------------------- MODULE CheckSlotsProofs ---------------------------
(***************************************************************************)
(* Permits of CheckSlots, for every number of projects, checks, gates and  *)
(* slots: type correctness, PermitsMatch and InTurn.                       *)
(***************************************************************************)
EXTENDS CheckSlots, FiniteSetTheorems, SequenceTheorems, TLAPS

Kinds == {"heavy", "light"}
Record == [check : Checks, phase : {"queued", "running"}]
Holders == (Projects \X Checks) \union Gates
GatePcs == {"idle", "polling", "trying", "holding", "testing", "building",
            "yielding", "stopping", "done"}
Gate == [pc : GatePcs, attempt : 0..YieldRetries]
Spent == [asks : [Projects -> Nat], failures : Nat, ends : Nat]

Types ==
  /\ records \in [Projects -> Seq(Record)]
  /\ call \in [Projects -> [Checks -> Calls]]
  /\ tokens \in [Projects -> [Kinds -> Int]]
  /\ waiters \subseteq Projects \X Heavy
  /\ slot \in [1..Slots -> Holders \union {None}]
  /\ gate \in [Gates -> Gate]
  /\ up \subseteq Projects
  /\ spent \in Spent

-----------------------------------------------------------------------------
(* The records of one project. *)

LEMMA RemoveAtFacts ==
  ASSUME NEW S, NEW s \in Seq(S), NEW k \in DOMAIN s
  PROVE  /\ RemoveAt(s, k) \in Seq(S)
         /\ Len(RemoveAt(s, k)) = Len(s) - 1
         /\ \A i \in 1..(Len(s) - 1) : RemoveAt(s, k)[i] = s[IF i < k THEN i ELSE i + 1]
<1> DEFINE a == SubSeq(s, 1, k - 1)
           b == SubSeq(s, k + 1, Len(s))
<1>1. k \in 1..Len(s) /\ Len(s) \in Nat
  BY LenProperties
<1>2. /\ a \in Seq(S) /\ Len(a) = k - 1
      /\ \A i \in 1..(k - 1) : a[i] = s[i]
  BY <1>1, SubSeqProperties
<1>3. /\ b \in Seq(S) /\ Len(b) = Len(s) - k
      /\ \A i \in 1..(Len(s) - k) : b[i] = s[k + i]
  BY <1>1, SubSeqProperties
<1>4. RemoveAt(s, k) = a \o b
  BY DEF RemoveAt
<1> HIDE DEF a, b
<1>5. /\ a \o b \in Seq(S)
      /\ Len(a \o b) = Len(a) + Len(b)
      /\ \A i \in 1..(Len(a) + Len(b)) :
           (a \o b)[i] = IF i <= Len(a) THEN a[i] ELSE b[i - Len(a)]
  BY <1>2, <1>3, ConcatProperties
<1>6. Len(a) + Len(b) = Len(s) - 1
  BY <1>1, <1>2, <1>3
<1>7. ASSUME NEW i \in 1..(Len(s) - 1)
      PROVE  (a \o b)[i] = s[IF i < k THEN i ELSE i + 1]
  <2>1. CASE i < k
    BY <2>1, <1>1, <1>2, <1>5, <1>6
  <2>2. CASE ~(i < k)
    <3>1. i - Len(a) \in 1..(Len(s) - k) /\ k + (i - Len(a)) = i + 1 /\ ~(i <= Len(a))
      BY <2>2, <1>1, <1>2
    <3>2. b[i - Len(a)] = s[i + 1]
      BY <3>1, <1>3
    <3> QED BY <2>2, <3>1, <3>2, <1>5, <1>6
  <2> QED BY <2>1, <2>2
<1> QED BY <1>4, <1>5, <1>6, <1>7

LEMMA RemoveRecordIsSeq ==
  ASSUME NEW list \in Seq(Record), NEW c
  PROVE  RemoveRecord(list, c) \in Seq(Record)
<1> DEFINE k == CHOOSE i \in DOMAIN list : list[i].check = c
<1>1. CASE \E i \in DOMAIN list : list[i].check = c
  <2>1. k \in DOMAIN list
    BY <1>1
  <2>2. RemoveRecord(list, c) = RemoveAt(list, k)
    BY <1>1 DEF RemoveRecord
  <2> HIDE DEF k
  <2> QED BY <2>1, <2>2, RemoveAtFacts
<1>2. CASE ~\E i \in DOMAIN list : list[i].check = c
  BY <1>2 DEF RemoveRecord
<1> QED BY <1>1, <1>2

LEMMA RecordedIsSeq ==
  ASSUME NEW list \in Seq(Record), NEW c \in Checks, NEW phase \in {"", "queued", "running"}
  PROVE  Recorded(list, c, phase) \in Seq(Record)
<1>1. RemoveRecord(list, c) \in Seq(Record)
  BY RemoveRecordIsSeq
<1>2. phase # "" => [check |-> c, phase |-> phase] \in Record
  BY DEF Record
<1> QED BY <1>1, <1>2, AppendProperties DEF Recorded

-----------------------------------------------------------------------------
(* Types *)

LEMMA TypesInit == Init => Types
BY SlotsAssumption DEF Init, Types, Kinds, Calls, Gate, GatePcs, Spent, Holders

(* A step of the permits of one check keeps the types. *)
LEMMA PublishTypes ==
  ASSUME Types, NEW p \in Projects, NEW c \in Checks, NEW phase \in {"", "queued", "running"},
         Publish(p, c, phase)
  PROVE  records' \in [Projects -> Seq(Record)]
BY RecordedIsSeq DEF Types, Publish

LEMMA GoToTypes ==
  ASSUME Types, NEW p \in Projects, NEW c \in Checks, NEW pc \in Calls, GoTo(p, c, pc)
  PROVE  call' \in [Projects -> [Checks -> Calls]]
BY DEF Types, GoTo

LEMMA ClassIsKind ==
  ASSUME NEW c PROVE Class(c) \in Kinds
BY DEF Class, Kinds

LEMMA SpentTypes ==
  ASSUME NEW s \in Spent, NEW p \in Projects, NEW n \in Nat
  PROVE  /\ [s EXCEPT !.asks[p] = n] \in Spent
         /\ [s EXCEPT !.failures = n] \in Spent
         /\ [s EXCEPT !.ends = n] \in Spent
         /\ s.asks[p] + 1 \in Nat /\ s.failures + 1 \in Nat /\ s.ends + 1 \in Nat
<1>1. /\ s.asks \in [Projects -> Nat] /\ s.failures \in Nat /\ s.ends \in Nat
      /\ s = [asks |-> s.asks, failures |-> s.failures, ends |-> s.ends]
  BY DEF Spent
<1>2. [s.asks EXCEPT ![p] = n] \in [Projects -> Nat]
  BY <1>1
<1>3. [s EXCEPT !.asks[p] = n] = [asks |-> [s.asks EXCEPT ![p] = n], failures |-> s.failures, ends |-> s.ends]
  BY <1>1
<1>4. [s EXCEPT !.failures = n] = [asks |-> s.asks, failures |-> n, ends |-> s.ends]
  BY <1>1
<1>5. [s EXCEPT !.ends = n] = [asks |-> s.asks, failures |-> s.failures, ends |-> n]
  BY <1>1
<1>6. s.asks[p] + 1 \in Nat /\ s.failures + 1 \in Nat /\ s.ends + 1 \in Nat
  BY <1>1
<1> QED BY <1>1, <1>2, <1>3, <1>4, <1>5, <1>6 DEF Spent

LEMMA FailsTypes == Types /\ Fails => spent' \in Spent
<1>1. ASSUME NEW s \in Spent
      PROVE  [s EXCEPT !.failures = s.failures + 1] \in Spent
  BY DEF Spent
<1> QED BY <1>1 DEF Types, Fails

LEMMA WithoutTypes ==
  ASSUME Types, NEW h
  PROVE  Without(slot, h) \in [1..Slots -> Holders \union {None}]
BY DEF Types, Without

LEMMA ReleaseAllTypes ==
  ASSUME Types, NEW p \in Projects, NEW c \in Checks, ReleaseAll(p, c)
  PROVE  /\ tokens' \in [Projects -> [Kinds -> Int]]
         /\ waiters' \subseteq Projects \X Heavy
         /\ slot' \in [1..Slots -> Holders \union {None}]
<1>1. tokens' \in [Projects -> [Kinds -> Int]]
  BY ClassIsKind DEF Types, ReleaseAll
<1> QED BY <1>1, WithoutTypes DEF Types, ReleaseAll

LEMMA CheckTypes ==
  ASSUME Types, NEW p \in Projects, NEW c \in Checks,
         Ask(p, c) \/ CheckStep(p, c) \/ Abandon(p, c)
  PROVE  Types'
<1>1. CASE Ask(p, c)
  <2>1. records' \in [Projects -> Seq(Record)]
    BY <1>1, PublishTypes DEF Ask
  <2>2. call' \in [Projects -> [Checks -> Calls]]
    BY <1>1, GoToTypes DEF Ask, Calls
  <2>3. spent' \in Spent
    <3>1. PICK s \in Spent : s = spent
      BY DEF Types
    <3>2. [s EXCEPT !.asks[p] = s.asks[p] + 1] \in Spent
      BY SpentTypes
    <3>3. [s EXCEPT !.asks[p] = s.asks[p] + 1, !.failures = s.failures + 1] \in Spent
      <4>1. PICK r \in Spent : r = [s EXCEPT !.asks[p] = s.asks[p] + 1]
        BY <3>2
      <4>2. [r EXCEPT !.failures = s.failures + 1] \in Spent
        BY SpentTypes
      <4>3. [s EXCEPT !.asks[p] = s.asks[p] + 1, !.failures = s.failures + 1]
              = [r EXCEPT !.failures = s.failures + 1]
        BY <4>1
      <4> QED BY <4>2, <4>3
    <3> QED BY <1>1, <3>1, <3>2, <3>3 DEF Ask
  <2> QED BY <1>1, <2>1, <2>2, <2>3 DEF Ask, Types
<1>2. CASE TakeTurn(p, c)
  <2>1. call' \in [Projects -> [Checks -> Calls]]
    BY <1>2, GoToTypes DEF TakeTurn, Calls
  <2>2. tokens' \in [Projects -> [Kinds -> Int]]
    BY <1>2, ClassIsKind DEF TakeTurn, Types
  <2> QED BY <1>2, <2>1, <2>2 DEF TakeTurn, Types
<1>3. CASE Register(p, c)
  <2>1. call' \in [Projects -> [Checks -> Calls]]
    BY <1>3, GoToTypes DEF Register, Calls
  <2> QED BY <1>3, <2>1 DEF Register, Types
<1>4. CASE AcquireMachine(p, c)
  <2>1. call' \in [Projects -> [Checks -> Calls]]
    BY <1>4, GoToTypes DEF AcquireMachine, Calls
  <2>2. slot' \in [1..Slots -> Holders \union {None}]
    <3>1. <<p, c>> \in Holders
      BY DEF Holders
    <3>2. PICK i \in 1..Slots : slot' = [slot EXCEPT ![i] = <<p, c>>]
      BY <1>4 DEF AcquireMachine, Free
    <3> QED BY <3>1, <3>2 DEF Types
  <2> QED BY <1>4, <2>1, <2>2 DEF AcquireMachine, Types
<1>5. CASE ClearWaiter(p, c)
  <2>1. call' \in [Projects -> [Checks -> Calls]]
    BY <1>5, GoToTypes DEF ClearWaiter, Calls
  <2> QED BY <1>5, <2>1 DEF ClearWaiter, Types
<1>6. CASE Announce(p, c)
  <2>1. call' \in [Projects -> [Checks -> Calls]]
    BY <1>6, GoToTypes DEF Announce, Calls
  <2>2. records' \in [Projects -> Seq(Record)]
    BY <1>6, PublishTypes DEF Announce
  <2> QED BY <1>6, <2>1, <2>2 DEF Announce, Types
<1>7. CASE Finish(p, c)
  <2>1. call' \in [Projects -> [Checks -> Calls]]
    BY <1>7, GoToTypes DEF Finish, Calls
  <2>2. records' \in [Projects -> Seq(Record)] /\ spent' \in Spent
    BY <1>7, PublishTypes, FailsTypes DEF Finish, Clear, Types
  <2> QED BY <1>7, <2>1, <2>2, ReleaseAllTypes DEF Finish, Types
<1>8. CASE Abandon(p, c)
  <2>1. call' \in [Projects -> [Checks -> Calls]]
    BY <1>8, GoToTypes DEF Abandon, Calls
  <2>2. records' \in [Projects -> Seq(Record)] /\ spent' \in Spent
    BY <1>8, PublishTypes, FailsTypes DEF Abandon, Clear, Types
  <2> QED BY <1>8, <2>1, <2>2, ReleaseAllTypes DEF Abandon, Types
<1> QED BY <1>1, <1>2, <1>3, <1>4, <1>5, <1>6, <1>7, <1>8 DEF CheckStep

LEMMA SupervisorTypes ==
  ASSUME Types, NEW p \in Projects, End(p) \/ StartSupervisor(p)
  PROVE  Types'
<1>1. CASE End(p)
  <2>1. call' \in [Projects -> [Checks -> Calls]]
    BY <1>1 DEF End, Types, Calls
  <2>2. tokens' \in [Projects -> [Kinds -> Int]]
    BY <1>1 DEF End, Types
  <2>3. slot' \in [1..Slots -> Holders \union {None}]
    BY <1>1 DEF End, Types
  <2>4. spent' \in Spent
    BY <1>1, SpentTypes DEF End, Types
  <2> QED BY <1>1, <2>1, <2>2, <2>3, <2>4 DEF End, Types
<1>2. CASE StartSupervisor(p)
  BY <1>2 DEF StartSupervisor, Types
<1> QED BY <1>1, <1>2

LEMMA GateGoesTypes ==
  ASSUME Types, NEW g \in Gates, NEW pc \in GatePcs, GateGoes(g, pc)
  PROVE  gate' \in [Gates -> Gate]
BY DEF Types, GateGoes, Gate

LEMMA GateTypes ==
  ASSUME Types, NEW g \in Gates, Enter(g) \/ GateStep(g) \/ Build(g) \/ GateEnds(g)
  PROVE  Types'
<1>1. OnlyGate
  BY DEF Enter, GateStep, Poll, Try, Recheck, Watch, Yield, Build, GateEnds
<1>2. slot' \in [1..Slots -> Holders \union {None}]
  BY WithoutTypes DEF Enter, GateStep, Poll, Try, Recheck, Watch, Yield, Build, GateEnds, Types, Holders
<1>3. gate' \in [Gates -> Gate]
  <2>1. CASE Enter(g)
    BY <2>1, SlotsAssumption DEF Enter, Types, Gate, GatePcs
  <2>2. CASE Yield(g)
    <3>1. CASE gate[g].pc = "yielding" /\ gate[g].attempt < YieldRetries
      <4>1. gate[g].attempt + 1 \in 0..YieldRetries
        BY <3>1, SlotsAssumption DEF Types, Gate
      <4>2. [pc |-> "polling", attempt |-> gate[g].attempt + 1] \in Gate
        BY <4>1 DEF Gate, GatePcs
      <4> QED BY <2>2, <3>1, <4>2 DEF Yield, Types
    <3>2. CASE ~(gate[g].pc = "yielding" /\ gate[g].attempt < YieldRetries)
      BY <2>2, <3>2, GateGoesTypes DEF Yield, GatePcs
    <3> QED BY <3>1, <3>2
  <2>3. CASE ~Enter(g) /\ ~Yield(g)
    <3>1. PICK pc \in GatePcs : GateGoes(g, pc)
      BY <2>3 DEF GateStep, Poll, Try, Recheck, Watch, Build, GateEnds, GatePcs
    <3> QED BY <3>1 DEF GateGoes, Types, Gate
  <2> QED BY <2>1, <2>2, <2>3
<1> QED BY <1>1, <1>2, <1>3 DEF OnlyGate, Types

LEMMA TypesStep == Types /\ [Next]_vars => Types'
<1>1. Types /\ Next => Types'
  BY CheckTypes, SupervisorTypes, GateTypes DEF Next
<1>2. Types /\ UNCHANGED vars => Types'
  BY DEF Types, vars
<1> QED BY <1>1, <1>2

LEMMA TypesHold == Spec => []Types
BY TypesInit, TypesStep, PTL DEF Spec

-----------------------------------------------------------------------------
(* PermitsMatch, part by part. *)

Unheld == {"none", "asked"}
OnMachine == {"granted", "announcing", "running"}
OnSlot == {"holding", "testing", "building", "yielding", "stopping"}

InUse(p, k) == {c \in Checks : Class(c) = k /\ call[p][c] \notin Unheld}
TokensMatch == \A p \in Projects, k \in Kinds : tokens[p][k] = Cardinality(InUse(p, k))

SlotHolders == {slot[i] : i \in 1..Slots} \ {None}
Granted == {h \in Projects \X Heavy : call[h[1]][h[2]] \in OnMachine}
GatesOn == {g \in Gates : gate[g].pc \in OnSlot}
SlotsMatch == SlotHolders = Granted \union GatesOn

WaitersMatch == waiters = {h \in Projects \X Heavy : call[h[1]][h[2]] \in {"waiting", "granted"}}

LEMMA PermitParts == PermitsMatch <=> TokensMatch /\ SlotsMatch /\ WaitersMatch
BY DEF PermitsMatch, TokensMatch, SlotsMatch, WaitersMatch, InUse, Kinds, Unheld, OnMachine, OnSlot,
       SlotHolders, Granted, GatesOn

LEMMA InUseFinite ==
  ASSUME NEW p, NEW k
  PROVE  IsFiniteSet(InUse(p, k)) /\ Cardinality(InUse(p, k)) \in Nat
BY SlotsAssumption, FS_Subset, FS_CardinalityType DEF InUse

(* Where the calls are after one of them moved. *)
LEMMA CallMoved ==
  ASSUME Types, NEW p \in Projects, NEW c \in Checks, NEW pc, GoTo(p, c, pc)
  PROVE  \A q \in Projects, d \in Checks :
           call'[q][d] = IF q = p /\ d = c THEN pc ELSE call[q][d]
BY DEF Types, GoTo

LEMMA TokensKept ==
  ASSUME Types, TokensMatch, NEW p \in Projects, NEW c \in Checks, NEW pc, GoTo(p, c, pc),
         UNCHANGED tokens,
         call[p][c] \in Unheld <=> pc \in Unheld
  PROVE  TokensMatch'
<1>1. ASSUME NEW q \in Projects, NEW k \in Kinds
      PROVE  InUse(q, k)' = InUse(q, k)
  BY CallMoved DEF InUse
<1> QED BY <1>1 DEF TokensMatch

LEMMA TokenTaken ==
  ASSUME Types, TokensMatch, NEW p \in Projects, NEW c \in Checks, TakeTurn(p, c)
  PROVE  TokensMatch'
<1>1. GoTo(p, c, "turn") /\ call[p][c] = "asked"
  BY DEF TakeTurn
<1>2. \A q \in Projects, d \in Checks :
        call'[q][d] = IF q = p /\ d = c THEN "turn" ELSE call[q][d]
  BY <1>1, CallMoved
<1>3. \A q \in Projects, k \in Kinds :
        tokens'[q][k] = IF q = p /\ k = Class(c) THEN tokens[q][k] + 1 ELSE tokens[q][k]
  BY ClassIsKind DEF TakeTurn, Types
<1>4. InUse(p, Class(c))' = InUse(p, Class(c)) \union {c} /\ c \notin InUse(p, Class(c))
  BY <1>1, <1>2 DEF InUse, Unheld
<1>5. Cardinality(InUse(p, Class(c)))' = Cardinality(InUse(p, Class(c))) + 1
  BY <1>4, InUseFinite, FS_AddElement
<1>6. ASSUME NEW q \in Projects, NEW k \in Kinds, ~(q = p /\ k = Class(c))
      PROVE  InUse(q, k)' = InUse(q, k)
  BY <1>2, <1>6 DEF InUse
<1>7. tokens[p][Class(c)] = Cardinality(InUse(p, Class(c)))
  BY ClassIsKind DEF TokensMatch
<1> QED BY <1>3, <1>5, <1>6, <1>7 DEF TokensMatch

LEMMA TokenReturned ==
  ASSUME Types, TokensMatch, NEW p \in Projects, NEW c \in Checks,
         ReleaseAll(p, c), GoTo(p, c, "none"), call[p][c] \notin Unheld
  PROVE  TokensMatch'
<1>2. \A q \in Projects, d \in Checks :
        call'[q][d] = IF q = p /\ d = c THEN "none" ELSE call[q][d]
  BY CallMoved
<1>3. \A q \in Projects, k \in Kinds :
        tokens'[q][k] = IF q = p /\ k = Class(c) THEN tokens[q][k] - 1 ELSE tokens[q][k]
  BY ClassIsKind DEF ReleaseAll, Types, Unheld
<1>4. InUse(p, Class(c))' = InUse(p, Class(c)) \ {c} /\ c \in InUse(p, Class(c))
  BY <1>2 DEF InUse, Unheld
<1>5. Cardinality(InUse(p, Class(c)))' = Cardinality(InUse(p, Class(c))) - 1
  BY <1>4, InUseFinite, FS_RemoveElement
<1>6. ASSUME NEW q \in Projects, NEW k \in Kinds, ~(q = p /\ k = Class(c))
      PROVE  InUse(q, k)' = InUse(q, k)
  BY <1>2, <1>6 DEF InUse
<1>7. tokens[p][Class(c)] = Cardinality(InUse(p, Class(c)))
  BY ClassIsKind DEF TokensMatch
<1> QED BY <1>3, <1>5, <1>6, <1>7 DEF TokensMatch

(* The holders of the slots after one is taken or given back. *)
LEMMA HoldersTake ==
  ASSUME Types, NEW h, NEW i \in Free, slot' = [slot EXCEPT ![i] = h], h # None
  PROVE  SlotHolders' = SlotHolders \union {h}
BY DEF Types, Free, SlotHolders

LEMMA HoldersWithout ==
  ASSUME Types, NEW h, slot' = Without(slot, h)
  PROVE  SlotHolders' = SlotHolders \ {h}
BY DEF Types, Without, SlotHolders

LEMMA Apart ==
  ASSUME NEW p \in Projects, NEW c \in Checks
  PROVE  <<p, c>> # None /\ <<p, c>> \notin Gates
BY SlotsAssumption

(* Only heavy checks get as far as the machine's slots. *)
HeavyWaits ==
  \A p \in Projects, c \in Checks :
    call[p][c] \in {"waiting", "granted", "announcing"} => c \in Heavy

(* No class has more permits in use than the project's limit. *)
Limited == \A p \in Projects, k \in Kinds : tokens[p][k] <= LocalSlots

Permits == Types /\ HeavyWaits /\ TokensMatch /\ SlotsMatch /\ WaitersMatch

(* A call moves and no slot changes hands. *)
LEMMA SlotsKept ==
  ASSUME Types, SlotsMatch, NEW p \in Projects, NEW c \in Checks, NEW pc, GoTo(p, c, pc),
         UNCHANGED <<slot, gate>>,
         c \in Heavy => (call[p][c] \in OnMachine <=> pc \in OnMachine)
  PROVE  SlotsMatch'
<1>1. Granted' = Granted
  <2>1. \A h \in Projects \X Heavy : call'[h[1]][h[2]] \in OnMachine <=> call[h[1]][h[2]] \in OnMachine
    BY CallMoved, SlotsAssumption
  <2> QED BY <2>1 DEF Granted
<1>2. SlotHolders' = SlotHolders /\ GatesOn' = GatesOn
  BY DEF SlotHolders, GatesOn
<1> QED BY <1>1, <1>2 DEF SlotsMatch

LEMMA SlotTaken ==
  ASSUME Permits, NEW p \in Projects, NEW c \in Checks, AcquireMachine(p, c)
  PROVE  SlotsMatch'
<1>1. GoTo(p, c, "granted") /\ call[p][c] = "waiting" /\ c \in Heavy
  BY DEF AcquireMachine, Permits, HeavyWaits
<1>2. Granted' = Granted \union {<<p, c>>}
  BY <1>1, CallMoved, SlotsAssumption DEF Permits, Granted, OnMachine
<1>3. SlotHolders' = SlotHolders \union {<<p, c>>}
  BY Apart, HoldersTake DEF AcquireMachine, Permits
<1>4. GatesOn' = GatesOn
  BY DEF AcquireMachine, GatesOn
<1> QED BY <1>2, <1>3, <1>4 DEF Permits, SlotsMatch

LEMMA SlotReturned ==
  ASSUME Types, SlotsMatch, NEW p \in Projects, NEW c \in Checks,
         ReleaseAll(p, c), GoTo(p, c, "none"), UNCHANGED gate
  PROVE  SlotsMatch'
<1>1. Granted' = Granted \ {<<p, c>>}
  <2>1. \A h \in Projects \X Heavy :
          call'[h[1]][h[2]] \in OnMachine <=> h # <<p, c>> /\ call[h[1]][h[2]] \in OnMachine
    BY CallMoved, SlotsAssumption DEF OnMachine
  <2> QED BY <2>1 DEF Granted
<1>2. SlotHolders' = SlotHolders \ {<<p, c>>}
  BY HoldersWithout DEF ReleaseAll
<1>3. GatesOn' = GatesOn /\ <<p, c>> \notin GatesOn
  BY Apart DEF GatesOn
<1> QED BY <1>1, <1>2, <1>3 DEF SlotsMatch

(* The waiters when a call moves and its registration with it. *)
LEMMA WaitersMove ==
  ASSUME Types, WaitersMatch, NEW p \in Projects, NEW c \in Checks, NEW pc, GoTo(p, c, pc),
         \/ /\ pc \in {"waiting", "granted"} /\ c \in Heavy
            /\ waiters' = waiters \union {<<p, c>>}
         \/ /\ pc \notin {"waiting", "granted"}
            /\ waiters' = waiters \ {<<p, c>>}
  PROVE  WaitersMatch'
<1>1. \A h \in Projects \X Heavy :
        call'[h[1]][h[2]] = IF h = <<p, c>> THEN pc ELSE call[h[1]][h[2]]
  BY CallMoved, SlotsAssumption
<1> QED BY <1>1 DEF WaitersMatch

LEMMA HeavyWaitsKept ==
  ASSUME Types, HeavyWaits, NEW p \in Projects, NEW c \in Checks, NEW pc, GoTo(p, c, pc),
         pc \in {"waiting", "granted", "announcing"} => c \in Heavy
  PROVE  HeavyWaits'
BY CallMoved DEF HeavyWaits

LEMMA CheckPermits ==
  ASSUME Permits, NEW p \in Projects, NEW c \in Checks,
         Ask(p, c) \/ CheckStep(p, c) \/ Abandon(p, c)
  PROVE  Permits'
<1> USE DEF Permits
<1>t. Types'
  BY CheckTypes
<1>r. ASSUME ReleaseAll(p, c), GoTo(p, c, "none"), call[p][c] \notin Unheld, UNCHANGED gate
      PROVE  Permits'
  BY <1>t, <1>r, HeavyWaitsKept, TokenReturned, SlotReturned, WaitersMove DEF ReleaseAll
<1>1. CASE Ask(p, c)
  <2>1. PICK pc \in {"asked", "none"} : GoTo(p, c, pc)
    BY <1>1 DEF Ask
  <2>2. call[p][c] = "none" /\ <<p, c>> \notin waiters
    BY <1>1 DEF Ask, WaitersMatch
  <2>3. waiters' = waiters \ {<<p, c>>}
    BY <1>1, <2>2 DEF Ask
  <2>4. HeavyWaits' /\ WaitersMatch'
    BY <2>1, <2>3, HeavyWaitsKept, WaitersMove
  <2>5. TokensMatch'
    BY <1>1, <2>1, <2>2, TokensKept DEF Ask, Unheld
  <2>6. SlotsMatch'
    BY <1>1, <2>1, <2>2, SlotsKept DEF Ask, OnMachine
  <2> QED BY <1>t, <2>4, <2>5, <2>6
<1>2. CASE TakeTurn(p, c)
  <2>1. GoTo(p, c, "turn") /\ call[p][c] = "asked" /\ <<p, c>> \notin waiters
    BY <1>2 DEF TakeTurn, WaitersMatch
  <2>2. waiters' = waiters \ {<<p, c>>}
    BY <1>2, <2>1 DEF TakeTurn
  <2>3. HeavyWaits' /\ WaitersMatch'
    BY <2>1, <2>2, HeavyWaitsKept, WaitersMove
  <2>4. TokensMatch'
    BY <1>2, TokenTaken
  <2>5. SlotsMatch'
    BY <1>2, <2>1, SlotsKept DEF TakeTurn, OnMachine
  <2> QED BY <1>t, <2>3, <2>4, <2>5
<1>3. CASE Register(p, c)
  <2>1. GoTo(p, c, "waiting") /\ call[p][c] = "turn" /\ c \in Heavy
    BY <1>3 DEF Register
  <2>2. HeavyWaits' /\ WaitersMatch'
    BY <1>3, <2>1, HeavyWaitsKept, WaitersMove DEF Register
  <2>3. TokensMatch'
    BY <1>3, <2>1, TokensKept DEF Register, Unheld
  <2>4. SlotsMatch'
    BY <1>3, <2>1, SlotsKept DEF Register, OnMachine
  <2> QED BY <1>t, <2>2, <2>3, <2>4
<1>4. CASE AcquireMachine(p, c)
  <2>1. /\ GoTo(p, c, "granted") /\ call[p][c] = "waiting" /\ c \in Heavy
        /\ <<p, c>> \in waiters
    BY <1>4 DEF AcquireMachine, HeavyWaits, WaitersMatch
  <2>2. waiters' = waiters \union {<<p, c>>}
    BY <1>4, <2>1 DEF AcquireMachine
  <2>3. HeavyWaits' /\ WaitersMatch'
    BY <2>1, <2>2, HeavyWaitsKept, WaitersMove
  <2>4. TokensMatch'
    BY <1>4, <2>1, TokensKept DEF AcquireMachine, Unheld
  <2> QED BY <1>t, <1>4, <2>3, <2>4, SlotTaken
<1>5. CASE ClearWaiter(p, c)
  <2>1. GoTo(p, c, "announcing") /\ call[p][c] = "granted" /\ c \in Heavy
    BY <1>5 DEF ClearWaiter, HeavyWaits
  <2>2. HeavyWaits' /\ WaitersMatch'
    BY <1>5, <2>1, HeavyWaitsKept, WaitersMove DEF ClearWaiter
  <2>3. TokensMatch'
    BY <1>5, <2>1, TokensKept DEF ClearWaiter, Unheld
  <2>4. SlotsMatch'
    BY <1>5, <2>1, SlotsKept DEF ClearWaiter, OnMachine
  <2> QED BY <1>t, <2>2, <2>3, <2>4
<1>6. CASE Announce(p, c)
  <2>1. /\ GoTo(p, c, "running") /\ call[p][c] \in {"turn", "announcing"}
        /\ c \in Heavy => call[p][c] = "announcing"
        /\ <<p, c>> \notin waiters
    BY <1>6 DEF Announce, WaitersMatch
  <2>2. waiters' = waiters \ {<<p, c>>}
    BY <1>6, <2>1 DEF Announce
  <2>3. HeavyWaits' /\ WaitersMatch'
    BY <2>1, <2>2, HeavyWaitsKept, WaitersMove
  <2>4. TokensMatch'
    BY <1>6, <2>1, TokensKept DEF Announce, Unheld
  <2>5. SlotsMatch'
    BY <1>6, <2>1, SlotsKept DEF Announce, OnMachine
  <2> QED BY <1>t, <2>3, <2>4, <2>5
<1>7. CASE Finish(p, c)
  BY <1>7, <1>r DEF Finish, Unheld
<1>8. CASE Abandon(p, c) /\ call[p][c] # "asked"
  BY <1>8, <1>r DEF Abandon, Unheld
<1>9. CASE Abandon(p, c) /\ call[p][c] = "asked"
  <2>1. GoTo(p, c, "none") /\ waiters' = waiters \ {<<p, c>>} /\ ReleaseAll(p, c) /\ UNCHANGED gate
    BY <1>9 DEF Abandon, ReleaseAll
  <2>2. tokens' = tokens
    <3>1. \A q \in Projects, k \in Kinds :
            tokens'[q][k] = IF q = p /\ k = Class(c) THEN tokens[q][k] - 0 ELSE tokens[q][k]
      BY <1>9, <2>1, ClassIsKind DEF ReleaseAll, Types
    <3>2. tokens' \in [Projects -> [Kinds -> Int]]
      BY <2>1, ReleaseAllTypes
    <3>3. \A q \in Projects, k \in Kinds : tokens'[q][k] = tokens[q][k]
      BY <3>1 DEF Types
    <3> QED BY <3>2, <3>3 DEF Types
  <2>3. HeavyWaits' /\ WaitersMatch'
    BY <2>1, HeavyWaitsKept, WaitersMove
  <2>4. TokensMatch'
    BY <1>9, <2>1, <2>2, TokensKept DEF Unheld
  <2>5. SlotsMatch'
    BY <2>1, SlotReturned
  <2> QED BY <1>t, <2>3, <2>4, <2>5
<1> QED BY <1>1, <1>2, <1>3, <1>4, <1>5, <1>6, <1>7, <1>8, <1>9 DEF CheckStep

LEMMA SupervisorPermits ==
  ASSUME Permits, NEW p \in Projects, End(p) \/ StartSupervisor(p)
  PROVE  Permits'
<1> USE DEF Permits
<1>t. Types'
  BY SupervisorTypes
<1>1. CASE End(p)
  <2>1. \A q \in Projects, d \in Checks :
          call'[q][d] = IF q = p THEN "none" ELSE call[q][d]
    BY <1>1 DEF End, Types
  <2>2. \A q \in Projects, k \in Kinds :
          tokens'[q][k] = IF q = p THEN 0 ELSE tokens[q][k]
    BY <1>1 DEF End, Types
  <2>3. \A k \in Kinds : InUse(p, k)' = {}
    BY <2>1 DEF InUse, Unheld
  <2>4. \A q \in Projects \ {p}, k \in Kinds : InUse(q, k)' = InUse(q, k)
    BY <2>1 DEF InUse
  <2>5. TokensMatch'
    <3> SUFFICES ASSUME NEW q \in Projects, NEW k \in Kinds
                 PROVE  tokens'[q][k] = Cardinality(InUse(q, k)')
      BY DEF TokensMatch
    <3>1. CASE q = p
      BY <3>1, <2>2, <2>3, FS_EmptySet
    <3>2. CASE q # p
      <4>1. InUse(q, k)' = InUse(q, k)
        BY <3>2, <2>4
      <4> QED BY <3>2, <4>1, <2>2 DEF TokensMatch
    <3> QED BY <3>1, <3>2
  <2>6. SlotHolders' = SlotHolders \ ({p} \X Checks)
    BY <1>1 DEF End, Types, SlotHolders
  <2>7. Granted' = Granted \ ({p} \X Checks)
    BY <2>1, SlotsAssumption DEF Granted, OnMachine
  <2>8. GatesOn' = GatesOn /\ GatesOn \intersect ({p} \X Checks) = {}
    BY <1>1, SlotsAssumption DEF End, GatesOn
  <2>9. SlotsMatch'
    BY <2>6, <2>7, <2>8 DEF SlotsMatch
  <2>10. WaitersMatch'
    BY <1>1, <2>1, SlotsAssumption DEF End, WaitersMatch
  <2>11. HeavyWaits'
    BY <2>1 DEF HeavyWaits
  <2> QED BY <1>t, <2>5, <2>9, <2>10, <2>11
<1>2. CASE StartSupervisor(p)
  BY <1>t, <1>2 DEF StartSupervisor, TokensMatch, InUse, SlotsMatch, SlotHolders, Granted, GatesOn,
                    WaitersMatch, HeavyWaits
<1> QED BY <1>1, <1>2

(* What a gate's step does to the slots: nothing, or one is taken by a gate *)
(* that then is on a slot, or given back by one that then is not.           *)
LEMMA GateMoves ==
  ASSUME Types, NEW g \in Gates, Enter(g) \/ GateStep(g) \/ Build(g) \/ GateEnds(g)
  PROVE  /\ \A h \in Gates : h # g => gate'[h] = gate[h]
         /\ \/ slot' = slot /\ (gate'[g].pc \in OnSlot <=> gate[g].pc \in OnSlot)
            \/ /\ \E i \in Free : slot' = [slot EXCEPT ![i] = g]
               /\ gate'[g].pc \in OnSlot
            \/ slot' = Without(slot, g) /\ gate'[g].pc \notin OnSlot
<1>1. \A h \in Gates : h # g => gate'[h] = gate[h]
  BY DEF Types, Enter, GateStep, Poll, Try, Recheck, Watch, Yield, Build, GateEnds, GateGoes
<1>2. ASSUME NEW pc, GateGoes(g, pc)
      PROVE  gate'[g].pc = pc
  BY <1>2 DEF Types, Gate, GateGoes
<1>3. CASE Enter(g)
  BY <1>1, <1>3 DEF Enter, OnSlot, Types
<1>4. CASE Poll(g)
  BY <1>1, <1>2, <1>4 DEF Poll, OnSlot
<1>5. CASE Try(g)
  BY <1>1, <1>2, <1>5 DEF Try, OnSlot
<1>6. CASE Recheck(g)
  BY <1>1, <1>2, <1>6 DEF Recheck, OnSlot
<1>7. CASE Watch(g)
  BY <1>1, <1>2, <1>7 DEF Watch, OnSlot
<1>8. CASE Yield(g)
  BY <1>1, <1>2, <1>8 DEF Yield, OnSlot, Types
<1>9. CASE Build(g)
  BY <1>1, <1>2, <1>9 DEF Build, OnSlot
<1>10. CASE GateEnds(g)
  BY <1>1, <1>2, <1>10 DEF GateEnds, OnSlot
<1> QED BY <1>3, <1>4, <1>5, <1>6, <1>7, <1>8, <1>9, <1>10 DEF GateStep

LEMMA GatePermits ==
  ASSUME Permits, NEW g \in Gates, Enter(g) \/ GateStep(g) \/ Build(g) \/ GateEnds(g)
  PROVE  Permits'
<1> USE DEF Permits
<1>t. Types'
  BY GateTypes
<1>1. UNCHANGED <<call, tokens, waiters>>
  BY DEF Enter, GateStep, Poll, Try, Recheck, Watch, Yield, Build, GateEnds, OnlyGate
<1>2. TokensMatch' /\ WaitersMatch' /\ HeavyWaits' /\ Granted' = Granted
  BY <1>1 DEF TokensMatch, InUse, WaitersMatch, HeavyWaits, Granted
<1>3. g \notin Granted /\ g # None
  BY SlotsAssumption DEF Granted
<1>4. CASE slot' = slot /\ (gate'[g].pc \in OnSlot <=> gate[g].pc \in OnSlot)
  <2>1. GatesOn' = GatesOn /\ SlotHolders' = SlotHolders
    BY <1>4, GateMoves DEF GatesOn, SlotHolders
  <2> QED BY <1>t, <1>2, <2>1 DEF SlotsMatch
<1>5. CASE (\E i \in Free : slot' = [slot EXCEPT ![i] = g]) /\ gate'[g].pc \in OnSlot
  <2>1. GatesOn' = GatesOn \union {g}
    BY <1>5, GateMoves DEF GatesOn
  <2>2. SlotHolders' = SlotHolders \union {g}
    BY <1>3, <1>5, HoldersTake
  <2> QED BY <1>t, <1>2, <2>1, <2>2 DEF SlotsMatch
<1>6. CASE slot' = Without(slot, g) /\ gate'[g].pc \notin OnSlot
  <2>1. GatesOn' = GatesOn \ {g}
    BY <1>6, GateMoves DEF GatesOn
  <2>2. SlotHolders' = SlotHolders \ {g}
    BY <1>6, HoldersWithout
  <2> QED BY <1>t, <1>2, <1>3, <2>1, <2>2 DEF SlotsMatch
<1> QED BY <1>4, <1>5, <1>6, GateMoves

LEMMA PermitsInit == Init => Permits
<1> SUFFICES ASSUME Init PROVE Permits
  OBVIOUS
<1>1. \A p \in Projects, k \in Kinds : InUse(p, k) = {} /\ tokens[p][k] = 0
  BY DEF Init, InUse, Kinds, Unheld
<1>2. TokensMatch
  BY <1>1, FS_EmptySet DEF TokensMatch
<1>3. SlotHolders = {} /\ Granted = {} /\ GatesOn = {}
  BY SlotsAssumption DEF Init, SlotHolders, Granted, GatesOn, OnMachine, OnSlot
<1>4. WaitersMatch /\ HeavyWaits
  BY SlotsAssumption DEF Init, WaitersMatch, HeavyWaits
<1> QED BY <1>2, <1>3, <1>4, TypesInit DEF Permits, SlotsMatch

LEMMA PermitsStep == Permits /\ [Next]_vars => Permits'
<1>1. Permits /\ Next => Permits'
  BY CheckPermits, SupervisorPermits, GatePermits DEF Next
<1>2. Permits /\ UNCHANGED vars => Permits'
  BY TypesStep DEF Permits, vars, TokensMatch, InUse, SlotsMatch, SlotHolders, Granted, GatesOn,
                   WaitersMatch, HeavyWaits
<1> QED BY <1>1, <1>2

(* Permits are held by exactly the calls and gates that use them           *)
(* (PermitsMatch): every path of checkPermit and of a release gate gives   *)
(* back what it took, whatever fails, yields or dies.                      *)
THEOREM PermitsAlwaysMatch == Spec => []PermitsMatch
<1>1. Permits => PermitsMatch
  BY PermitParts DEF Permits
<1> QED BY <1>1, PermitsInit, PermitsStep, PTL DEF Spec

-----------------------------------------------------------------------------
(* TypeOK: what the types leave open follows from the permits. *)

LEMMA LimitedStep == Types /\ Limited /\ [Next]_vars => Limited'
<1> SUFFICES ASSUME Types, Limited, [Next]_vars PROVE Limited'
  OBVIOUS
<1>1. ASSUME NEW p \in Projects, NEW c \in Checks, TakeTurn(p, c)
      PROVE  Limited'
  <2>1. \A q \in Projects, k \in Kinds :
          tokens'[q][k] = IF q = p /\ k = Class(c) THEN tokens[q][k] + 1 ELSE tokens[q][k]
    BY <1>1, ClassIsKind DEF TakeTurn, Types
  <2>2. tokens[p][Class(c)] \in Int /\ tokens[p][Class(c)] < Turns(Class(c))
    BY <1>1, ClassIsKind DEF TakeTurn, Types
  <2>3. Turns(Class(c)) \in Int /\ Turns(Class(c)) <= LocalSlots
    BY SlotsAssumption DEF Turns
  <2>4. tokens[p][Class(c)] + 1 <= LocalSlots
    BY <2>2, <2>3, SlotsAssumption
  <2> QED BY <2>1, <2>4 DEF Limited
<1>2. ASSUME NEW p \in Projects, NEW c \in Checks, ReleaseAll(p, c)
      PROVE  Limited'
  <2>1. \A q \in Projects, k \in Kinds :
          tokens'[q][k] \in {tokens[q][k], tokens[q][k] - 0, tokens[q][k] - 1}
    BY <1>2, ClassIsKind DEF ReleaseAll, Types
  <2>2. ASSUME NEW q \in Projects, NEW k \in Kinds
        PROVE  tokens'[q][k] <= LocalSlots
    <3>1. tokens[q][k] \in Int /\ tokens[q][k] <= LocalSlots /\ LocalSlots \in Int
      BY SlotsAssumption DEF Limited, Types
    <3> QED BY <2>1, <3>1
  <2> QED BY <2>2 DEF Limited
<1>3. ASSUME NEW p \in Projects, End(p)
      PROVE  Limited'
  <2>1. \A q \in Projects, k \in Kinds : tokens'[q][k] \in {tokens[q][k], 0}
    BY <1>3 DEF End, Types
  <2> QED BY <2>1, SlotsAssumption DEF Limited
<1>4. CASE UNCHANGED tokens
  BY <1>4 DEF Limited
<1> QED BY <1>1, <1>2, <1>3, <1>4
        DEF Next, vars, CheckStep, Ask, Register, AcquireMachine, ClearWaiter, Announce, Finish, Abandon,
            StartSupervisor, Enter, GateStep, Poll, Try, Recheck, Watch, Yield, Build, GateEnds, OnlyGate

(* Every record is of a kind the code writes, permits stay within the      *)
(* project's limit, and only heavy checks and gates are on the machine's   *)
(* slots (TypeOK).                                                         *)
THEOREM TypeCorrect == Spec => []TypeOK
<1>1. Permits /\ Limited => TypeOK
  <2> SUFFICES ASSUME Permits, Limited PROVE TypeOK
    OBVIOUS
  <2> USE DEF Permits
  <2>1. ASSUME NEW p \in Projects, NEW i \in DOMAIN records[p]
        PROVE  records[p][i] \in Record
    BY ElementOfSeq, LenProperties DEF Types
  <2>2. ASSUME NEW g \in Gates
        PROVE  gate[g].attempt \in 0..YieldRetries
    BY DEF Types, Gate
  <2>3. ASSUME NEW p \in Projects, NEW k \in Kinds
        PROVE  tokens[p][k] \in 0..LocalSlots
    <3>1. tokens[p][k] \in Nat
      BY InUseFinite DEF TokensMatch
    <3> QED BY <3>1, SlotsAssumption DEF Limited
  <2>4. tokens \in [Projects -> [Kinds -> 0..LocalSlots]]
    BY <2>3 DEF Types
  <2>5. ASSUME NEW i \in 1..Slots
        PROVE  slot[i] \in (Projects \X Heavy) \union Gates \union {None}
    <3>1. slot[i] # None => slot[i] \in SlotHolders
      BY DEF SlotHolders
    <3> QED BY <3>1 DEF SlotsMatch, Granted, GatesOn
  <2>6. slot \in [1..Slots -> (Projects \X Heavy) \union Gates \union {None}]
    BY <2>5 DEF Types
  <2> QED BY <2>1, <2>2, <2>4, <2>6 DEF Types, TypeOK, Record, Kinds
<1>2. Init => Limited
  BY SlotsAssumption DEF Init, Limited, Kinds
<1>3. Permits => Types
  BY DEF Permits
<1> QED BY <1>1, <1>2, <1>3, PermitsInit, PermitsStep, LimitedStep, PTL DEF Spec

-----------------------------------------------------------------------------
(* InTurn: the queue of each class. *)

Distinct(list) == \A i, j \in DOMAIN list : list[i].check = list[j].check => i = j
Has(list, c) == \E i \in DOMAIN list : list[i].check = c

(* The queued records of c's class that stand before c's. *)
Ahead(list, c) ==
  {i \in DOMAIN list : /\ list[i].phase = "queued"
                       /\ Class(list[i].check) = Class(c)
                       /\ \E j \in DOMAIN list : i < j /\ list[j].check = c}

LEMMA RankIsAhead ==
  ASSUME NEW list \in Seq(Record), Distinct(list), NEW c, Has(list, c)
  PROVE  Rank(list, c) = 0 <=> Ahead(list, c) = {}
<1> DEFINE at == CHOOSE i \in DOMAIN list : list[i].check = c
           before == {i \in 1..(at - 1) : list[i].phase = "queued" /\ Class(list[i].check) = Class(c)}
<1>1. at \in DOMAIN list /\ list[at].check = c
  BY DEF Has
<1>2. DOMAIN list = 1..Len(list) /\ Len(list) \in Nat
  BY LenProperties
<1>3. Rank(list, c) = Cardinality(before)
  BY DEF Rank
<1> HIDE DEF at
<1>4. before = Ahead(list, c)
  BY <1>1, <1>2 DEF Ahead, Distinct
<1>5. IsFiniteSet(before)
  <2>0. at \in Int
    BY <1>1, <1>2
  <2>1. IsFiniteSet(1..(at - 1))
    BY <2>0, FS_Interval
  <2>2. before \in SUBSET (1..(at - 1))
    OBVIOUS
  <2> HIDE DEF before
  <2> QED BY <2>1, <2>2, FS_Subset
<1> QED BY <1>3, <1>4, <1>5, FS_EmptySet

(* s is list without c's record, in list's order. *)
Others(list, s, c) ==
  /\ \A i \in DOMAIN s : s[i].check # c
  /\ \A i, j \in DOMAIN s : \E x, y \in DOMAIN list :
       list[x] = s[i] /\ list[y] = s[j] /\ (i < j <=> x < y)
  /\ \A x \in DOMAIN list : list[x].check # c => \E i \in DOMAIN s : s[i] = list[x]

LEMMA RemoveRecordOrder ==
  ASSUME NEW list \in Seq(Record), Distinct(list), NEW c
  PROVE  Others(list, RemoveRecord(list, c), c)
<1> DEFINE k == CHOOSE i \in DOMAIN list : list[i].check = c
           s == RemoveRecord(list, c)
           from(i) == IF i < k THEN i ELSE i + 1
<1>0. DOMAIN list = 1..Len(list) /\ Len(list) \in Nat
  BY LenProperties
<1>1. CASE ~Has(list, c)
  <2>1. s = list
    BY <1>1 DEF RemoveRecord, Has
  <2> QED BY <2>1, <1>1, <1>0 DEF Has, Others
<1>2. CASE Has(list, c)
  <2>1. k \in 1..Len(list) /\ list[k].check = c
    BY <1>2, <1>0 DEF Has
  <2>2. s = RemoveAt(list, k)
    BY <1>2 DEF RemoveRecord, Has
  <2> HIDE DEF k, s
  <2>3. /\ s \in Seq(Record) /\ Len(s) = Len(list) - 1
        /\ \A i \in 1..(Len(list) - 1) : s[i] = list[IF i < k THEN i ELSE i + 1]
    BY <2>1, <2>2, <1>0, RemoveAtFacts
  <2>4. DOMAIN s = 1..(Len(list) - 1)
    BY <2>3, LenProperties
  <2>5. ASSUME NEW i \in DOMAIN s
        PROVE  from(i) \in DOMAIN list /\ from(i) # k /\ s[i] = list[from(i)]
    BY <2>1, <2>3, <2>4, <1>0
  <2>6. \A i \in DOMAIN s : s[i].check # c
    BY <2>1, <2>5, <1>0 DEF Distinct
  <2>7. \A i, j \in DOMAIN s : i < j <=> from(i) < from(j)
    BY <2>1, <2>4, <1>0
  <2>8. ASSUME NEW x \in DOMAIN list, list[x].check # c
        PROVE  \E i \in DOMAIN s : s[i] = list[x]
    <3>1. CASE x < k
      <4>1. x \in DOMAIN s /\ from(x) = x
        BY <3>1, <2>1, <2>4, <1>0
      <4> QED BY <4>1, <2>5
    <3>2. CASE x > k
      <4>1. x - 1 \in DOMAIN s /\ from(x - 1) = x
        BY <3>2, <2>1, <2>4, <1>0
      <4> QED BY <4>1, <2>5
    <3>3. x # k
      BY <2>1, <2>8
    <3> QED BY <3>1, <3>2, <3>3, <2>1, <1>0
  <2>9. \A i, j \in DOMAIN s : \E x, y \in DOMAIN list :
          list[x] = s[i] /\ list[y] = s[j] /\ (i < j <=> x < y)
    <3> HIDE DEF from
    <3> QED BY <2>5, <2>7
  <2> HIDE DEF from
  <2>10. Others(list, s, c)
    BY <2>6, <2>8, <2>9 DEF Others
  <2> QED BY <2>10 DEF s
<1> QED BY <1>1, <1>2

(* r is list after a publication of c in phase: nobody else falls behind. *)
Requeued(list, r, c, phase) ==
  /\ Distinct(r)
  /\ phase # "" => Has(r, c)
  /\ \A d : d # c /\ Has(list, d) => Has(r, d)
  /\ \A d : d # c /\ Ahead(list, d) = {} => Ahead(r, d) = {}

(* The queue that is left when c's record is removed. *)
LEMMA OthersOrder ==
  ASSUME NEW list \in Seq(Record), Distinct(list), NEW c,
         NEW s \in Seq(Record), Others(list, s, c)
  PROVE  /\ Distinct(s)
         /\ \A d : d # c /\ Has(list, d) => Has(s, d)
         /\ \A d : Ahead(list, d) = {} => Ahead(s, d) = {}
<1>1. DOMAIN s = 1..Len(s) /\ Len(s) \in Nat
  BY LenProperties
<1>2. DOMAIN list = 1..Len(list) /\ Len(list) \in Nat
  BY LenProperties
<1>3. Distinct(s)
  <2> SUFFICES ASSUME NEW i \in DOMAIN s, NEW j \in DOMAIN s, s[i].check = s[j].check
               PROVE  i = j
    BY DEF Distinct
  <2>1. PICK x \in DOMAIN list, y \in DOMAIN list :
          list[x] = s[i] /\ list[y] = s[j] /\ (i < j <=> x < y)
    BY DEF Others
  <2>2. PICK u \in DOMAIN list, v \in DOMAIN list :
          list[u] = s[j] /\ list[v] = s[i] /\ (j < i <=> u < v)
    BY DEF Others
  <2>3. x = y /\ u = v
    BY <2>1, <2>2 DEF Distinct
  <2>4. ~(i < j) /\ ~(j < i)
    BY <2>1, <2>2, <2>3, <1>2
  <2> QED BY <2>4, <1>1
<1>4. \A d : d # c /\ Has(list, d) => Has(s, d)
  BY DEF Has, Others
<1>5. ASSUME NEW d, Ahead(list, d) = {}, NEW i \in Ahead(s, d)
      PROVE  FALSE
  <2>1. PICK j \in DOMAIN s : i < j /\ s[j].check = d
    BY <1>5 DEF Ahead
  <2>2. i \in DOMAIN s /\ s[i].phase = "queued" /\ Class(s[i].check) = Class(d)
    BY <1>5 DEF Ahead
  <2>3. PICK x \in DOMAIN list, y \in DOMAIN list : list[x] = s[i] /\ list[y] = s[j] /\ x < y
    BY <2>1, <2>2 DEF Others
  <2>4. x \in Ahead(list, d)
    BY <2>1, <2>2, <2>3 DEF Ahead
  <2> QED BY <2>4, <1>5
<1> QED BY <1>3, <1>4, <1>5

(* r is s with a record of c at its end. *)
AtEnd(s, r, c) ==
  /\ \A i \in DOMAIN s : s[i].check # c
  /\ DOMAIN r = 1..(Len(s) + 1)
  /\ \A i \in 1..Len(s) : r[i] = s[i]
  /\ r[Len(s) + 1].check = c

LEMMA AtTheEnd ==
  ASSUME NEW s \in Seq(Record), Distinct(s), NEW c, NEW r, AtEnd(s, r, c), NEW phase
  PROVE  Requeued(s, r, c, phase)
<1>1. DOMAIN s = 1..Len(s) /\ Len(s) \in Nat
  BY LenProperties
<1>2. Distinct(r)
  BY <1>1 DEF Distinct, AtEnd
<1>3. Has(r, c) /\ \A d : Has(s, d) => Has(r, d)
  BY <1>1 DEF Has, AtEnd
<1>4. ASSUME NEW d, d # c, Ahead(s, d) = {}, NEW i \in Ahead(r, d)
      PROVE  FALSE
  <2>1. PICK j \in DOMAIN r : i < j /\ r[j].check = d
    BY <1>4 DEF Ahead
  <2>2. i \in DOMAIN r /\ r[i].phase = "queued" /\ Class(r[i].check) = Class(d)
    BY <1>4 DEF Ahead
  <2>3. j \in 1..Len(s) /\ i \in 1..Len(s)
    BY <2>1, <2>2, <1>1, <1>4 DEF AtEnd
  <2>4. i \in Ahead(s, d)
    BY <2>1, <2>2, <2>3, <1>1 DEF Ahead, AtEnd
  <2> QED BY <2>4, <1>4
<1> QED BY <1>2, <1>3, <1>4 DEF Requeued

LEMMA AppendPlaces ==
  ASSUME NEW S, NEW s \in Seq(S), NEW e \in S
  PROVE  /\ DOMAIN Append(s, e) = 1..(Len(s) + 1)
         /\ \A i \in 1..Len(s) : Append(s, e)[i] = s[i]
         /\ Append(s, e)[Len(s) + 1] = e
BY AppendProperties, LenProperties

LEMMA RecordedOrder ==
  ASSUME NEW list \in Seq(Record), Distinct(list), NEW c \in Checks,
         NEW phase \in {"", "queued", "running"}
  PROVE  Requeued(list, Recorded(list, c, phase), c, phase)
<1>1. PICK s \in Seq(Record) : s = RemoveRecord(list, c)
  BY RemoveRecordIsSeq
<1>2. Others(list, s, c)
  BY <1>1, RemoveRecordOrder
<1>3. /\ Distinct(s)
      /\ \A d : d # c /\ Has(list, d) => Has(s, d)
      /\ \A d : Ahead(list, d) = {} => Ahead(s, d) = {}
  BY <1>2, OthersOrder
<1>4. CASE phase = ""
  <2>1. Recorded(list, c, phase) = s
    BY <1>1, <1>4 DEF Recorded
  <2> QED BY <1>3, <1>4, <2>1 DEF Requeued
<1>5. CASE phase # ""
  <2>1. PICK new \in Record : new = [check |-> c, phase |-> phase]
    BY <1>5 DEF Record
  <2>2. Recorded(list, c, phase) = Append(s, new)
    BY <1>1, <1>5, <2>1 DEF Recorded
  <2>3. new.check = c
    BY <2>1
  <2>4. PICK r : r = Append(s, new)
    OBVIOUS
  <2>a. /\ DOMAIN Append(s, new) = 1..(Len(s) + 1)
        /\ \A i \in 1..Len(s) : Append(s, new)[i] = s[i]
        /\ Append(s, new)[Len(s) + 1] = new
    BY ONLY s \in Seq(Record), new \in Record, AppendPlaces, Zenon
  <2>5. /\ DOMAIN r = 1..(Len(s) + 1)
        /\ \A i \in 1..Len(s) : r[i] = s[i]
        /\ r[Len(s) + 1] = new
    BY ONLY <2>4, <2>a, Zenon
  <2>6. r[Len(s) + 1].check = c
    BY ONLY <2>3, <2>5
  <2>7. AtEnd(s, r, c)
    BY <1>2, <2>5, <2>6 DEF Others, AtEnd
  <2>8. Requeued(s, r, c, phase)
    BY <1>3, <2>7, AtTheEnd
  <2>9. Requeued(list, r, c, phase)
    BY <1>3, <2>8 DEF Requeued
  <2> QED BY <2>2, <2>4, <2>9
<1> QED BY <1>4, <1>5

Turn == {"turn", "waiting", "granted", "announcing"}

(* Every call has its record, and whoever took its turn is still first.    *)
Queues ==
  /\ \A p \in Projects : Distinct(records[p])
  /\ \A p \in Projects, c \in Checks : call[p][c] # "none" => p \in up /\ Has(records[p], c)
  /\ \A p \in Projects, c \in Checks : call[p][c] \in Turn => Ahead(records[p], c) = {}

(* A step of p's check c that publishes a record or nothing. *)
LEMMA QueuesMove ==
  ASSUME Types, Queues, NEW p \in Projects, NEW c \in Checks, NEW pc, GoTo(p, c, pc),
         p \in up, UNCHANGED up,
         \/ \E phase \in {"", "queued", "running"} : 
              /\ Publish(p, c, phase) /\ pc \notin Turn
              /\ pc # "none" => phase # ""
         \/ /\ UNCHANGED records
            /\ pc # "none" => Has(records[p], c)
            /\ pc \in Turn => Ahead(records[p], c) = {}
  PROVE  Queues'
<1>1. \A q \in Projects, d \in Checks :
        call'[q][d] = IF q = p /\ d = c THEN pc ELSE call[q][d]
  BY ONLY Types, GoTo(p, c, pc), p \in Projects, c \in Checks DEF Types, GoTo
<1>2. CASE /\ UNCHANGED records
           /\ pc # "none" => Has(records[p], c)
           /\ pc \in Turn => Ahead(records[p], c) = {}
  BY <1>1, <1>2 DEF Queues
<1>3. ASSUME NEW phase \in {"", "queued", "running"}, Publish(p, c, phase),
             pc \notin Turn, pc # "none" => phase # ""
      PROVE  Queues'
  <2>1. \A q \in Projects :
          records'[q] = IF q = p THEN Recorded(records[p], c, phase) ELSE records[q]
    BY <1>3 DEF Publish, Types
  <2>2. Requeued(records[p], Recorded(records[p], c, phase), c, phase)
    BY RecordedOrder DEF Types, Queues
  <2>3. \A q \in Projects : Distinct(records'[q])
    BY <2>1, <2>2 DEF Queues, Requeued
  <2>4. \A q \in Projects, d \in Checks :
          call'[q][d] # "none" => q \in up' /\ Has(records'[q], d)
    BY <1>1, <1>3, <2>1, <2>2 DEF Queues, Requeued
  <2>5. \A q \in Projects, d \in Checks : call'[q][d] \in Turn => Ahead(records'[q], d) = {}
    BY <1>1, <1>3, <2>1, <2>2 DEF Queues, Requeued
  <2> QED BY <2>3, <2>4, <2>5 DEF Queues
<1> QED BY <1>2, <1>3

LEMMA QueuesStep == Types /\ Queues /\ [Next]_vars => Queues'
<1> SUFFICES ASSUME Types, Queues, [Next]_vars PROVE Queues'
  OBVIOUS
<1>1. ASSUME NEW p \in Projects, NEW c \in Checks, Ask(p, c) \/ CheckStep(p, c) \/ Abandon(p, c)
      PROVE  Queues'
  <2> USE <1>1
  <2>h. call[p][c] # "none" => p \in up /\ Has(records[p], c)
    BY DEF Queues
  <2>1. CASE Ask(p, c)
    <3>1. p \in up /\ UNCHANGED up /\ Publish(p, c, "queued") /\ (GoTo(p, c, "asked") \/ GoTo(p, c, "none"))
      BY <2>1 DEF Ask
    <3> QED BY <3>1, QueuesMove DEF Turn
  <2>2. CASE TakeTurn(p, c)
    <3>1. Ahead(records[p], c) = {}
      BY <2>2, <2>h, RankIsAhead DEF TakeTurn, Types, Queues
    <3> QED BY <2>2, <2>h, <3>1, QueuesMove DEF TakeTurn
  <2>3. CASE Register(p, c) \/ AcquireMachine(p, c) \/ ClearWaiter(p, c)
    <3>1. call[p][c] \in Turn /\ Ahead(records[p], c) = {}
      BY <2>3 DEF Register, AcquireMachine, ClearWaiter, Turn, Queues
    <3>2. UNCHANGED <<records, up>> /\ \E pc \in Turn : GoTo(p, c, pc)
      BY <2>3 DEF Register, AcquireMachine, ClearWaiter, Turn
    <3> QED BY <2>h, <3>1, <3>2, QueuesMove DEF Turn
  <2>4. CASE Announce(p, c)
    BY <2>4, <2>h, QueuesMove DEF Announce, Turn
  <2>5. CASE Finish(p, c) \/ Abandon(p, c)
    <3>1. p \in up /\ UNCHANGED up /\ GoTo(p, c, "none")
      BY <2>5, <2>h DEF Finish, Abandon
    <3>2. Publish(p, c, "") \/ Publish(p, c, "running") \/ UNCHANGED records
      BY <2>5 DEF Finish, Abandon, Clear
    <3> QED BY <3>1, <3>2, QueuesMove DEF Turn
  <2> QED BY <1>1, <2>1, <2>2, <2>3, <2>4, <2>5 DEF CheckStep
<1>2. ASSUME NEW p \in Projects, End(p)
      PROVE  Queues'
  <2>1. \A q \in Projects, d \in Checks :
          call'[q][d] = IF q = p THEN "none" ELSE call[q][d]
    BY <1>2 DEF End, Types
  <2> QED BY <1>2, <2>1 DEF End, Queues, Turn
<1>3. ASSUME NEW p \in Projects, StartSupervisor(p)
      PROVE  Queues'
  <2>1. \A c \in Checks : call[p][c] = "none"
    BY <1>3 DEF StartSupervisor, Queues
  <2>2. \A q \in Projects : records'[q] = IF q = p THEN <<>> ELSE records[q]
    BY <1>3 DEF StartSupervisor, Types
  <2>3. Distinct(<<>>)
    BY DEF Distinct
  <2> QED BY <1>3, <2>1, <2>2, <2>3 DEF StartSupervisor, Queues, Turn
<1>4. ASSUME NEW g \in Gates, Enter(g) \/ GateStep(g) \/ Build(g) \/ GateEnds(g)
      PROVE  Queues'
  <2>1. UNCHANGED <<records, call, up>>
    BY <1>4 DEF Enter, GateStep, Poll, Try, Recheck, Watch, Yield, Build, GateEnds, OnlyGate
  <2> QED BY <2>1 DEF Queues
<1>5. CASE UNCHANGED vars
  BY <1>5 DEF vars, Queues
<1> QED BY <1>1, <1>2, <1>3, <1>4, <1>5 DEF Next

(* Only Announce starts a check, and its call has had its turn. *)
LEMMA StartsInTurn ==
  ASSUME Types, Queues, [Next]_vars, NEW p \in Projects, NEW c \in Checks,
         call[p][c] # "running", call'[p][c] = "running"
  PROVE  Rank(records[p], c) = 0
<1>1. call[p][c] \in Turn
  <2>1. ASSUME NEW q \in Projects, NEW d \in Checks, Ask(q, d) \/ CheckStep(q, d) \/ Abandon(q, d)
        PROVE  call[p][c] \in Turn
    <3>1. PICK pc \in Calls : GoTo(q, d, pc) /\ (pc = "running" => Announce(q, d))
      <4>1. \/ GoTo(q, d, "asked") \/ GoTo(q, d, "turn") \/ GoTo(q, d, "waiting")
            \/ GoTo(q, d, "granted") \/ GoTo(q, d, "announcing") \/ GoTo(q, d, "none")
            \/ GoTo(q, d, "running") /\ Announce(q, d)
        BY <2>1 DEF Ask, CheckStep, Abandon, TakeTurn, Register, AcquireMachine, ClearWaiter, Announce, Finish
      <4> QED BY <4>1 DEF Calls
    <3>2. q = p /\ d = c /\ pc = "running"
      BY <3>1, CallMoved
    <3> QED BY <3>1, <3>2 DEF Announce, Turn
  <2>2. ASSUME NEW q \in Projects, End(q)
        PROVE  FALSE
    BY <2>2 DEF End, Types
  <2>3. ~UNCHANGED call
    OBVIOUS
  <2> QED BY <2>1, <2>2, <2>3 DEF Next, vars, StartSupervisor, Enter, GateStep, Poll, Try, Recheck, Watch,
                                  Yield, Build, GateEnds, OnlyGate
<1>2. Distinct(records[p]) /\ Has(records[p], c) /\ Ahead(records[p], c) = {} /\ records[p] \in Seq(Record)
  BY <1>1 DEF Queues, Turn, Types
<1> QED BY <1>2, RankIsAhead

(* A project's checks of one class run in the order in which they were     *)
(* queued (InTurn, waitCheckTurn).                                         *)
THEOREM ChecksRunInTurn == Spec => InTurn
<1>1. Init => Queues
  BY DEF Init, Queues, Distinct, Turn
<1>2. Types /\ Queues /\ [Next]_vars
        => [\A p \in Projects, c \in Checks :
              (call[p][c] # "running" /\ call'[p][c] = "running") => Rank(records[p], c) = 0]_vars
  BY StartsInTurn
<1> QED BY <1>1, <1>2, TypesHold, QueuesStep, PTL DEF Spec, InTurn

=============================================================================
