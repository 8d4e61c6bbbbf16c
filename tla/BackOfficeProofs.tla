-------------------------- MODULE BackOfficeProofs --------------------------
(***************************************************************************)
(* What owners set, what a staff user holds and may do, what the gateway   *)
(* lets through, what the reports show and what a database has when an     *)
(* instance serves, for any number of requests, settings, sign-ins, calls, *)
(* events, consume loops, migrations and instances.  The five parts share  *)
(* no variable, so each has an inductive invariant of its own, and a step  *)
(* of one leaves the others as they are.                                   *)
(***************************************************************************)
EXTENDS BackOffice, FiniteSetTheorems, SequenceTheorems, TLAPS

-----------------------------------------------------------------------------
(***************************************************************************)
(* The rate limit: a request that was let through was counted, and a       *)
(* counter above zero has its time to live, or somebody is about to set    *)
(* it, unless the command that should have was lost.                       *)
(***************************************************************************)

\* What was let through was counted.
LimitInv ==
  /\ counter \in Nat /\ admitted \in 0..counter
  /\ call \in [Calls -> {"new", "expire", "refused", "through"}]
  /\ LimitIsOfAWindow

LEMMA LimitInitInv == LimitInit => LimitInv
  BY LimitAssumption DEF LimitInit, LimitInv, LimitIsOfAWindow

\* A request that is not about to set the time to live leaves that to who is.
LEMMA LimitNextInv ==
  ASSUME LimitInv, LimitNext
  PROVE  LimitInv'
<1> USE LimitAssumption DEF LimitInv, LimitIsOfAWindow, Becomes
<1>1. CASE KeyGoes
  BY <1>1 DEF KeyGoes
<1>2. ASSUME NEW c \in Calls, CountCall(c)
      PROVE  LimitInv'
  <2>1. counter' = counter + 1 /\ UNCHANGED <<ttl, spoiled>>
    BY <1>2 DEF CountCall
  <2>2. admitted' \in 0..counter' /\ admitted' <= Limit
    BY <1>2 DEF CountCall
  <2>3. call' \in [Calls -> {"new", "expire", "refused", "through"}]
    BY <1>2 DEF CountCall
  <2>4. CASE counter = 0
    <3>1. call'[c] = "expire"
      BY <1>2, <2>4 DEF CountCall
    <3>2. QED
      BY <2>1, <2>2, <2>3, <3>1
  <2>5. CASE counter > 0
    <3>1. \A d \in Calls : call[d] = "expire" => call'[d] = "expire"
      BY <1>2 DEF CountCall
    <3>2. QED
      BY <2>1, <2>2, <2>3, <2>5, <3>1
  <2>6. QED
    BY <2>4, <2>5
<1>3. ASSUME NEW c \in Calls, FailOpen(c)
      PROVE  LimitInv'
  <2>1. \A d \in Calls : call[d] = "expire" => call'[d] = "expire"
    BY <1>3 DEF FailOpen
  <2>2. UNCHANGED <<ttl, admitted>> /\ call' \in [Calls -> {"new", "expire", "refused", "through"}]
    BY <1>3 DEF FailOpen
  <2>3. CASE UNCHANGED <<counter, spoiled>>
    BY <2>1, <2>2, <2>3
  <2>4. CASE counter' = counter + 1 /\ spoiled' = (spoiled \/ counter = 0)
    <3>1. spoiled \/ counter = 0 => spoiled'
      BY <2>4, Zenon
    <3>2. counter' \in Nat /\ admitted' \in 0..counter' /\ admitted' <= Limit
      BY <2>2, <2>4
    <3>3. counter > 0 => ttl \/ spoiled \/ \E d \in Calls : call[d] = "expire"
      OBVIOUS
    <3>4. ttl' \/ spoiled' \/ \E d \in Calls : call'[d] = "expire"
      <4>1. CASE counter = 0
        BY <3>1, <4>1, Zenon
      <4>2. CASE counter > 0
        BY <2>1, <2>2, <3>1, <3>3, <4>2, Zenon
      <4>3. QED
        BY <4>1, <4>2
    <3>5. QED
      BY <2>2, <3>2, <3>4
  <2>5. QED
    BY <1>3, <2>3, <2>4 DEF FailOpen
<1>4. ASSUME NEW c \in Calls, SetExpiry(c)
      PROVE  LimitInv'
  <2>1. counter' = counter /\ admitted' = admitted
    BY <1>4 DEF SetExpiry
  <2>2. call' \in [Calls -> {"new", "expire", "refused", "through"}]
    BY <1>4 DEF SetExpiry
  <2>3. counter > 0 => ttl' \/ spoiled'
    BY <1>4, Zenon DEF SetExpiry
  <2>4. QED
    BY <2>1, <2>2, <2>3
<1>5. QED
  BY <1>1, <1>2, <1>3, <1>4 DEF LimitNext

-----------------------------------------------------------------------------
(***************************************************************************)
(* The versioned settings.  The inductive invariant says what a request    *)
(* has in hand: rows that were active when its UPDATE began, and whatever  *)
(* has become active since is of a request it was open with.  Two requests *)
(* of one setting were open at once, or one had ended before the other     *)
(* began.                                                                  *)
(***************************************************************************)

RowTypes ==
  [key : Settings, by : Setters \cup {Seed}, from : Nat, to : Nat, closer : Setters \cup {Seed}]
Steps == {"idle", "update", "close", "insert", "done"}
RequestTypes == [step : Steps, key : Settings \cup {"none"}, began : Nat, rows : SUBSET RowTypes]

CatalogueTypes ==
  /\ versions \subseteq RowTypes
  /\ setting \in [Setters -> RequestTypes]
  /\ clock \in Nat
  /\ last \in [Settings -> Setters \cup {Seed}]

Begun(s)   == setting[s].step # "idle"
IsDone(s)  == setting[s].step = "done"
Closing(s) == setting[s].step \in {"close", "insert"}

\* What a request has in hand: rows that were active when its UPDATE began, and
\* every row that has become active since is of one it was open with.
RequestInv(s) ==
  /\ Begun(s) => setting[s].key \in Settings /\ setting[s].began \in 1..clock
  /\ \A r \in setting[s].rows : r.key = setting[s].key /\ r.to = Open
  /\ setting[s].step = "insert" => setting[s].rows \subseteq versions
  /\ Closing(s) => \A r \in Active(setting[s].key) \ setting[s].rows : s \in late /\ {s, r.by} \in together

\* Two requests of one setting were open at once, or one ended before the other.
Follows(s, t) == IsDone(t) /\ setting[t].began < setting[s].began
PairInv(s, t) == Begun(s) /\ Begun(t) /\ setting[s].key = setting[t].key =>
  /\ {s, t} \in together \/ Follows(s, t) \/ Follows(t, s)
  /\ setting[s].step = "insert" /\ setting[t].step = "insert" => setting[s].rows \cap setting[t].rows = {}

Made(s, k, from) == IsDone(s) /\ setting[s].key = k /\ setting[s].began = from
RowInv(r) ==
  /\ r.by = Seed => r.from = 0
  /\ r.by # Seed => Made(r.by, r.key, r.from)
  /\ r.to = Open => r.closer = Seed
  /\ r.to # Open =>
       /\ r.closer # Seed /\ Made(r.closer, r.key, r.to)
       /\ r.from < r.to \/ {r.by, r.closer} \in together

CatalogueInv ==
  /\ CatalogueTypes
  /\ together \subseteq SUBSET Setters
  /\ \A s \in Setters : RequestInv(s)
  /\ \A s, t \in Setters : s # t => PairInv(s, t)
  /\ \A r \in versions : RowInv(r)
  /\ \A r, q \in versions : r.key = q.key /\ r.by = q.by => r = q
  /\ PeriodsAreApart
  /\ NeverUnset
  /\ \A k \in Settings : last[k] \notin late => \A r, q \in Active(k) : r = q

LEMMA CatalogueInitInv == CatalogueInit => CatalogueInv
<1> SUFFICES ASSUME CatalogueInit
             PROVE  CatalogueInv
  OBVIOUS
<1> USE CatalogueAssumption DEF CatalogueInit
<1>1. CatalogueTypes
  BY DEF CatalogueTypes, RequestTypes, RowTypes, Row, Idle, Steps, Open, Seed
<1>2. \A s \in Setters : RequestInv(s) /\ ~Begun(s)
  BY DEF RequestInv, Begun, Closing, Idle
<1>3. \A r \in versions : RowInv(r) /\ r.by = Seed /\ r.to = Open
  BY DEF RowInv, Row, Open, Seed
<1>4. \A r, q \in versions : r.key = q.key => r = q
  BY DEF Row
<1>5. NeverUnset
  BY <1>3 DEF NeverUnset, Active
<1>6. \A k \in Settings : \A r, q \in Active(k) : r = q
  BY <1>4 DEF Active
<1>7. QED
  BY <1>1, <1>2, <1>3, <1>4, <1>5, <1>6 DEF CatalogueInv, PairInv, PeriodsAreApart

\* What a step of s that leaves the rows alone has to keep of itself.
LEMMA RowsStay ==
  ASSUME CatalogueInv, NEW s \in Setters, ~IsDone(s), UNCHANGED <<versions, late, last>>,
         CatalogueTypes', clock <= clock',
         together \subseteq together', together' \subseteq SUBSET Setters,
         \A t \in Setters \ {s} : setting'[t] = setting[t] /\ PairInv(s, t)' /\ PairInv(t, s)',
         RequestInv(s)'
  PROVE  CatalogueInv'
<1>1. ASSUME NEW t \in Setters
      PROVE  RequestInv(t)'
  <2>1. CASE t = s
    BY <2>1
  <2>2. CASE t # s
    <3>1. RequestInv(t) /\ setting'[t] = setting[t]
      BY <2>2 DEF CatalogueInv
    <3>2. Begun(t) => setting[t].began \in 1..clock'
      BY <3>1 DEF RequestInv, CatalogueInv, CatalogueTypes
    <3>3. QED
      BY <3>1, <3>2 DEF RequestInv, Begun, Closing, Active
  <2>3. QED
    BY <2>1, <2>2
<1>2. ASSUME NEW t \in Setters, NEW u \in Setters, t # u
      PROVE  PairInv(t, u)'
  <2>1. CASE t = s \/ u = s
    BY <1>2, <2>1
  <2>2. CASE t # s /\ u # s
    <3>1. PairInv(t, u)
      BY <1>2 DEF CatalogueInv
    <3>2. setting'[t] = setting[t] /\ setting'[u] = setting[u]
      BY <2>2
    <3>3. together \subseteq together'
      OBVIOUS
    <3>4. QED
      BY <3>1, <3>2, <3>3 DEF PairInv, Begun, Follows, IsDone
  <2>3. QED
    BY <2>1, <2>2
<1>3. ASSUME NEW r \in versions
      PROVE  RowInv(r)'
  <2>1. \A t, k, from : t \in Setters /\ Made(t, k, from) => Made(t, k, from)'
    BY DEF Made, IsDone
  <2>2. RowInv(r) /\ r.by \in Setters \cup {Seed} /\ r.closer \in Setters \cup {Seed}
    BY DEF CatalogueInv, CatalogueTypes, RowTypes
  <2>3. QED
    BY <2>1, <2>2 DEF RowInv
<1>4. PeriodsAreApart'
  BY DEF CatalogueInv, PeriodsAreApart, Before
<1>5. QED
  BY <1>1, <1>2, <1>3, <1>4 DEF CatalogueInv, NeverUnset, Active

LEMMA BeginSettingInv ==
  ASSUME CatalogueInv, NEW s \in Setters, NEW k \in Settings, BeginSetting(s, k)
  PROVE  CatalogueInv'
<1>1. /\ ~IsDone(s) /\ clock \in Nat
      /\ setting'[s] = [step |-> "update", key |-> k, began |-> clock + 1, rows |-> {}]
      /\ \A t \in Setters \ {s} : setting'[t] = setting[t]
      /\ clock' = clock + 1 /\ UNCHANGED <<versions, late, last>>
  BY DEF BeginSetting, IsDone, CatalogueInv, CatalogueTypes, RequestTypes
<1>2. CatalogueTypes'
  BY DEF CatalogueInv, CatalogueTypes, RequestTypes, BeginSetting, Steps
<1>3. RequestInv(s)'
  BY <1>1 DEF RequestInv, Begun, Closing
<1>4. ASSUME NEW t \in Setters \ {s}
      PROVE  PairInv(s, t)' /\ PairInv(t, s)'
  <2>1. CASE Begun(t) /\ setting[t].key = k /\ ~IsDone(t)
    <3>1. {s, t} \in together' /\ {t, s} = {s, t}
      BY <2>1 DEF BeginSetting, Running, Begun, IsDone
    <3>2. QED
      BY <1>1, <3>1 DEF PairInv
  <2>2. CASE Begun(t) /\ IsDone(t)
    <3>1. setting[t].began \in 1..clock
      BY <2>2 DEF CatalogueInv, RequestInv
    <3>2. Follows(s, t)'
      BY <1>1, <2>2, <3>1 DEF Follows, IsDone
    <3>3. QED
      BY <1>1, <3>2 DEF PairInv
  <2>3. CASE ~Begun(t) \/ setting[t].key # k
    BY <1>1, <2>3 DEF PairInv, Begun
  <2>4. QED
    BY <2>1, <2>2, <2>3
<1>5. together \subseteq together' /\ together' \subseteq SUBSET Setters
  BY DEF BeginSetting, CatalogueInv
<1>6. QED
  BY <1>1, <1>2, <1>3, <1>4, <1>5, RowsStay

\* A step of s within its transaction.
LEMMA GoesOn ==
  ASSUME CatalogueInv, NEW s \in Setters, Running(s), UNCHANGED <<versions, clock, late, together, last>>,
         NEW step \in Steps \ {"idle"}, NEW rows, rows \subseteq setting[s].rows \/ rows \subseteq Active(setting[s].key),
         setting' = [setting EXCEPT ![s].step = step, ![s].rows = rows],
         step = "insert" =>
           /\ rows \subseteq versions
           /\ \A t \in Rivals(s) : Holds(t) \cap rows = {},
         step \in {"close", "insert"} => \A r \in Active(setting[s].key) \ rows : s \in late /\ {s, r.by} \in together
  PROVE  CatalogueInv'
<1>1. /\ Begun(s) /\ ~IsDone(s)
      /\ setting'[s].step = step /\ setting'[s].rows = rows
      /\ setting'[s].key = setting[s].key /\ setting'[s].began = setting[s].began
      /\ \A t \in Setters \ {s} : setting'[t] = setting[t]
  BY DEF Running, Begun, IsDone, CatalogueInv, CatalogueTypes, RequestTypes
<1>2. rows \in SUBSET RowTypes
  BY DEF CatalogueInv, CatalogueTypes, RequestTypes, Active
<1>3. CatalogueTypes'
  <2>1. setting[s] \in RequestTypes
    BY DEF CatalogueInv, CatalogueTypes
  <2>2. [setting[s] EXCEPT !.step = step, !.rows = rows] \in RequestTypes
    BY <1>2, <2>1 DEF RequestTypes
  <2>3. setting \in [Setters -> RequestTypes]
    BY DEF CatalogueInv, CatalogueTypes
  <2>4. setting'[s] = [setting[s] EXCEPT !.step = step, !.rows = rows]
    BY <2>3
  <2>5. setting' \in [Setters -> RequestTypes]
    BY <2>2, <2>3, <2>4
  <2>6. QED
    BY <2>5 DEF CatalogueInv, CatalogueTypes
<1>4. RequestInv(s)'
  <2>1. RequestInv(s)
    BY DEF CatalogueInv
  <2>2. \A r \in rows : r.key = setting[s].key /\ r.to = Open
    BY <2>1 DEF RequestInv, Active
  <2>3. QED
    BY <1>1, <2>1, <2>2 DEF RequestInv, Begun, Closing, Active
<1>5. ASSUME NEW t \in Setters \ {s}
      PROVE  PairInv(s, t)' /\ PairInv(t, s)'
  <2>1. PairInv(s, t) /\ PairInv(t, s)
    BY DEF CatalogueInv
  <2>2. Follows(s, t) => Follows(s, t)'
    BY <1>1 DEF Follows, IsDone
  <2>3. ~Follows(t, s)
    BY <1>1 DEF Follows
  <2>4. step = "insert" /\ setting[t].step = "insert" /\ setting[s].key = setting[t].key => setting[t].rows \cap rows = {}
    BY DEF Rivals, Running, Holds
  <2>5. {s, t} = {t, s}
    OBVIOUS
  <2>6. QED
    BY <1>1, <2>1, <2>2, <2>3, <2>4, <2>5 DEF PairInv, Begun
<1>6. QED
  BY <1>1, <1>3, <1>4, <1>5, RowsStay DEF CatalogueInv, CatalogueTypes

LEMMA StartCloseInv ==
  ASSUME CatalogueInv, NEW s \in Setters, StartClose(s)
  PROVE  CatalogueInv'
<1> DEFINE rows == Active(setting[s].key)
<1>1. /\ Running(s) /\ UNCHANGED <<versions, clock, late, together, last>>
      /\ setting' = [setting EXCEPT ![s].step = "close", ![s].rows = rows]
  BY DEF StartClose, Running
<1>2. "close" \in Steps \ {"idle"} /\ rows \subseteq Active(setting[s].key)
  BY DEF Steps
<1>3. \A r \in Active(setting[s].key) \ rows : s \in late /\ {s, r.by} \in together
  OBVIOUS
<1> HIDE DEF rows
<1>4. QED
  BY <1>1, <1>2, <1>3, GoesOn

LEMMA CloseInv ==
  ASSUME CatalogueInv, NEW s \in Setters, Close(s)
  PROVE  CatalogueInv'
<1> DEFINE rows == setting[s].rows \cap versions
<1>1. /\ Running(s) /\ UNCHANGED <<versions, clock, late, together, last>>
      /\ setting' = [setting EXCEPT ![s].step = "insert", ![s].rows = rows]
  BY DEF Close, Running, CatalogueInv, CatalogueTypes
<1>2. \A t \in Rivals(s) : Holds(t) \cap rows = {}
  BY DEF Close
<1>3. \A r \in Active(setting[s].key) \ rows : s \in late /\ {s, r.by} \in together
  BY DEF CatalogueInv, RequestInv, Closing, Close, Active
<1>4. "insert" \in Steps \ {"idle"} /\ rows \subseteq setting[s].rows /\ rows \subseteq versions
  BY DEF Steps
<1> HIDE DEF rows
<1>5. QED
  BY <1>1, <1>2, <1>3, <1>4, GoesOn

LEMMA SettingFailsInv ==
  ASSUME CatalogueInv, NEW s \in Setters, SettingFails(s)
  PROVE  CatalogueInv'
<1> DEFINE rows == {}
<1>1. /\ Running(s) /\ UNCHANGED <<versions, clock, late, together, last>>
      /\ setting' = [setting EXCEPT ![s].step = "done", ![s].rows = rows]
  BY DEF SettingFails
<1>2. "done" \in Steps \ {"idle"} /\ rows \subseteq setting[s].rows
  BY DEF Steps
<1> HIDE DEF rows
<1>3. QED
  BY <1>1, <1>2, GoesOn

\* What a commit does to the rows: those of s are closed, its own is new.
Closed(s, r) == [r EXCEPT !.to = setting[s].began, !.closer = s]
NewRow(s)    == Row(setting[s].key, s, setting[s].began)

LEMMA CommitFacts ==
  ASSUME CatalogueInv, NEW s \in Setters, CommitSetting(s)
  PROVE  /\ setting[s].step = "insert" /\ setting[s].key \in Settings
         /\ setting[s].began \in Nat \ {0}
         /\ setting[s].rows \subseteq Active(setting[s].key)
         /\ versions' = (versions \ setting[s].rows) \cup {Closed(s, r) : r \in setting[s].rows} \cup {NewRow(s)}
         /\ setting' = [setting EXCEPT ![s].step = "done"]
         /\ setting'[s] = [setting[s] EXCEPT !.step = "done"]
         /\ \A t \in Setters \ {s} : setting'[t] = setting[t]
         /\ setting' \in [Setters -> RequestTypes]
         /\ last' = [last EXCEPT ![setting[s].key] = s]
         /\ late' = late \cup {t \in Rivals(s) : setting[t].step # "update"}
         /\ UNCHANGED <<clock, together>>
<1>1. setting \in [Setters -> RequestTypes] /\ RequestInv(s) /\ setting[s].step = "insert" /\ clock \in Nat
  BY DEF CatalogueInv, CatalogueTypes, CommitSetting
<1>2. setting[s].key \in Settings /\ setting[s].began \in Nat \ {0}
  BY <1>1 DEF RequestInv, Begun
<1>3. setting[s].rows \subseteq Active(setting[s].key)
  BY <1>1 DEF RequestInv, Active
<1>4. versions' = (versions \ setting[s].rows) \cup {Closed(s, r) : r \in setting[s].rows} \cup {NewRow(s)}
  BY DEF CommitSetting, ClosedBy, Closed, NewRow
<1>5. setting' = [setting EXCEPT ![s].step = "done"] /\ setting'[s] = [setting[s] EXCEPT !.step = "done"]
  BY <1>1 DEF CommitSetting
<1>6. [setting[s] EXCEPT !.step = "done"] \in RequestTypes
  BY <1>1 DEF RequestTypes, Steps
<1>7. QED
  BY <1>1, <1>2, <1>3, <1>4, <1>5, <1>6 DEF CommitSetting

\* Every row after the commit of s is its new one, one it has closed, or one as it was.
LEMMA CommitRows ==
  ASSUME CatalogueInv, NEW s \in Setters, CommitSetting(s), NEW r \in versions'
  PROVE  \/ r = NewRow(s)
         \/ r \in versions \ setting[s].rows
         \/ \E q \in setting[s].rows : r = Closed(s, q)
<1>1. versions' = (versions \ setting[s].rows) \cup {Closed(s, q) : q \in setting[s].rows} \cup {NewRow(s)}
  BY CommitFacts, Zenon
<1>2. QED
  BY <1>1

LEMMA NewRowFacts ==
  ASSUME CatalogueInv, NEW s \in Setters, CommitSetting(s)
  PROVE  /\ NewRow(s) \in RowTypes /\ NewRow(s) \in versions'
         /\ NewRow(s).key = setting[s].key /\ NewRow(s).by = s /\ NewRow(s).from = setting[s].began
         /\ NewRow(s).to = Open /\ NewRow(s).closer = Seed
<1>1. versions' = (versions \ setting[s].rows) \cup {Closed(s, q) : q \in setting[s].rows} \cup {NewRow(s)}
  BY CommitFacts, Zenon
<1>2. setting[s].key \in Settings /\ setting[s].began \in Nat
  BY CommitFacts
<1>3. NewRow(s) \in RowTypes
  BY <1>2 DEF NewRow, Row, RowTypes, Open, Seed
<1>4. NewRow(s) \in versions'
  BY <1>1
<1>5. QED
  BY <1>3, <1>4 DEF NewRow, Row

LEMMA ClosedFacts ==
  ASSUME CatalogueInv, NEW s \in Setters, CommitSetting(s), NEW r \in setting[s].rows
  PROVE  /\ r \in versions /\ r \in RowTypes /\ r.key = setting[s].key /\ r.to = Open /\ r.closer = Seed
         /\ Closed(s, r) \in RowTypes /\ Closed(s, r) \in versions'
         /\ Closed(s, r).key = r.key /\ Closed(s, r).by = r.by /\ Closed(s, r).from = r.from
         /\ Closed(s, r).to = setting[s].began /\ Closed(s, r).to # Open /\ Closed(s, r).closer = s
<1>1. r \in versions /\ r \in RowTypes /\ r.key = setting[s].key /\ r.to = Open
  BY CommitFacts DEF Active, CatalogueInv, CatalogueTypes
<1>2. r.closer = Seed
  BY <1>1 DEF CatalogueInv, RowInv
<1>3. versions' = (versions \ setting[s].rows) \cup {Closed(s, q) : q \in setting[s].rows} \cup {NewRow(s)}
  BY CommitFacts, Zenon
<1>4. Closed(s, r) \in versions'
  BY <1>3
<1>5. setting[s].began \in Nat \ {0}
  BY CommitFacts
<1>6. Closed(s, r) \in RowTypes
  BY <1>1, <1>5 DEF Closed, RowTypes
<1>7. QED
  BY <1>1, <1>2, <1>4, <1>5, <1>6 DEF Closed, RowTypes, Open

\* Who made a row before s began to was done, or open at once with s.
LEMMA MadeBefore ==
  ASSUME CatalogueInv, NEW s \in Setters, CommitSetting(s), NEW t \in Setters, NEW from,
         Made(t, setting[s].key, from)
  PROVE  t # s /\ (from < setting[s].began \/ {s, t} \in together)
<1>1. ~IsDone(s) /\ t # s
  BY CommitFacts DEF IsDone, Made
<1>2. Begun(s) /\ Begun(t) /\ PairInv(s, t)
  BY <1>1, CommitFacts DEF Begun, IsDone, Made, CatalogueInv
<1>3. QED
  BY <1>1, <1>2 DEF PairInv, Follows, Made

\* The new row comes after every other of its setting.
LEMMA NewComesLast ==
  ASSUME CatalogueInv, NEW s \in Setters, CommitSetting(s), NEW r \in versions', r # NewRow(s),
         r.key = setting[s].key
  PROVE  Before(r, NewRow(s)) \/ \E p \in together : p \subseteq {s, r.by, r.closer}
<1>1. /\ setting[s].began \in Nat \ {0} /\ NewRow(s).from = setting[s].began
      /\ setting[s].step = "insert"
  BY CommitFacts, NewRowFacts
<1>2. ASSUME NEW q \in setting[s].rows, r = Closed(s, q)
      PROVE  Before(r, NewRow(s)) \/ {s, r.by} \in together
  <2>1. q \in versions /\ q \in RowTypes /\ q.key = setting[s].key
        /\ r.by = q.by /\ r.from = q.from /\ r.to = setting[s].began
    BY <1>2, ClosedFacts
  <2>2. CASE q.by = Seed
    <3>1. q.from = 0
      BY <2>1, <2>2 DEF CatalogueInv, RowInv
    <3>2. QED
      BY <1>1, <2>1, <3>1 DEF Before, Open
  <2>3. CASE q.by # Seed
    <3>1. q.by \in Setters /\ Made(q.by, setting[s].key, q.from)
      BY <2>1, <2>3 DEF CatalogueInv, RowInv, RowTypes
    <3>2. q.from < setting[s].began \/ {s, q.by} \in together
      BY <3>1, MadeBefore
    <3>3. QED
      BY <1>1, <2>1, <3>2 DEF Before, Open
  <2>4. QED
    BY <2>2, <2>3
<1>3. ASSUME r \in versions \ setting[s].rows
      PROVE  Before(r, NewRow(s)) \/ \E p \in together : p \subseteq {s, r.by, r.closer}
  <2>1. RowInv(r) /\ r \in RowTypes /\ RequestInv(s)
    BY <1>3 DEF CatalogueInv, CatalogueTypes
  <2>2. CASE r.to = Open
    <3>1. {s, r.by} \in together
      BY <1>1, <1>3, <2>1, <2>2 DEF RequestInv, Closing, Active
    <3>2. QED
      BY <3>1
  <2>3. CASE r.to # Open
    <3>1. r.closer \in Setters /\ Made(r.closer, setting[s].key, r.to) /\ (r.from < r.to \/ {r.by, r.closer} \in together)
      BY <2>1, <2>3 DEF RowInv, RowTypes
    <3>2. r.to < setting[s].began \/ {s, r.closer} \in together
      BY <3>1, MadeBefore
    <3>3. r.to \in Nat /\ {r.by, r.closer} \subseteq {s, r.by, r.closer} /\ {s, r.closer} \subseteq {s, r.by, r.closer}
      BY <2>1 DEF RowTypes
    <3>4. QED
      BY <1>1, <2>3, <3>1, <3>2, <3>3 DEF Before
  <2>4. QED
    BY <2>2, <2>3
<1>4. QED
  BY <1>2, <1>3, CommitRows

\* A row keeps its setting, its maker and its beginning.
LEMMA CommitKeeps ==
  ASSUME CatalogueInv, NEW s \in Setters, CommitSetting(s), NEW r \in versions', r # NewRow(s)
  PROVE  \E y \in versions :
           /\ r.key = y.key /\ r.by = y.by /\ r.from = y.from
           /\ y \notin setting[s].rows => r = y
           /\ y \in setting[s].rows => r = Closed(s, y) /\ y.to = Open /\ y.closer = Seed
  BY CommitRows, ClosedFacts

LEMMA CommitApart ==
  ASSUME CatalogueInv, NEW s \in Setters, CommitSetting(s)
  PROVE  PeriodsAreApart'
<1> DEFINE Apart(r, q) == \/ r = q \/ r.key # q.key
                          \/ Before(r, q) \/ Before(q, r)
                          \/ \E p \in together : p \subseteq {r.by, r.closer, q.by, q.closer}
<1>1. UNCHANGED together /\ NewRow(s).key = setting[s].key /\ NewRow(s).by = s
  BY CommitFacts, NewRowFacts
<1>2. ASSUME NEW r \in versions', r # NewRow(s)
      PROVE  Apart(r, NewRow(s)) /\ Apart(NewRow(s), r)
  <2>1. CASE r.key # setting[s].key
    BY <1>1, <2>1
  <2>2. CASE r.key = setting[s].key
    <3>1. Before(r, NewRow(s)) \/ \E p \in together : p \subseteq {s, r.by, r.closer}
      BY <1>2, <2>2, NewComesLast
    <3>2. {s, r.by, r.closer} \subseteq {r.by, r.closer, NewRow(s).by, NewRow(s).closer}
      BY <1>1
    <3>3. {s, r.by, r.closer} \subseteq {NewRow(s).by, NewRow(s).closer, r.by, r.closer}
      BY <1>1
    <3>4. QED
      BY <3>1, <3>2, <3>3
  <2>3. QED
    BY <2>1, <2>2
<1>3. ASSUME NEW r \in versions', NEW q \in versions', r # NewRow(s), q # NewRow(s)
      PROVE  Apart(r, q)
  <2>1. PICK y \in versions :
           /\ r.key = y.key /\ r.by = y.by /\ r.from = y.from
           /\ y \notin setting[s].rows => r = y
           /\ y \in setting[s].rows => r = Closed(s, y) /\ y.to = Open /\ y.closer = Seed
    BY <1>3, CommitKeeps
  <2>2. PICK z \in versions :
           /\ q.key = z.key /\ q.by = z.by /\ q.from = z.from
           /\ z \notin setting[s].rows => q = z
           /\ z \in setting[s].rows => q = Closed(s, z) /\ z.to = Open /\ z.closer = Seed
    BY <1>3, CommitKeeps
  <2>3. Apart(y, z)
    BY DEF CatalogueInv, PeriodsAreApart
  <2>4. CASE y = z \/ y.key # z.key
    BY <2>1, <2>2, <2>4
  <2>5. CASE Before(y, z)
    <3>1. r = y
      BY <2>1, <2>5 DEF Before
    <3>2. QED
      BY <2>2, <2>5, <3>1 DEF Before
  <2>6. CASE Before(z, y)
    <3>1. q = z
      BY <2>2, <2>6 DEF Before
    <3>2. QED
      BY <2>1, <2>6, <3>1 DEF Before
  <2>7. ASSUME NEW p \in together, p \subseteq {y.by, y.closer, z.by, z.closer}
        PROVE  Apart(r, q)
    <3>1. Seed \notin p
      BY CatalogueAssumption DEF CatalogueInv
    <3>2. (y.closer \in p => r.closer = y.closer) /\ (z.closer \in p => q.closer = z.closer)
      BY <2>1, <2>2, <3>1
    <3>3. p \subseteq {r.by, r.closer, q.by, q.closer}
      BY <2>1, <2>2, <2>7, <3>2
    <3>4. QED
      BY <3>3
  <2>8. QED
    BY <2>3, <2>4, <2>5, <2>6, <2>7
<1>4. ASSUME NEW r \in versions', NEW q \in versions'
      PROVE  Apart(r, q)
  BY <1>2, <1>3
<1>5. QED
  BY <1>1, <1>4 DEF PeriodsAreApart, Before

\* The versions of the setting that s has set: its new one is active, and the only
\* one if no other was committed meanwhile.
LEMMA CommitActive ==
  ASSUME CatalogueInv, NEW s \in Setters, CommitSetting(s), NEW k \in Settings
  PROVE  /\ k = setting[s].key => NewRow(s) \in Active(k)' /\ (s \notin late => Active(k)' = {NewRow(s)})
         /\ k # setting[s].key =>
              Active(k)' = Active(k) /\ \A r \in versions' : r.key = k => r \in versions
<1>1. CASE k = setting[s].key
  <2>1. NewRow(s) \in Active(k)'
    BY <1>1, NewRowFacts DEF Active
  <2>2. ASSUME s \notin late, NEW r \in Active(k)'
        PROVE  r = NewRow(s)
    <3>1. RequestInv(s) /\ setting[s].step = "insert"
      BY CommitFacts DEF CatalogueInv
    <3>2. Active(k) \subseteq setting[s].rows
      BY <1>1, <2>2, <3>1 DEF RequestInv, Closing
    <3>3. r \in versions' /\ r.key = k /\ r.to = Open
      BY DEF Active
    <3>4. r \notin versions \ setting[s].rows
      BY <3>2, <3>3 DEF Active
    <3>5. \A q \in setting[s].rows : r # Closed(s, q)
      BY <3>3, ClosedFacts
    <3>6. QED
      BY <3>3, <3>4, <3>5, CommitRows
  <2>3. QED
    BY <1>1, <2>1, <2>2
<1>2. CASE k # setting[s].key
  <2>1. ASSUME NEW r \in versions', r.key = k
        PROVE  r \in versions
    BY <1>2, <2>1, CommitRows, ClosedFacts, NewRowFacts
  <2>2. ASSUME NEW r \in versions, r.key = k
        PROVE  r \in versions'
    <3>1. r \notin setting[s].rows
      BY <1>2, <2>2, ClosedFacts
    <3>2. versions' = (versions \ setting[s].rows) \cup {Closed(s, q) : q \in setting[s].rows} \cup {NewRow(s)}
      BY CommitFacts, Zenon
    <3>3. QED
      BY <3>1, <3>2
  <2>3. QED
    BY <1>2, <2>1, <2>2 DEF Active
<1>3. QED
  BY <1>1, <1>2

LEMMA CommitRowInv ==
  ASSUME CatalogueInv, NEW s \in Setters, CommitSetting(s), NEW r \in versions'
  PROVE  RowInv(r)'
<1>1. /\ setting'[s].step = "done" /\ setting'[s].key = setting[s].key /\ setting'[s].began = setting[s].began
      /\ setting[s].step = "insert" /\ UNCHANGED together /\ setting[s].began \in Nat \ {0}
  <2>1. setting'[s] = [setting[s] EXCEPT !.step = "done"] /\ setting[s] \in RequestTypes
    BY CommitFacts DEF CatalogueInv, CatalogueTypes
  <2>2. setting[s].step = "insert" /\ UNCHANGED together /\ setting[s].began \in Nat \ {0}
    BY CommitFacts
  <2>3. QED
    BY <2>1, <2>2 DEF RequestTypes
<1>2. ASSUME NEW t \in Setters, NEW k, NEW from, Made(t, k, from)
      PROVE  Made(t, k, from)'
  BY <1>1, <1>2, CommitFacts DEF Made, IsDone
<1>3. Made(s, setting[s].key, setting[s].began)'
  BY <1>1 DEF Made, IsDone
<1>4. CASE r = NewRow(s)
  <2>1. s # Seed
    BY CatalogueAssumption
  <2>2. /\ r.by = s /\ r.key = setting[s].key /\ r.from = setting[s].began
        /\ r.to = Open /\ r.closer = Seed
    BY <1>4, NewRowFacts
  <2>3. QED
    BY <1>1, <2>1, <2>2 DEF RowInv, Made, IsDone
<1>5. CASE r \in versions \ setting[s].rows
  <2>1. RowInv(r) /\ r.by \in Setters \cup {Seed} /\ r.closer \in Setters \cup {Seed}
    BY <1>5 DEF CatalogueInv, CatalogueTypes, RowTypes
  <2>2. QED
    BY <1>1, <1>2, <2>1 DEF RowInv
<1>6. ASSUME NEW q \in setting[s].rows, r = Closed(s, q)
      PROVE  RowInv(r)'
  <2>1. /\ q \in versions /\ q.by \in Setters \cup {Seed} /\ q.key = setting[s].key /\ RowInv(q)
        /\ r.key = q.key /\ r.by = q.by /\ r.from = q.from
        /\ r.to = setting[s].began /\ r.to # Open /\ r.closer = s /\ s # Seed
    BY <1>6, ClosedFacts, CatalogueAssumption DEF RowTypes, CatalogueInv
  <2>2. r.by # Seed => Made(r.by, r.key, r.from)'
    BY <1>2, <2>1 DEF RowInv
  <2>3. r.from < r.to \/ {r.by, r.closer} \in together
    <3>1. CASE r.by = Seed
      BY <1>1, <2>1, <3>1 DEF RowInv
    <3>2. CASE r.by # Seed
      <4>1. r.from < r.to \/ {s, r.by} \in together
        BY <2>1, <3>2, MadeBefore DEF RowInv
      <4>2. {s, r.by} = {r.by, r.closer}
        BY <2>1
      <4>3. QED
        BY <4>1, <4>2
    <3>3. QED
      BY <3>1, <3>2
  <2>4. QED
    BY <1>1, <1>3, <2>1, <2>2, <2>3 DEF RowInv
<1>7. QED
  BY <1>4, <1>5, <1>6, CommitRows

LEMMA CommitRequests ==
  ASSUME CatalogueInv, NEW s \in Setters, CommitSetting(s)
  PROVE  /\ \A t \in Setters : RequestInv(t)'
         /\ \A t, u \in Setters : t # u => PairInv(t, u)'
<1>1. /\ setting'[s].step = "done" /\ setting'[s].key = setting[s].key
      /\ setting'[s].began = setting[s].began /\ setting'[s].rows = setting[s].rows
      /\ \A t \in Setters \ {s} : setting'[t] = setting[t]
  <2>1. setting'[s] = [setting[s] EXCEPT !.step = "done"] /\ setting[s] \in RequestTypes
    BY CommitFacts DEF CatalogueInv, CatalogueTypes
  <2>2. \A t \in Setters \ {s} : setting'[t] = setting[t]
    BY CommitFacts
  <2>3. QED
    BY <2>1, <2>2 DEF RequestTypes
<1>2. setting[s].step = "insert" /\ setting[s].key \in Settings /\ UNCHANGED <<clock, together>>
  BY CommitFacts
<1>3. late' = late \cup {t \in Rivals(s) : setting[t].step # "update"}
  BY CommitFacts
<1>4. RequestInv(s)'
  BY <1>1, <1>2 DEF CatalogueInv, RequestInv, Begun, Closing
<1>5. ASSUME NEW t \in Setters \ {s}
      PROVE  RequestInv(t)'
  <2>1. RequestInv(t) /\ PairInv(s, t)
    BY DEF CatalogueInv
  <2>2. setting'[t].step = "insert" => setting[t].rows \subseteq versions'
    <3>1. SUFFICES ASSUME setting[t].step = "insert", NEW r \in setting[t].rows
                   PROVE  r \in versions'
      BY <1>1
    <3>2. r \in versions /\ r.key = setting[t].key
      BY <2>1, <3>1 DEF RequestInv
    <3>3. r \notin setting[s].rows
      BY <1>2, <2>1, <3>1, <3>2, ClosedFacts DEF PairInv, Begun
    <3>4. versions' = (versions \ setting[s].rows) \cup {Closed(s, q) : q \in setting[s].rows} \cup {NewRow(s)}
      BY CommitFacts, Zenon
    <3>5. QED
      BY <3>2, <3>3, <3>4
  <2>3. ASSUME Closing(t), NEW r \in Active(setting[t].key)', r \notin setting[t].rows
        PROVE  t \in late' /\ {t, r.by} \in together
    <3>1. setting[t].key \in Settings
      BY <2>1, <2>3 DEF RequestInv, Closing, Begun
    <3>2. r \in versions' /\ r.key = setting[t].key /\ r.to = Open
      BY <1>1, <2>3 DEF Active
    <3>3. CASE r = NewRow(s)
      <4>1. setting[t].key = setting[s].key /\ r.by = s
        BY <3>2, <3>3, NewRowFacts
      <4>2. t \in Rivals(s) /\ setting[t].step # "update"
        BY <2>3, <4>1 DEF Rivals, Running, Closing
      <4>3. {s, t} \in together
        BY <1>2, <2>1, <2>3, <4>1 DEF PairInv, Follows, IsDone, Begun, Closing
      <4>4. {s, t} = {t, r.by}
        BY <4>1
      <4>5. QED
        BY <1>3, <4>2, <4>3, <4>4
    <3>4. CASE r \in versions \ setting[s].rows
      <4>1. r \in Active(setting[t].key) \ setting[t].rows
        BY <2>3, <3>2, <3>4 DEF Active
      <4>2. QED
        BY <1>3, <2>1, <2>3, <4>1 DEF RequestInv
    <3>5. \A q \in setting[s].rows : r # Closed(s, q)
      BY <3>2, ClosedFacts
    <3>6. QED
      BY <3>2, <3>3, <3>4, <3>5, CommitRows
  <2>4. QED
    BY <1>1, <1>2, <2>1, <2>2, <2>3 DEF RequestInv, Begun, Closing
<1>6. ASSUME NEW t \in Setters, NEW u \in Setters, t # u
      PROVE  PairInv(t, u)'
  <2>1. PairInv(t, u)
    BY <1>6 DEF CatalogueInv
  <2>2. ASSUME NEW x \in Setters
        PROVE  /\ setting[x].step = "idle" <=> setting'[x].step = "idle"
               /\ setting[x].step = "done" => setting'[x].step = "done"
               /\ setting'[x].step = "insert" => setting[x].step = "insert"
               /\ setting'[x].key = setting[x].key /\ setting'[x].began = setting[x].began
               /\ setting'[x].rows = setting[x].rows
    BY <1>1, <1>2
  <2>3. QED
    BY <1>2, <1>6, <2>1, <2>2 DEF PairInv, Follows, IsDone, Begun
<1>7. QED
  BY <1>4, <1>5, <1>6

LEMMA CommitSettingInv ==
  ASSUME CatalogueInv, NEW s \in Setters, CommitSetting(s)
  PROVE  CatalogueInv'
<1>1. CatalogueTypes'
  <2>1. versions' \subseteq RowTypes
    BY CommitRows, ClosedFacts, NewRowFacts DEF CatalogueInv, CatalogueTypes
  <2>2. setting' \in [Setters -> RequestTypes] /\ clock' = clock
    BY CommitFacts
  <2>3. last' = [last EXCEPT ![setting[s].key] = s]
    BY CommitFacts
  <2>4. QED
    BY <2>1, <2>2, <2>3 DEF CatalogueInv, CatalogueTypes
<1>2. together' = together /\ setting[s].key \in Settings /\ late \subseteq late'
  BY CommitFacts
<1>3. s \notin late => s \notin late'
  <2>1. late' = late \cup {t \in Rivals(s) : setting[t].step # "update"}
    BY CommitFacts
  <2>2. s \notin Rivals(s)
    BY DEF Rivals
  <2>3. QED
    BY <2>1, <2>2
<1>4. \A r, q \in versions' : r.key = q.key /\ r.by = q.by => r = q
  <2>1. SUFFICES ASSUME NEW r \in versions', NEW q \in versions', r.key = q.key, r.by = q.by
                 PROVE  r = q
    OBVIOUS
  <2>2. \A x \in versions : x.by # s
    <3>1. setting[s].step = "insert" /\ s # Seed
      BY CommitFacts, CatalogueAssumption
    <3>2. QED
      BY <3>1 DEF CatalogueInv, RowInv, Made, IsDone
  <2>3. CASE r = NewRow(s) \/ q = NewRow(s)
    <3>1. r.by = s /\ q.by = s
      BY <2>1, <2>3, NewRowFacts
    <3>2. QED
      BY <2>2, <3>1, CommitKeeps
  <2>4. CASE r # NewRow(s) /\ q # NewRow(s)
    BY <2>1, <2>4, CommitKeeps DEF CatalogueInv
  <2>5. QED
    BY <2>3, <2>4
<1>5. NeverUnset'
  <2>1. SUFFICES ASSUME NEW k \in Settings, NEW r \in versions', r.key = k
                 PROVE  Active(k)' # {}
    BY DEF NeverUnset
  <2>2. CASE k = setting[s].key
    BY <2>2, CommitActive
  <2>3. CASE k # setting[s].key
    <3>1. Active(k)' = Active(k) /\ r \in versions
      BY <2>1, <2>3, CommitActive
    <3>2. QED
      BY <2>1, <3>1 DEF CatalogueInv, NeverUnset
  <2>4. QED
    BY <2>2, <2>3
<1>6. ASSUME NEW k \in Settings, last'[k] \notin late', NEW r \in Active(k)', NEW q \in Active(k)'
      PROVE  r = q
  <2>1. last' = [last EXCEPT ![setting[s].key] = s] /\ last \in [Settings -> Setters \cup {Seed}]
    BY CommitFacts DEF CatalogueInv, CatalogueTypes
  <2>2. CASE k = setting[s].key
    <3>1. s \notin late
      BY <1>2, <1>6, <2>1, <2>2
    <3>2. QED
      BY <1>6, <2>2, <3>1, CommitActive
  <2>3. CASE k # setting[s].key
    <3>1. last[k] \notin late /\ Active(k)' = Active(k)
      BY <1>2, <1>6, <2>1, <2>3, CommitActive
    <3>2. QED
      BY <1>6, <3>1 DEF CatalogueInv
  <2>4. QED
    BY <2>2, <2>3
<1>7. QED
  BY <1>1, <1>2, <1>4, <1>5, <1>6, CommitApart, CommitRowInv, CommitRequests DEF CatalogueInv

LEMMA CatalogueNextInv ==
  ASSUME CatalogueInv, CatalogueNext
  PROVE  CatalogueInv'
  BY BeginSettingInv, StartCloseInv, CloseInv, CommitSettingInv, SettingFailsInv DEF CatalogueNext

-----------------------------------------------------------------------------
(***************************************************************************)
(* The migrations, as long as no Down runs beside another run: those in    *)
(* effect are the first n, an Up has passed all versions before its own,   *)
(* two never commit the same one, and a Down is alone and undoes the last. *)
(***************************************************************************)

Prefix(n) == applied = 1..n /\ effect = [v \in Versions |-> IF v <= n THEN 1 ELSE 0]
RunRecords == [kind : {"none", "up", "down"},
  stage : {"idle", "check", "apply", "record", "commit", "undo", "unrecord", "done"},
  version : 0..(Latest + 1), undone : 0..1, unrecorded : BOOLEAN]

RunTypes ==
  /\ runs \in [Runs -> RunRecords]
  /\ \A r \in Runs : runs[r].kind = "none" <=> runs[r].stage = "idle"
  /\ \A r \in Runs : runs[r].kind = "up" => runs[r].stage \in {"check", "apply", "record", "commit", "done"}

\* An Up has all versions before its own; what it commits nobody else does.
UpInv(r, n) == runs[r].kind = "up" =>
  /\ runs[r].stage \in {"check", "apply", "record", "commit"} => runs[r].version \in 1..(n + 1)
  /\ runs[r].stage \in {"apply", "record", "commit"} => runs[r].version <= Latest
  /\ runs[r].stage = "commit" =>
       /\ runs[r].version = n + 1
       /\ \A q \in Peers(r) : runs[q].stage # "commit"

\* A Down is alone, and undoes the last.
DownInv(r, n) == runs[r].kind = "down" /\ Migrating(r) =>
  /\ \A q \in Runs \ {r} : ~Migrating(q)
  /\ n > 0 /\ runs[r].version = n
  /\ runs[r].stage \in {"undo", "unrecord", "commit"}
  /\ runs[r].stage \in {"unrecord", "commit"} => runs[r].undone = 1
  /\ runs[r].stage = "commit" => runs[r].unrecorded

SchemaIs(n) == Prefix(n) /\ \A r \in Runs : UpInv(r, n) /\ DownInv(r, n)
MigratorInv == ~mixed => RunTypes /\ \E n \in 0..Latest : SchemaIs(n)

LEMMA MigratorInitInv == MigratorInit => MigratorInv
<1> SUFFICES ASSUME MigratorInit
             PROVE  RunTypes /\ \E n \in 0..Latest : SchemaIs(n)
  BY DEF MigratorInv
<1>1. RunTypes
  BY MigratorAssumption DEF MigratorInit, RunTypes, RunRecords, NotRun
<1>2. \A r \in Runs : runs[r].kind = "none"
  BY DEF MigratorInit, NotRun
<1>3. QED
  BY <1>1, <1>2 DEF MigratorInit, SchemaIs, Prefix, UpInv, DownInv

\* A run that goes on, with nothing committed.
LEMMA RunGoesOn ==
  ASSUME MigratorInv, ~mixed, NEW r \in Runs, NEW to \in RunRecords,
         runs' = [runs EXCEPT ![r] = to], UNCHANGED <<applied, effect, mixed>>,
         to.kind = runs[r].kind, to.kind # "none", to.stage # "idle",
         Migrating(r),
         to.kind = "up" => to.stage \in {"check", "apply", "record", "commit", "done"},
         to.kind = "up" /\ to.stage # "done" => to.version = runs[r].version \/ (to.version - 1 \in applied /\ to.version > 0),
         to.kind = "up" /\ to.stage \in {"apply", "record", "commit"} => to.version <= Latest,
         to.kind = "up" /\ to.stage = "commit" =>
           /\ to.version = runs[r].version /\ to.version \notin applied
           /\ \A q \in Peers(r) : runs[q].stage # "commit",
         to.kind = "down" /\ to.stage # "done" =>
           /\ to.version = runs[r].version
           /\ to.stage \in {"undo", "unrecord", "commit"}
           /\ to.stage \in {"unrecord", "commit"} => to.undone = 1
           /\ to.stage = "commit" => to.unrecorded
  PROVE  MigratorInv'
<1>1. RunTypes
  BY DEF MigratorInv
<1>2. PICK n \in 0..Latest : SchemaIs(n)
  BY DEF MigratorInv
<1>3. runs'[r] = to /\ \A q \in Runs \ {r} : runs'[q] = runs[q]
  BY <1>1 DEF RunTypes
<1>4. RunTypes'
  BY <1>1, <1>3 DEF RunTypes
<1>5. Prefix(n)'
  BY <1>2 DEF SchemaIs, Prefix
<1>6. \A q \in Runs : Migrating(q)' => Migrating(q)
  BY <1>3 DEF Migrating
<1>7. ASSUME NEW q \in Runs
      PROVE  UpInv(q, n)'
  <2>1. UpInv(q, n) /\ UpInv(r, n)
    BY <1>2 DEF SchemaIs
  <2>2. CASE q = r
    <3>1. to.version \in 0..(Latest + 1) /\ applied = 1..n /\ n \in Nat /\ Latest \in Nat
      BY <1>2, MigratorAssumption DEF RunRecords, SchemaIs, Prefix
    <3>2. ASSUME to.kind = "up", to.stage # "done"
          PROVE  to.version \in 1..(n + 1)
      <4>1. runs[r].stage \in {"check", "apply", "record", "commit"}
        BY <1>1, <3>2 DEF Migrating, RunTypes
      <4>2. runs[r].version \in 1..(n + 1)
        BY <2>1, <3>2, <4>1 DEF UpInv
      <4>3. QED
        BY <3>1, <3>2, <4>2
    <3>3. ASSUME to.kind = "up", to.stage = "commit"
          PROVE  to.version = n + 1 /\ \A p \in Peers(r)' : runs'[p].stage # "commit"
      <4>1. to.version = n + 1
        BY <3>1, <3>2, <3>3
      <4>2. ASSUME NEW p \in Peers(r)'
            PROVE  p \in Peers(r) /\ runs'[p] = runs[p]
        BY <1>3, <1>6, <3>3, <4>2 DEF Peers
      <4>3. QED
        BY <3>3, <4>1, <4>2
    <3>4. QED
      BY <1>3, <2>2, <3>2, <3>3 DEF UpInv
  <2>3. CASE q # r
    <3>1. runs'[q] = runs[q]
      BY <1>3, <2>3
    <3>2. \A p \in Peers(q)' : p \in Peers(q) \/ p = r
      BY <1>3, <3>1 DEF Peers, Migrating
    <3>3. runs[r].kind = "up" \/ runs[r].kind = "down"
      BY DEF RunRecords
    <3>4. runs[r].kind = "down" => ~Migrating(q)
      BY <1>2, <2>3 DEF SchemaIs, DownInv
    <3>5. ASSUME runs[q].kind = "up", runs[q].stage = "commit", NEW p \in Peers(q)'
          PROVE  runs'[p].stage # "commit"
      <4>1. Migrating(q)
        BY <3>5 DEF Migrating
      <4>2. CASE p = r
        <5>1. runs[r].kind = "up" /\ to.version = runs[q].version
          BY <1>3, <3>1, <3>3, <3>4, <3>5, <4>1, <4>2 DEF Peers
        <5>2. to.version = runs[r].version => q \in Peers(r)
          BY <2>3, <4>1, <5>1 DEF Peers
        <5>3. QED
          BY <1>3, <3>5, <4>2, <5>1, <5>2
      <4>3. CASE p # r
        BY <1>3, <2>1, <3>2, <3>5, <4>3 DEF UpInv, Peers
      <4>4. QED
        BY <4>2, <4>3
    <3>6. QED
      BY <2>1, <3>1, <3>5 DEF UpInv
  <2>4. QED
    BY <2>2, <2>3
<1>8. ASSUME NEW q \in Runs
      PROVE  DownInv(q, n)'
  <2>1. DownInv(q, n) /\ DownInv(r, n)
    BY <1>2 DEF SchemaIs
  <2>2. CASE q = r
    BY <1>3, <1>6, <2>1, <2>2 DEF DownInv, Migrating
  <2>3. CASE q # r
    BY <1>3, <1>6, <2>1, <2>3 DEF DownInv
  <2>4. QED
    BY <2>2, <2>3
<1>9. QED
  BY <1>4, <1>5, <1>7, <1>8 DEF MigratorInv, SchemaIs

\* The run that a record says, at another stage.
LEMMA AtStage ==
  ASSUME RunTypes, NEW r \in Runs, NEW to \in {"check", "apply", "record", "commit", "undo", "unrecord", "done"}
  PROVE  /\ [runs[r] EXCEPT !.stage = to] \in RunRecords
         /\ [runs[r] EXCEPT !.stage = to].stage = to
         /\ [runs[r] EXCEPT !.stage = to].kind = runs[r].kind
         /\ [runs[r] EXCEPT !.stage = to].version = runs[r].version
         /\ [runs[r] EXCEPT !.stage = to].undone = runs[r].undone
         /\ [runs[r] EXCEPT !.stage = to].unrecorded = runs[r].unrecorded
  BY DEF RunTypes, RunRecords

LEMMA MigrationFailsInv ==
  ASSUME MigratorInv, ~mixed, NEW r \in Runs, MigrationFails(r)
  PROVE  MigratorInv'
<1> DEFINE to == [runs[r] EXCEPT !.stage = "done"]
<1>1. RunTypes /\ Migrating(r)
  BY DEF MigratorInv, MigrationFails
<1>2. to \in RunRecords /\ to.kind = runs[r].kind /\ to.stage = "done"
  BY <1>1, AtStage
<1>3. to.kind # "none"
  BY <1>1, <1>2 DEF RunTypes, Migrating
<1>4. runs' = [runs EXCEPT ![r] = to] /\ UNCHANGED <<applied, effect, mixed>>
  BY DEF MigrationFails, Go
<1> HIDE DEF to
<1>5. QED
  BY <1>1, <1>2, <1>3, <1>4, RunGoesOn

LEMMA UpGoesTo ==
  ASSUME MigratorInv, ~mixed, NEW r \in Runs, runs[r].kind = "up", Migrating(r),
         NEW stage \in {"apply", "record", "commit", "done"},
         Go(r, stage), UNCHANGED <<applied, effect, mixed>>,
         stage # "done" => runs[r].version <= Latest,
         stage = "commit" => runs[r].version \notin applied /\ \A q \in Peers(r) : runs[q].stage # "commit"
  PROVE  MigratorInv'
<1> DEFINE to == [runs[r] EXCEPT !.stage = stage]
<1>1. RunTypes
  BY DEF MigratorInv
<1>2. to \in RunRecords /\ to.kind = "up" /\ to.stage = stage /\ to.version = runs[r].version
  BY <1>1 DEF RunTypes, RunRecords
<1>3. runs' = [runs EXCEPT ![r] = to]
  BY DEF Go
<1>4. to.kind = runs[r].kind /\ to.kind # "none" /\ to.kind # "down" /\ to.stage # "idle"
  BY <1>2
<1> HIDE DEF to
<1>5. to.stage \in {"check", "apply", "record", "commit", "done"}
  BY <1>2
<1>6. QED
  BY <1>2, <1>3, <1>4, <1>5, RunGoesOn

\* Who an Up is, by its stage.
LEMMA StageOfUp ==
  ASSUME MigratorInv, ~mixed, NEW r \in Runs, runs[r].stage \in {"check", "apply", "record"}
  PROVE  runs[r].kind = "up" /\ Migrating(r)
<1>1. RunTypes /\ Migrating(r)
  BY DEF MigratorInv, Migrating
<1>2. PICK n \in 0..Latest : SchemaIs(n)
  BY DEF MigratorInv
<1>3. QED
  BY <1>1, <1>2 DEF SchemaIs, DownInv, RunTypes, RunRecords

LEMMA CheckInv ==
  ASSUME MigratorInv, ~mixed, NEW r \in Runs, Check(r)
  PROVE  MigratorInv'
<1>1. RunTypes /\ Migrating(r) /\ runs[r].stage = "check" /\ runs[r] \in RunRecords
  BY DEF MigratorInv, Check, Migrating, RunTypes
<1>2. PICK n \in 0..Latest : SchemaIs(n)
  BY DEF MigratorInv
<1>4. runs[r].kind = "up" /\ runs[r].kind # "none"
  BY <1>1, StageOfUp
<1>5. runs[r].version \in 1..(Latest + 1) /\ Latest \in Nat /\ UNCHANGED <<applied, effect, mixed>>
  BY <1>1, <1>2, <1>4, MigratorAssumption DEF SchemaIs, UpInv, Check
<1>6. CASE runs[r].version \notin applied \/ runs[r].version > Latest
  <2>1. PICK stage \in {"apply", "done"} : Go(r, stage) /\ (stage = "apply" => runs[r].version <= Latest)
    BY <1>5, <1>6 DEF Check
  <2>2. QED
    BY <1>1, <1>4, <1>5, <2>1, UpGoesTo
<1>7. CASE runs[r].version \in applied /\ runs[r].version <= Latest
  <2> DEFINE to == [runs[r] EXCEPT !.version = @ + 1]
  <2>1. to \in RunRecords /\ to.kind = "up" /\ to.stage = "check" /\ to.version = runs[r].version + 1
    BY <1>1, <1>4, <1>5, <1>7 DEF RunRecords
  <2>2. runs' = [runs EXCEPT ![r] = to]
    BY <1>1, <1>5, <1>7 DEF Check
  <2>3. to.version - 1 \in applied /\ to.version > 0
    BY <1>5, <1>7, <2>1
  <2> HIDE DEF to
  <2>4. QED
    BY <1>1, <1>4, <1>5, <2>1, <2>2, <2>3, RunGoesOn
<1>8. QED
  BY <1>5, <1>6, <1>7

LEMMA ApplyInv ==
  ASSUME MigratorInv, ~mixed, NEW r \in Runs, Apply(r)
  PROVE  MigratorInv'
<1>1. runs[r].kind = "up" /\ Migrating(r) /\ runs[r].stage = "apply"
  BY StageOfUp DEF Apply
<1>2. runs[r].version <= Latest
  BY <1>1 DEF MigratorInv, SchemaIs, UpInv
<1>3. PICK stage \in {"record", "done"} : Go(r, stage) /\ UNCHANGED <<applied, effect, mixed>>
  BY DEF Apply
<1>4. QED
  BY <1>1, <1>2, <1>3, UpGoesTo

LEMMA RecordInv ==
  ASSUME MigratorInv, ~mixed, NEW r \in Runs, Record(r)
  PROVE  MigratorInv'
<1>1. runs[r].kind = "up" /\ Migrating(r) /\ runs[r].stage = "record"
  BY StageOfUp DEF Record
<1>2. runs[r].version <= Latest
  BY <1>1 DEF MigratorInv, SchemaIs, UpInv
<1>3. PICK stage \in {"commit", "done"} : Go(r, stage) /\ (stage = "commit" => runs[r].version \notin applied)
  BY DEF Record
<1>4. UNCHANGED <<applied, effect, mixed>> /\ \A q \in Peers(r) : runs[q].stage # "commit"
  BY DEF Record
<1>5. QED
  BY <1>1, <1>2, <1>3, <1>4, UpGoesTo

LEMMA CommitUpInv ==
  ASSUME MigratorInv, ~mixed, NEW r \in Runs, CommitUp(r)
  PROVE  MigratorInv'
<1>1. RunTypes /\ runs[r].kind = "up" /\ runs[r].stage = "commit" /\ Migrating(r) /\ runs[r] \in RunRecords
  BY DEF MigratorInv, CommitUp, Migrating, RunTypes
<1>2. PICK n \in 0..Latest : SchemaIs(n)
  BY DEF MigratorInv
<1>3. /\ runs[r].version = n + 1 /\ n + 1 <= Latest /\ n \in Nat /\ Latest \in Nat
      /\ \A q \in Peers(r) : runs[q].stage # "commit"
  BY <1>1, <1>2, MigratorAssumption DEF SchemaIs, UpInv
<1> DEFINE to == [runs[r] EXCEPT !.stage = "check", !.version = n + 2]
<1>4. to \in RunRecords /\ to.kind = "up" /\ to.stage = "check" /\ to.version = n + 2
  <2>1. n + 2 \in 0..(Latest + 1)
    BY <1>3
  <2>2. QED
    BY <1>1, <2>1 DEF RunRecords
<1>5. runs'[r] = to /\ \A q \in Runs \ {r} : runs'[q] = runs[q]
  <2>1. runs[r].version + 1 = n + 2
    BY <1>3
  <2>2. runs' = [runs EXCEPT ![r].stage = "check", ![r].version = n + 2]
    BY <2>1 DEF CommitUp
  <2>3. QED
    BY <1>1, <2>2 DEF RunTypes
<1> HIDE DEF to
<1>6. runs' \in [Runs -> RunRecords]
  <2>1. runs' = [q \in Runs |-> runs'[q]]
    BY <1>1 DEF RunTypes, CommitUp
  <2>2. \A q \in Runs : runs'[q] \in RunRecords
    BY <1>1, <1>4, <1>5 DEF RunTypes
  <2>3. QED
    BY <2>1, <2>2
<1>7. RunTypes'
  BY <1>1, <1>4, <1>5, <1>6 DEF RunTypes
<1>8. Prefix(n + 1)'
  <2>1. applied' = 1..(n + 1)
    BY <1>2, <1>3 DEF SchemaIs, Prefix, CommitUp
  <2>2. effect' = [v \in Versions |-> IF v <= n + 1 THEN 1 ELSE 0]
    <3>1. effect = [v \in Versions |-> IF v <= n THEN 1 ELSE 0] /\ effect' = [effect EXCEPT ![n + 1] = @ + 1]
      BY <1>2, <1>3 DEF SchemaIs, Prefix, CommitUp
    <3>2. n + 1 \in Versions /\ effect[n + 1] = 0
      BY <1>3, <3>1 DEF Versions
    <3>3. \A v \in Versions : v <= n + 1 <=> v <= n \/ v = n + 1
      BY <1>3 DEF Versions
    <3>4. QED
      BY <3>1, <3>2, <3>3
  <2>3. QED
    BY <2>1, <2>2 DEF Prefix
<1>9. ASSUME NEW q \in Runs
      PROVE  UpInv(q, n + 1)' /\ DownInv(q, n + 1)'
  <2>1. CASE q = r
    BY <1>3, <1>4, <1>5, <2>1 DEF UpInv, DownInv
  <2>2. CASE q # r
    <3>1. UpInv(q, n) /\ DownInv(q, n) /\ runs'[q] = runs[q] /\ runs[q] \in RunRecords
      BY <1>1, <1>2, <1>5, <2>2 DEF SchemaIs, RunTypes
    <3>2. ~(runs[q].kind = "up" /\ runs[q].stage = "commit")
      BY <1>3, <2>2, <3>1 DEF UpInv, Peers, Migrating
    <3>3. ~(runs[q].kind = "down" /\ Migrating(q))
      BY <1>1, <2>2, <3>1 DEF DownInv
    <3>4. DownInv(q, n + 1)'
      BY <3>1, <3>3 DEF DownInv, Migrating
    <3>5. QED
      BY <1>3, <3>1, <3>2, <3>4 DEF UpInv, RunRecords
  <2>3. QED
    BY <2>1, <2>2
<1>10. n + 1 \in 0..Latest
  BY <1>3
<1>11. QED
  BY <1>7, <1>8, <1>9, <1>10 DEF MigratorInv, SchemaIs

\* An Up begins: nobody else is at work, or it is not alone with Ups.
LEMMA BeginUpInv ==
  ASSUME MigratorInv, ~mixed', NEW r \in Runs, BeginUp(r)
  PROVE  MigratorInv'
<1> DEFINE to == [NotRun EXCEPT !.kind = "up", !.stage = "check", !.version = 1]
<1>1. /\ ~mixed /\ runs[r].stage = "idle"
      /\ \A q \in Runs : ~(Migrating(q) /\ runs[q].kind = "down")
      /\ UNCHANGED <<applied, effect>> /\ runs' = [runs EXCEPT ![r] = to]
  BY DEF BeginUp
<1>2. to \in RunRecords /\ to.kind = "up" /\ to.stage = "check" /\ to.version = 1
  <2>1. 0 \in 0..(Latest + 1) /\ 1 \in 0..(Latest + 1) /\ 0 \in 0..1
    BY MigratorAssumption
  <2>2. QED
    BY <2>1 DEF NotRun, RunRecords
<1> HIDE DEF to
<1>3. RunTypes
  BY <1>1 DEF MigratorInv
<1>4. PICK n \in 0..Latest : SchemaIs(n)
  BY <1>1 DEF MigratorInv
<1>5. runs'[r] = to /\ (\A q \in Runs \ {r} : runs'[q] = runs[q]) /\ runs' \in [Runs -> RunRecords]
  BY <1>1, <1>2, <1>3 DEF RunTypes
<1>6. RunTypes'
  BY <1>2, <1>3, <1>5 DEF RunTypes
<1>7. n \in Nat /\ 1 \in 1..(n + 1)
  BY MigratorAssumption
<1>8. ASSUME NEW q \in Runs
      PROVE  UpInv(q, n)' /\ DownInv(q, n)'
  <2>1. CASE q = r
    BY <1>2, <1>5, <1>7, <2>1 DEF UpInv, DownInv
  <2>2. CASE q # r
    <3>1. UpInv(q, n) /\ runs'[q] = runs[q]
      BY <1>4, <1>5, <2>2 DEF SchemaIs
    <3>2. \A p \in Peers(q)' : p = r \/ (p \in Peers(q) /\ runs'[p] = runs[p])
      BY <1>5, <3>1 DEF Peers, Migrating
    <3>3. UpInv(q, n)'
      BY <1>2, <1>5, <3>1, <3>2 DEF UpInv
    <3>4. DownInv(q, n)'
      BY <1>1, <3>1 DEF DownInv, Migrating
    <3>5. QED
      BY <3>3, <3>4
  <2>3. QED
    BY <2>1, <2>2
<1>9. Prefix(n)'
  BY <1>1, <1>4 DEF SchemaIs, Prefix
<1>10. QED
  BY <1>6, <1>8, <1>9 DEF MigratorInv, SchemaIs

\* A Down begins, and nobody else is at work.
LEMMA BeginDownInv ==
  ASSUME MigratorInv, ~mixed', NEW r \in Runs, BeginDown(r)
  PROVE  MigratorInv'
<1>1. ~mixed /\ runs[r].stage = "idle" /\ applied # {} /\ (\A q \in Runs : ~Migrating(q)) /\ UNCHANGED <<applied, effect>>
  BY DEF BeginDown
<1>2. RunTypes
  BY <1>1 DEF MigratorInv
<1>3. PICK n \in 0..Latest : SchemaIs(n)
  BY <1>1 DEF MigratorInv
<1>4. n \in Nat /\ n > 0 /\ Latest \in Nat /\ applied = 1..n
  BY <1>1, <1>3, MigratorAssumption DEF SchemaIs, Prefix
<1>5. (CHOOSE v \in applied : \A w \in applied : w <= v) = n
  <2>1. n \in applied /\ \A w \in applied : w <= n
    BY <1>4
  <2>2. \A v \in applied : (\A w \in applied : w <= v) => v = n
    BY <1>4
  <2>3. QED
    BY <2>1, <2>2
<1> DEFINE to == [NotRun EXCEPT !.kind = "down", !.stage = "undo", !.version = n]
<1>6. to \in RunRecords /\ to.kind = "down" /\ to.stage = "undo" /\ to.version = n
  <2>1. 0 \in 0..(Latest + 1) /\ n \in 0..(Latest + 1) /\ 0 \in 0..1
    BY <1>4
  <2>2. QED
    BY <2>1 DEF NotRun, RunRecords
<1>7. runs' = [runs EXCEPT ![r] = to]
  BY <1>5 DEF BeginDown
<1> HIDE DEF to
<1>8. runs'[r] = to /\ (\A q \in Runs \ {r} : runs'[q] = runs[q]) /\ runs' \in [Runs -> RunRecords]
  BY <1>2, <1>6, <1>7 DEF RunTypes
<1>9. RunTypes'
  BY <1>2, <1>6, <1>8 DEF RunTypes
<1>10. ASSUME NEW q \in Runs
       PROVE  UpInv(q, n)' /\ DownInv(q, n)'
  <2>1. CASE q = r
    BY <1>1, <1>4, <1>6, <1>8, <2>1 DEF UpInv, DownInv, Migrating
  <2>2. CASE q # r
    BY <1>1, <1>2, <1>8, <2>2 DEF UpInv, DownInv, Migrating, RunTypes
  <2>3. QED
    BY <2>1, <2>2
<1>11. Prefix(n)'
  BY <1>1, <1>3 DEF SchemaIs, Prefix
<1>12. QED
  BY <1>9, <1>10, <1>11 DEF MigratorInv, SchemaIs

\* Who a Down is, by its stage, and what it has found.
LEMMA StageOfDown ==
  ASSUME MigratorInv, ~mixed, NEW r \in Runs, runs[r].stage \in {"undo", "unrecord", "commit"},
         runs[r].stage = "commit" => runs[r].kind = "down"
  PROVE  /\ RunTypes /\ runs[r].kind = "down" /\ Migrating(r) /\ runs[r] \in RunRecords
         /\ \E n \in 0..Latest : SchemaIs(n) /\ DownInv(r, n)
<1>1. RunTypes /\ Migrating(r)
  BY DEF MigratorInv, Migrating
<1>2. runs[r].kind = "down" /\ runs[r] \in RunRecords
  BY <1>1 DEF RunTypes, RunRecords
<1>3. QED
  BY <1>1, <1>2 DEF MigratorInv, SchemaIs

LEMMA UndoInv ==
  ASSUME MigratorInv, ~mixed, NEW r \in Runs, Undo(r)
  PROVE  MigratorInv'
<1>1. RunTypes /\ runs[r].kind = "down" /\ Migrating(r) /\ runs[r] \in RunRecords /\ runs[r].stage = "undo"
  BY StageOfDown DEF Undo
<1>2. PICK n \in 0..Latest : SchemaIs(n) /\ DownInv(r, n)
  BY <1>1, StageOfDown
<1>3. n \in Nat /\ n > 0 /\ n \in Versions /\ runs[r].version = n
  BY <1>1, <1>2, MigratorAssumption DEF DownInv, Versions
<1>4. effect[runs[r].version] = 1
  BY <1>2, <1>3 DEF SchemaIs, Prefix
<1> DEFINE to == [runs[r] EXCEPT !.stage = "unrecord", !.undone = 1]
<1>5. /\ to \in RunRecords /\ to.kind = "down" /\ to.stage = "unrecord" /\ to.version = runs[r].version
      /\ to.undone = 1
  <2>1. 1 \in 0..1
    OBVIOUS
  <2>2. QED
    BY <1>1, <2>1 DEF RunRecords
<1>6. runs' = [runs EXCEPT ![r] = to] /\ UNCHANGED <<applied, effect, mixed>>
  <2>1. runs' = [runs EXCEPT ![r].stage = "unrecord", ![r].undone = 1] /\ UNCHANGED <<applied, effect, mixed>>
    BY <1>4 DEF Undo
  <2>2. runs \in [Runs -> RunRecords]
    BY <1>1 DEF RunTypes
  <2>3. QED
    BY <2>1, <2>2
<1> HIDE DEF to
<1>7. QED
  BY <1>1, <1>5, <1>6, RunGoesOn

LEMMA UnrecordInv ==
  ASSUME MigratorInv, ~mixed, NEW r \in Runs, Unrecord(r)
  PROVE  MigratorInv'
<1>1. RunTypes /\ runs[r].kind = "down" /\ Migrating(r) /\ runs[r] \in RunRecords /\ runs[r].stage = "unrecord"
  BY StageOfDown DEF Unrecord
<1>2. PICK n \in 0..Latest : SchemaIs(n) /\ DownInv(r, n)
  BY <1>1, StageOfDown
<1>3. runs[r].version \in applied /\ runs[r].undone = 1
  BY <1>1, <1>2, MigratorAssumption DEF DownInv, SchemaIs, Prefix
<1> DEFINE to == [runs[r] EXCEPT !.stage = "commit", !.unrecorded = TRUE]
<1>4. /\ to \in RunRecords /\ to.kind = "down" /\ to.stage = "commit" /\ to.version = runs[r].version
      /\ to.undone = 1 /\ to.unrecorded = TRUE
  BY <1>1, <1>3 DEF RunRecords
<1>5. runs' = [runs EXCEPT ![r] = to] /\ UNCHANGED <<applied, effect, mixed>>
  BY <1>1, <1>3 DEF Unrecord, RunTypes
<1> HIDE DEF to
<1>6. QED
  BY <1>1, <1>4, <1>5, RunGoesOn

LEMMA CommitDownInv ==
  ASSUME MigratorInv, ~mixed, NEW r \in Runs, CommitDown(r)
  PROVE  MigratorInv'
<1>1. RunTypes /\ runs[r].kind = "down" /\ Migrating(r) /\ runs[r] \in RunRecords /\ runs[r].stage = "commit"
  BY StageOfDown DEF CommitDown
<1>2. PICK n \in 0..Latest : SchemaIs(n) /\ DownInv(r, n)
  BY <1>1, StageOfDown DEF CommitDown
<1>3. /\ n \in Nat /\ n > 0 /\ n \in Versions /\ runs[r].version = n
      /\ runs[r].undone = 1 /\ runs[r].unrecorded /\ n - 1 \in 0..Latest
      /\ \A q \in Runs \ {r} : ~Migrating(q)
  BY <1>1, <1>2, MigratorAssumption DEF DownInv, Versions
<1>4. Prefix(n - 1)'
  <2>1. applied' = 1..(n - 1)
    BY <1>2, <1>3 DEF SchemaIs, Prefix, CommitDown
  <2>2. effect = [v \in Versions |-> IF v <= n THEN 1 ELSE 0] /\ effect' = [effect EXCEPT ![n] = @ - 1]
    BY <1>2, <1>3 DEF SchemaIs, Prefix, CommitDown
  <2>3. \A v \in Versions : v <= n - 1 <=> v <= n /\ v # n
    BY <1>3 DEF Versions
  <2>4. effect' = [v \in Versions |-> IF v <= n - 1 THEN 1 ELSE 0]
    <3>1. effect[n] = 1 /\ n <= n
      BY <1>3, <2>2
    <3>2. effect' = [v \in Versions |-> IF v = n THEN 0 ELSE effect[v]]
      BY <2>2, <3>1
    <3>3. \A v \in Versions : (IF v = n THEN 0 ELSE effect[v]) = (IF v <= n - 1 THEN 1 ELSE 0)
      BY <2>2, <2>3
    <3>4. QED
      BY <3>2, <3>3
  <2>5. QED
    BY <2>1, <2>4 DEF Prefix
<1> DEFINE to == [runs[r] EXCEPT !.stage = "done"]
<1>5. to \in RunRecords /\ to.kind = "down" /\ to.stage = "done"
  BY <1>1 DEF RunRecords
<1>6. runs' = [runs EXCEPT ![r] = to]
  BY DEF CommitDown, Go
<1> HIDE DEF to
<1>7. runs'[r] = to /\ (\A q \in Runs \ {r} : runs'[q] = runs[q]) /\ runs' \in [Runs -> RunRecords]
  BY <1>1, <1>5, <1>6 DEF RunTypes
<1>8. RunTypes'
  BY <1>1, <1>5, <1>7 DEF RunTypes
<1>9. ASSUME NEW q \in Runs
      PROVE  ~Migrating(q)'
  BY <1>3, <1>5, <1>7 DEF Migrating
<1>10. ASSUME NEW q \in Runs
       PROVE  UpInv(q, n - 1)' /\ DownInv(q, n - 1)'
  BY <1>8, <1>9 DEF UpInv, DownInv, Migrating
<1>11. QED
  BY <1>3, <1>4, <1>8, <1>10 DEF MigratorInv, SchemaIs

LEMMA MigratorNextInv ==
  ASSUME MigratorInv, MigratorNext
  PROVE  MigratorInv'
<1>1. CASE mixed'
  BY <1>1 DEF MigratorInv
<1>2. CASE ~mixed'
  <2>1. ~mixed
    BY <1>2 DEF MigratorNext, BeginUp, Check, Apply, Record, CommitUp, BeginDown, Undo, Unrecord,
                CommitDown, MigrationFails
  <2>2. QED
    BY <1>2, <2>1, BeginUpInv, CheckInv, ApplyInv, RecordInv, CommitUpInv, BeginDownInv, UndoInv,
       UnrecordInv, CommitDownInv, MigrationFailsInv DEF MigratorNext
<1>3. QED
  BY <1>1, <1>2

-----------------------------------------------------------------------------
(***************************************************************************)
(* The start of the instances over them.  Without a Down nothing is taken  *)
(* away, so an instance that has migrated has all versions in effect, and  *)
(* what it has counted or inserted stays.                                  *)
(***************************************************************************)

NoDown == \A r \in Runs : runs[r].kind # "down"
Stages == {"migrate", "count_outlets", "outlet", "count_services", "service", "price", "unpriced",
           "count_users", "owner", "broker", "serving", "exited"}

Rec(x) == [f \in {"kind", "stage", "version", "undone", "unrecorded"} |-> x[f]]

\* What a run is, whoever else is at work.
KindsInv ==
  /\ runs = [r \in Runs |-> Rec(runs[r])]
  /\ \A r \in Runs : runs[r].stage = "idle" => runs[r].kind = "none"
  /\ mixed => ~NoDown

\* How far an instance is, and what it has found or left in the database.
BootInv(r) ==
  /\ boot[r] # "migrate" => Versions \subseteq applied
  /\ service = "core" => boot[r] \notin {"count_users", "owner"}
  /\ service = "identity" => boot[r] \in {"migrate", "count_users", "owner", "broker", "serving", "exited"}
  /\ service = "core" /\ boot[r] \in {"count_services", "service", "price", "unpriced", "broker", "serving"} =>
       "outlet" \in seeds
  /\ service = "core" /\ boot[r] \in {"price", "unpriced", "broker", "serving"} => "service" \in seeds
  /\ service = "identity" /\ boot[r] \in {"broker", "serving"} => "owner" \in seeds

HasRole == service = "identity" /\ "owner" \in seeds => "role" \in seeds
HasPrice == service = "core" /\ "service" \in seeds =>
  "price" \in seeds \/ \E r \in Runs : boot[r] \in {"price", "unpriced"}

BootTypes == service \in Services /\ boot \in [Runs -> Stages]
RunsFrom(r) == runs[r].kind = "up" => 1..(runs[r].version - 1) \subseteq applied

StartupInv ==
  /\ KindsInv /\ BootTypes
  /\ NoDown => (\A r \in Runs : RunsFrom(r) /\ BootInv(r)) /\ HasRole /\ HasPrice

LEMMA StartupInitInv == MigratorInit /\ StartupInit => StartupInv
<1> SUFFICES ASSUME MigratorInit, StartupInit
             PROVE  StartupInv
  OBVIOUS
<1>1. runs = [r \in Runs |-> NotRun] /\ ~mixed
  BY DEF MigratorInit
<1>2. KindsInv
  BY <1>1 DEF KindsInv, NotRun, Rec
<1>3. \A r \in Runs : RunsFrom(r) /\ BootInv(r)
  BY <1>1 DEF RunsFrom, BootInv, NotRun, StartupInit
<1>4. BootTypes /\ HasRole /\ HasPrice
  BY DEF StartupInit, BootTypes, HasRole, HasPrice, Stages
<1>5. QED
  BY <1>2, <1>3, <1>4 DEF StartupInv

\* What any step of a run does to the runs.
Turns(r, kinds) ==
  /\ runs' = [q \in Runs |-> runs'[q]]
  /\ \A q \in Runs \ {r} : runs'[q] = runs[q]
  /\ runs'[r] = Rec(runs'[r])
  /\ runs'[r].kind \in kinds
  /\ runs'[r].stage # "idle"

LEMMA BeginTurns ==
  ASSUME KindsInv, NEW r \in Runs, BeginUp(r) \/ BeginDown(r)
  PROVE  /\ runs[r].kind = "none"
         /\ BeginUp(r) => Turns(r, {"up"})
         /\ BeginDown(r) => Turns(r, {"down"})
<1>1. runs[r].kind = "none"
  BY DEF KindsInv, BeginUp, BeginDown
<1>2. ASSUME NEW k \in {"up", "down"}, NEW s \in {"check", "undo"}, NEW v,
             runs' = [runs EXCEPT ![r] = [NotRun EXCEPT !.kind = k, !.stage = s, !.version = v]]
      PROVE  Turns(r, {k})
  <2> DEFINE to == [NotRun EXCEPT !.kind = k, !.stage = s, !.version = v]
  <2>1. to = Rec(to) /\ to.kind = k /\ to.stage = s
    BY DEF NotRun, Rec
  <2>2. runs'[r] = to /\ (\A q \in Runs \ {r} : runs'[q] = runs[q]) /\ runs' = [q \in Runs |-> runs'[q]]
    BY <1>2 DEF KindsInv
  <2> HIDE DEF to
  <2>3. QED
    BY <2>1, <2>2 DEF Turns
<1>3. BeginUp(r) => Turns(r, {"up"})
  BY <1>2 DEF BeginUp
<1>4. BeginDown(r) => Turns(r, {"down"})
  <2> DEFINE highest == CHOOSE v \in applied : \A w \in applied : w <= v
  <2>1. BeginDown(r) => runs' = [runs EXCEPT ![r] = [NotRun EXCEPT !.kind = "down", !.stage = "undo", !.version = highest]]
    BY DEF BeginDown
  <2> HIDE DEF highest
  <2>2. QED
    BY <1>2, <2>1
<1>5. QED
  BY <1>1, <1>3, <1>4

LEMMA OtherTurns ==
  ASSUME KindsInv, NEW r \in Runs,
         \/ Check(r) \/ Apply(r) \/ Record(r) \/ CommitUp(r)
         \/ Undo(r) \/ Unrecord(r) \/ CommitDown(r) \/ MigrationFails(r)
  PROVE  Turns(r, {runs[r].kind}) /\ mixed' = mixed
<1>1. runs[r] = Rec(runs[r]) /\ runs = [q \in Runs |-> runs[q]]
  BY DEF KindsInv, Rec
<1>2. ASSUME NEW s \in {"apply", "done", "check", "record", "commit", "unrecord"}, Go(r, s)
      PROVE  Turns(r, {runs[r].kind})
  BY <1>1, <1>2 DEF Go, Rec, Turns
<1>3. ASSUME NEW v, runs' = [runs EXCEPT ![r].stage = "check", ![r].version = v]
      PROVE  Turns(r, {runs[r].kind})
  BY <1>1, <1>3 DEF Rec, Turns
<1>4. ASSUME NEW u, runs' = [runs EXCEPT ![r].stage = "unrecord", ![r].undone = u]
      PROVE  Turns(r, {runs[r].kind})
  BY <1>1, <1>4 DEF Rec, Turns
<1>5. ASSUME NEW u, runs' = [runs EXCEPT ![r].stage = "commit", ![r].unrecorded = u]
      PROVE  Turns(r, {runs[r].kind})
  BY <1>1, <1>5 DEF Rec, Turns
<1>6. ASSUME NEW v, runs[r].stage = "check", runs' = [runs EXCEPT ![r].version = v]
      PROVE  Turns(r, {runs[r].kind})
  BY <1>1, <1>6 DEF Rec, Turns
<1>7. Check(r) => Turns(r, {runs[r].kind})
  BY <1>2, <1>6 DEF Check
<1>8. Apply(r) \/ Record(r) \/ CommitDown(r) \/ MigrationFails(r) => Turns(r, {runs[r].kind})
  BY <1>2 DEF Apply, Record, CommitDown, MigrationFails
<1>9. CommitUp(r) => Turns(r, {runs[r].kind})
  BY <1>3 DEF CommitUp
<1>10. Undo(r) => Turns(r, {runs[r].kind})
  BY <1>4 DEF Undo
<1>11. Unrecord(r) => Turns(r, {runs[r].kind})
  BY <1>5 DEF Unrecord
<1>12. mixed' = mixed
  BY DEF Check, Apply, Record, CommitUp, Undo, Unrecord, CommitDown, MigrationFails
<1>13. QED
  BY <1>7, <1>8, <1>9, <1>10, <1>11, <1>12

\* A Down is a Down for ever.
LEMMA KindsNext ==
  ASSUME KindsInv, MigratorNext
  PROVE  KindsInv' /\ (NoDown' => NoDown)
<1>1. PICK r \in Runs :
        \/ BeginUp(r) \/ Check(r) \/ Apply(r) \/ Record(r) \/ CommitUp(r)
        \/ BeginDown(r) \/ Undo(r) \/ Unrecord(r) \/ CommitDown(r)
        \/ MigrationFails(r)
  BY DEF MigratorNext
<1>2. PICK kinds : Turns(r, kinds) /\ (runs[r].kind = "down" => kinds = {"down"})
  <2>1. CASE BeginUp(r) \/ BeginDown(r)
    BY <2>1, BeginTurns
  <2>2. CASE ~(BeginUp(r) \/ BeginDown(r))
    BY <1>1, <2>2, OtherTurns
  <2>3. QED
    BY <2>1, <2>2
<1>3. \A q \in Runs : runs[q].kind = "down" => runs'[q].kind = "down"
  BY <1>2 DEF Turns
<1>4. \A q \in Runs : runs'[q].stage = "idle" => runs'[q].kind = "none"
  BY <1>2 DEF Turns, KindsInv
<1>5. \A q \in Runs : runs'[q] = Rec(runs'[q])
  BY <1>2 DEF Turns, KindsInv, Rec
<1>6. mixed' => ~NoDown'
  <2>1. CASE BeginUp(r)
    BY <1>3, <2>1 DEF BeginUp, KindsInv, NoDown
  <2>2. CASE BeginDown(r)
    BY <2>2, BeginTurns DEF Turns, NoDown
  <2>3. CASE ~(BeginUp(r) \/ BeginDown(r))
    BY <1>1, <1>3, <2>3, OtherTurns DEF KindsInv, NoDown
  <2>4. QED
    BY <2>1, <2>2, <2>3
<1>7. runs' = [q \in Runs |-> Rec(runs'[q])]
  BY <1>2, <1>5 DEF Turns
<1>8. KindsInv'
  BY <1>4, <1>6, <1>7 DEF KindsInv, Rec
<1>9. QED
  BY <1>3, <1>8 DEF NoDown

\* An Up takes nothing away, and has all that it passed.
LEMMA UpOnlyAdds ==
  ASSUME MigratorInv, ~mixed, NoDown, NoDown', NEW r \in Runs, RunsFrom(r),
         \/ BeginUp(r) \/ Check(r) \/ Apply(r) \/ Record(r) \/ CommitUp(r)
         \/ BeginDown(r) \/ Undo(r) \/ Unrecord(r) \/ CommitDown(r)
         \/ MigrationFails(r)
  PROVE  /\ applied \subseteq applied'
         /\ RunsFrom(r)'
         /\ \A q \in Runs \ {r} : runs'[q] = runs[q]
<1>1. RunTypes /\ runs \in [Runs -> RunRecords]
  BY DEF MigratorInv, RunTypes
<1>2. ~(BeginDown(r) \/ Undo(r) \/ Unrecord(r) \/ CommitDown(r))
  <2>1. ~BeginDown(r)
    <3> DEFINE highest == CHOOSE v \in applied : \A w \in applied : w <= v
    <3>1. BeginDown(r) => runs' = [runs EXCEPT ![r] = [NotRun EXCEPT !.kind = "down", !.stage = "undo", !.version = highest]]
      BY DEF BeginDown
    <3> HIDE DEF highest
    <3>2. BeginDown(r) => runs'[r].kind = "down"
      BY <1>1, <3>1 DEF NotRun
    <3>3. QED
      BY <3>2 DEF NoDown
  <2>2. runs[r].kind \in {"none", "up"}
    BY <1>1 DEF NoDown, RunRecords
  <2>3. QED
    BY <1>1, <2>1, <2>2 DEF Undo, Unrecord, CommitDown, RunTypes
<1>3. CASE BeginUp(r)
  <2>1. runs'[r].version = 1 /\ \A q \in Runs \ {r} : runs'[q] = runs[q]
    BY <1>1, <1>3 DEF BeginUp, NotRun
  <2>2. QED
    BY <1>3, <2>1 DEF BeginUp, RunsFrom
<1>4. CASE Check(r)
  <2>1. /\ \A q \in Runs \ {r} : runs'[q] = runs[q]
        /\ \/ runs'[r].version = runs[r].version
           \/ runs'[r].version = runs[r].version + 1 /\ runs[r].version \in applied
    BY <1>1, <1>4 DEF Check, Go, RunRecords
  <2>2. runs'[r].kind = runs[r].kind /\ runs[r].version \in Nat
    BY <1>1, <1>4, MigratorAssumption DEF Check, Go, RunRecords
  <2>3. QED
    BY <1>4, <2>1, <2>2 DEF Check, RunsFrom
<1>5. CASE CommitUp(r)
  <2>1. /\ \A q \in Runs \ {r} : runs'[q] = runs[q]
        /\ runs'[r].version = runs[r].version + 1
        /\ runs'[r].kind = runs[r].kind /\ runs[r].version \in Nat
    BY <1>1, <1>5, MigratorAssumption DEF CommitUp, RunRecords
  <2>2. applied' = applied \cup {runs[r].version}
    BY <1>5 DEF CommitUp
  <2>3. QED
    BY <2>1, <2>2 DEF RunsFrom
<1>6. CASE Apply(r) \/ Record(r) \/ MigrationFails(r)
  <2>1. /\ \A q \in Runs \ {r} : runs'[q] = runs[q]
        /\ runs'[r].version = runs[r].version /\ runs'[r].kind = runs[r].kind
    BY <1>1, <1>6 DEF Apply, Record, MigrationFails, Go, RunRecords
  <2>2. UNCHANGED applied
    BY <1>6 DEF Apply, Record, MigrationFails
  <2>3. QED
    BY <2>1, <2>2 DEF RunsFrom
<1>7. QED
  BY <1>2, <1>3, <1>4, <1>5, <1>6

LEMMA SchemaNextInv ==
  ASSUME MigratorInv, StartupInv, SchemaNext
  PROVE  StartupInv'
<1>1. KindsInv' /\ (NoDown' => NoDown) /\ UNCHANGED <<service, boot>> /\ KindsInv
  BY KindsNext DEF StartupInv, SchemaNext
<1>2. BootTypes'
  BY <1>1 DEF StartupInv, BootTypes
<1>3. ASSUME NoDown'
      PROVE  (\A q \in Runs : RunsFrom(q)' /\ BootInv(q)') /\ HasRole' /\ HasPrice'
  <2>1. ~mixed /\ ~mixed' /\ NoDown /\ MigratorInv'
    BY <1>1, <1>3, MigratorNextInv DEF KindsInv, SchemaNext
  <2>2. \A q \in Runs : RunsFrom(q) /\ BootInv(q)
    BY <2>1 DEF StartupInv
  <2>3. PICK r \in Runs :
        \/ BeginUp(r) \/ Check(r) \/ Apply(r) \/ Record(r) \/ CommitUp(r)
        \/ BeginDown(r) \/ Undo(r) \/ Unrecord(r) \/ CommitDown(r)
        \/ MigrationFails(r)
    BY DEF SchemaNext, MigratorNext
  <2>4. /\ applied \subseteq applied'
        /\ RunsFrom(r)'
        /\ \A q \in Runs \ {r} : runs'[q] = runs[q]
    BY <1>3, <2>1, <2>2, <2>3, UpOnlyAdds
  <2>5. \A q \in Runs : RunsFrom(q)'
    BY <2>2, <2>4 DEF RunsFrom
  <2>6. UNCHANGED seeds
    <3>1. PICK n \in 0..Latest : SchemaIs(n)
      BY <2>1 DEF MigratorInv
    <3>2. PICK m \in 0..Latest : SchemaIs(m)'
      BY <2>1 DEF MigratorInv
    <3>3. /\ 1 \in Versions /\ effect[1] = (IF 1 <= n THEN 1 ELSE 0) /\ effect'[1] = (IF 1 <= m THEN 1 ELSE 0)
          /\ applied = 1..n /\ applied' = 1..m
      BY <3>1, <3>2, MigratorAssumption DEF SchemaIs, Prefix, Versions
    <3>4. 1 <= n => 1 <= m
      BY <2>4, <3>3
    <3>5. ~(effect'[1] < effect[1])
      BY <3>3, <3>4
    <3>6. QED
      BY <3>5 DEF SchemaNext
  <2>7. \A q \in Runs : BootInv(q)'
    BY <1>1, <2>2, <2>4, <2>6 DEF BootInv, Versions
  <2>8. QED
    BY <1>1, <2>1, <2>5, <2>6, <2>7 DEF StartupInv, HasRole, HasPrice
<1>4. QED
  BY <1>1, <1>2, <1>3 DEF StartupInv

\* An instance goes on; what it has found or left stays.
LEMMA BootGoesOn ==
  ASSUME StartupInv, NEW r \in Runs, NEW to \in Stages,
         boot' = [boot EXCEPT ![r] = to], UNCHANGED <<service, migratorVars>>,
         seeds \subseteq seeds',
         NoDown => BootInv(r)' /\ HasRole' /\ HasPrice'
  PROVE  StartupInv'
<1>1. BootTypes' /\ \A q \in Runs \ {r} : boot'[q] = boot[q]
  BY DEF StartupInv, BootTypes
<1>2. KindsInv' /\ (NoDown' <=> NoDown) /\ \A q \in Runs : RunsFrom(q)' <=> RunsFrom(q)
  BY DEF StartupInv, KindsInv, NoDown, RunsFrom, migratorVars, Rec
<1>3. ASSUME NoDown, NEW q \in Runs \ {r}
      PROVE  BootInv(q)'
  <2>1. BootInv(q) /\ boot'[q] = boot[q] /\ UNCHANGED <<service, applied>>
    BY <1>1, <1>3 DEF StartupInv, migratorVars
  <2>2. QED
    BY <2>1 DEF BootInv, Versions
<1>4. QED
  BY <1>1, <1>2, <1>3 DEF StartupInv

\* A step that inserts no row.
LEMMA OnlyMoves ==
  ASSUME StartupInv, NEW r \in Runs, NEW from, NEW to \in Stages, Move(r, from, to),
         UNCHANGED <<service, seeds, migratorVars>>,
         from \in {"price", "unpriced"} => to \in {"price", "unpriced"},
         NoDown => BootInv(r)'
  PROVE  StartupInv'
<1>1. boot[r] = from /\ boot' = [boot EXCEPT ![r] = to] /\ boot'[r] = to
      /\ \A q \in Runs \ {r} : boot'[q] = boot[q]
  BY DEF Move, StartupInv, BootTypes
<1>2. NoDown => HasRole' /\ HasPrice'
  BY <1>1 DEF StartupInv, HasRole, HasPrice
<1>3. QED
  BY <1>1, <1>2, BootGoesOn

LEMMA MigratedInv ==
  ASSUME StartupInv, MigratorInv, NEW r \in Runs, Migrated(r), UNCHANGED migratorVars
  PROVE  StartupInv'
<1> DEFINE to == FirstStep[service]
<1>1. /\ to \in {"count_outlets", "count_users", "broker"}
      /\ service = "core" => to = "count_outlets"
      /\ service = "identity" => to = "count_users"
  BY DEF StartupInv, BootTypes, FirstStep, Services
<1>2. Move(r, "migrate", to) /\ UNCHANGED <<service, seeds>>
  BY DEF Migrated
<1> HIDE DEF to
<1>3. ASSUME NoDown
      PROVE  Versions \subseteq applied
  <2>1. RunsFrom(r) /\ ~mixed
    BY <1>3 DEF StartupInv, KindsInv
  <2>2. runs[r].version \in 0..(Latest + 1) /\ runs[r].version > Latest /\ runs[r].kind = "up"
    BY <2>1 DEF MigratorInv, RunTypes, RunRecords, Migrated, HasMigrated
  <2>3. QED
    BY <2>1, <2>2, MigratorAssumption DEF RunsFrom, Versions
<1>4. boot'[r] = to
  BY <1>2 DEF Move, StartupInv, BootTypes
<1>5. NoDown => BootInv(r)'
  BY <1>1, <1>2, <1>3, <1>4 DEF BootInv, Versions, migratorVars
<1>6. to \in Stages
  BY <1>1 DEF Stages
<1>7. QED
  BY <1>2, <1>5, <1>6, OnlyMoves

\* Where an instance is, once it has migrated.
LEMMA AfterMigration ==
  ASSUME StartupInv, NEW r \in Runs, boot[r] # "migrate", UNCHANGED <<service, migratorVars>>,
         seeds \subseteq seeds', NEW to \in Stages, boot'[r] = to,
         service = "core" => to \notin {"count_users", "owner"},
         service = "identity" => to \in {"migrate", "count_users", "owner", "broker", "serving", "exited"},
         service = "core" /\ to \in {"count_services", "service", "price", "unpriced", "broker", "serving"} =>
           boot[r] \in {"count_services", "service", "price", "unpriced", "broker", "serving"} \/ "outlet" \in seeds',
         service = "core" /\ to \in {"price", "unpriced", "broker", "serving"} =>
           boot[r] \in {"price", "unpriced", "broker", "serving"} \/ "service" \in seeds',
         service = "identity" /\ to \in {"broker", "serving"} => boot[r] \in {"broker", "serving"} \/ "owner" \in seeds'
  PROVE  NoDown => BootInv(r)'
<1>1. NoDown => BootInv(r)
  BY DEF StartupInv
<1>2. UNCHANGED applied
  BY DEF migratorVars
<1>3. QED
  BY <1>1, <1>2 DEF BootInv, Versions

LEMMA EnsureSeedCatalogInv ==
  ASSUME StartupInv, NEW r \in Runs, EnsureSeedCatalog(r), UNCHANGED migratorVars
  PROVE  StartupInv'
<1>1. CASE Count(r, "count_outlets", "outlet", "outlet", "count_services")
  <2>1. PICK to \in {"outlet", "count_services"} : Move(r, "count_outlets", to) /\ (to = "count_services" => "outlet" \in seeds)
    BY <1>1 DEF Count
  <2>2. UNCHANGED <<service, seeds>> /\ boot[r] = "count_outlets" /\ boot'[r] = to /\ to \in Stages
    BY <1>1, <2>1 DEF Count, Move, StartupInv, BootTypes, Stages
  <2>3. NoDown => service # "identity"
    BY <2>2 DEF StartupInv, BootInv
  <2>4. NoDown => BootInv(r)'
    BY <2>1, <2>2, <2>3, AfterMigration
  <2>5. QED
    BY <2>1, <2>2, <2>4, OnlyMoves
<1>2. CASE Count(r, "count_services", "service", "service", "broker")
  <2>1. PICK to \in {"service", "broker"} : Move(r, "count_services", to) /\ (to = "broker" => "service" \in seeds)
    BY <1>2 DEF Count
  <2>2. UNCHANGED <<service, seeds>> /\ boot[r] = "count_services" /\ boot'[r] = to /\ to \in Stages
    BY <1>2, <2>1 DEF Count, Move, StartupInv, BootTypes, Stages
  <2>3. NoDown => service # "identity"
    BY <2>2 DEF StartupInv, BootInv
  <2>4. NoDown => BootInv(r)'
    BY <2>1, <2>2, <2>3, AfterMigration
  <2>5. QED
    BY <2>1, <2>2, <2>4, OnlyMoves
<1>3. CASE InsertOnce(r, "outlet", "outlet", "count_services")
  <2>1. PICK to \in {"exited", "count_services"} : Move(r, "outlet", to)
    BY <1>3 DEF InsertOnce
  <2>2. /\ UNCHANGED service /\ seeds' = seeds \cup {"outlet"} /\ boot[r] = "outlet" /\ boot'[r] = to
        /\ boot' = [boot EXCEPT ![r] = to] /\ to \in Stages
        /\ \A q \in Runs \ {r} : boot'[q] = boot[q]
    BY <1>3, <2>1 DEF InsertOnce, Move, StartupInv, BootTypes, Stages
  <2>3. NoDown => service # "identity"
    BY <2>2 DEF StartupInv, BootInv
  <2>4. NoDown => BootInv(r)'
    BY <2>2, <2>3, AfterMigration
  <2>5. NoDown => HasRole' /\ HasPrice'
    BY <2>2 DEF StartupInv, HasRole, HasPrice
  <2>6. QED
    BY <2>2, <2>4, <2>5, BootGoesOn
<1>4. CASE InsertOnce(r, "service", "service", "price")
  <2>1. PICK to \in {"exited", "price"} : Move(r, "service", to) /\ (to = "exited" => "service" \in seeds)
    BY <1>4 DEF InsertOnce
  <2>2. /\ UNCHANGED service /\ seeds' = seeds \cup {"service"} /\ boot[r] = "service" /\ boot'[r] = to
        /\ boot' = [boot EXCEPT ![r] = to] /\ to \in Stages
        /\ \A q \in Runs \ {r} : boot'[q] = boot[q]
    BY <1>4, <2>1 DEF InsertOnce, Move, StartupInv, BootTypes, Stages
  <2>3. NoDown => service # "identity"
    BY <2>2 DEF StartupInv, BootInv
  <2>4. NoDown => BootInv(r)'
    BY <2>2, <2>3, AfterMigration
  <2>5. NoDown => HasRole' /\ HasPrice'
    BY <2>1, <2>2 DEF StartupInv, HasRole, HasPrice
  <2>6. QED
    BY <2>2, <2>4, <2>5, BootGoesOn
<1>5. CASE InsertOnce(r, "price", "price", "broker")
  <2>1. PICK to \in {"exited", "broker"} : Move(r, "price", to)
    BY <1>5 DEF InsertOnce
  <2>2. /\ UNCHANGED service /\ seeds' = seeds \cup {"price"} /\ boot[r] = "price" /\ boot'[r] = to
        /\ boot' = [boot EXCEPT ![r] = to] /\ to \in Stages
    BY <1>5, <2>1 DEF InsertOnce, Move, StartupInv, BootTypes, Stages
  <2>3. NoDown => service # "identity"
    BY <2>2 DEF StartupInv, BootInv
  <2>4. NoDown => BootInv(r)'
    BY <2>2, <2>3, AfterMigration
  <2>5. NoDown => HasRole' /\ HasPrice'
    BY <2>2 DEF StartupInv, HasRole, HasPrice
  <2>6. QED
    BY <2>2, <2>4, <2>5, BootGoesOn
<1>6. QED
  BY <1>1, <1>2, <1>3, <1>4, <1>5 DEF EnsureSeedCatalog

\* The role is found: the migration that seeds it is in effect.
LEMMA SeedsInEffect ==
  ASSUME MigratorInv, ~mixed, Versions \subseteq applied, NEW v \in Seeds
  PROVE  effect[v] > 0
<1>1. PICK n \in 0..Latest : SchemaIs(n)
  BY DEF MigratorInv
<1>2. v \in Versions /\ v \in 1..n
  BY <1>1, MigratorAssumption DEF SchemaIs, Prefix, Versions
<1>3. v <= n
  BY <1>1, <1>2
<1>4. QED
  BY <1>1, <1>2, <1>3 DEF SchemaIs, Prefix

LEMMA EnsureDefaultOwnerInv ==
  ASSUME MigratorInv, StartupInv, NEW r \in Runs, EnsureDefaultOwner(r), UNCHANGED migratorVars
  PROVE  StartupInv'
<1>1. CASE Count(r, "count_users", "owner", "owner", "broker")
  <2>1. PICK to \in {"owner", "broker"} : Move(r, "count_users", to) /\ (to = "broker" => "owner" \in seeds)
    BY <1>1 DEF Count
  <2>2. UNCHANGED <<service, seeds>> /\ boot[r] = "count_users" /\ boot'[r] = to /\ to \in Stages
    BY <1>1, <2>1 DEF Count, Move, StartupInv, BootTypes, Stages
  <2>3. NoDown => service # "core"
    BY <2>2 DEF StartupInv, BootInv
  <2>4. NoDown => BootInv(r)'
    BY <2>1, <2>2, <2>3, AfterMigration
  <2>5. QED
    BY <2>1, <2>2, <2>4, OnlyMoves
<1>2. CASE InsertOwner(r)
  <2>1. PICK to \in {"exited", "broker"} : Move(r, "owner", to)
    BY <1>2 DEF InsertOwner
  <2>2. /\ UNCHANGED service /\ boot[r] = "owner" /\ boot'[r] = to
        /\ boot' = [boot EXCEPT ![r] = to] /\ to \in Stages
    BY <1>2, <2>1 DEF InsertOwner, Move, StartupInv, BootTypes, Stages
  <2>3. seeds' = IF "owner" \in seeds THEN seeds
                 ELSE seeds \cup {"owner"} \cup {x \in {"role"} : \A v \in Seeds : effect[v] > 0}
    BY <1>2 DEF InsertOwner
  <2>4. seeds \subseteq seeds' /\ "owner" \in seeds'
    BY <2>3
  <2>5. ASSUME NoDown
        PROVE  service # "core" /\ HasRole'
    <3>1. Versions \subseteq applied /\ service # "core" /\ ~mixed
      BY <2>2, <2>5 DEF StartupInv, BootInv, KindsInv
    <3>2. \A v \in Seeds : effect[v] > 0
      BY <3>1, SeedsInEffect
    <3>3. HasRole
      BY <2>5 DEF StartupInv
    <3>4. CASE "owner" \in seeds
      BY <2>2, <2>3, <3>1, <3>3, <3>4 DEF HasRole
    <3>5. CASE "owner" \notin seeds
      <4>1. "role" \in {x \in {"role"} : \A v \in Seeds : effect[v] > 0}
        BY <3>2
      <4>2. "role" \in seeds'
        BY <2>3, <3>5, <4>1
      <4>3. QED
        BY <3>1, <4>2 DEF HasRole
    <3>6. QED
      BY <3>4, <3>5
  <2>6. NoDown => BootInv(r)'
    BY <2>2, <2>4, <2>5, AfterMigration
  <2>7. NoDown => HasPrice'
    BY <2>2, <2>5 DEF HasPrice
  <2>8. QED
    BY <2>2, <2>4, <2>5, <2>6, <2>7, BootGoesOn
<1>3. QED
  BY <1>1, <1>2 DEF EnsureDefaultOwner

LEMMA ServeInv ==
  ASSUME StartupInv, NEW r \in Runs, Serve(r), UNCHANGED migratorVars
  PROVE  StartupInv'
<1>1. /\ UNCHANGED <<service, seeds>> /\ Move(r, "broker", "serving")
      /\ boot[r] = "broker" /\ boot'[r] = "serving" /\ "serving" \in Stages
  BY DEF Serve, Move, StartupInv, BootTypes, Stages
<1>2. NoDown => BootInv(r)'
  BY <1>1, AfterMigration
<1>3. QED
  BY <1>1, <1>2, OnlyMoves

LEMMA ExitInv ==
  ASSUME StartupInv, NEW r \in Runs, Exit(r), UNCHANGED migratorVars
  PROVE  StartupInv'
<1>1. /\ UNCHANGED <<service, seeds>> /\ boot[r] \notin {"unpriced", "migrate"} /\ boot[r] \in Stages
      /\ boot \in [Runs -> Stages]
  BY DEF Exit, Halted, StartupInv, BootTypes
<1>2. PICK to \in {"unpriced", "exited"} :
        boot' = [boot EXCEPT ![r] = to] /\ (boot[r] = "price" <=> to = "unpriced")
  BY DEF Exit
<1>3. to \in Stages /\ boot'[r] = to /\ Move(r, boot[r], to)
  BY <1>1, <1>2 DEF Move, Stages
<1>4. to = "unpriced" /\ NoDown => service # "identity"
  BY <1>2 DEF StartupInv, BootInv
<1>5. NoDown => BootInv(r)'
  BY <1>1, <1>2, <1>3, <1>4, AfterMigration
<1>6. QED
  BY <1>1, <1>2, <1>3, <1>5, OnlyMoves

LEMMA StartupNextInv ==
  ASSUME MigratorInv, StartupInv, StartupNext
  PROVE  MigratorInv' /\ StartupInv'
<1>1. CASE SchemaNext
  BY <1>1, SchemaNextInv, MigratorNextInv DEF SchemaNext
<1>2. CASE BootNext /\ UNCHANGED migratorVars
  <2>1. MigratorInv'
    BY <1>2 DEF MigratorInv, migratorVars, RunTypes, SchemaIs, Prefix, UpInv, DownInv, Peers, Migrating
  <2>2. StartupInv'
    BY <1>2, MigratedInv, EnsureSeedCatalogInv, EnsureDefaultOwnerInv, ServeInv, ExitInv DEF BootNext
  <2>3. QED
    BY <2>1, <2>2
<1>3. QED
  BY <1>1, <1>2 DEF StartupNext

LEMMA ImpliesServesBootstrapped == StartupInv => ServesBootstrapped
<1> SUFFICES ASSUME StartupInv, NEW r \in Runs, boot[r] = "serving", NoDown
             PROVE  /\ Bootstrapped
                    /\ service = "core" =>
                         "price" \in seeds \/ \E q \in Runs : boot[q] \in {"price", "unpriced"}
  BY DEF ServesBootstrapped, NoDown
<1>1. BootInv(r) /\ HasRole /\ HasPrice
  BY DEF StartupInv
<1>2. QED
  BY <1>1 DEF BootInv, HasRole, HasPrice, Bootstrapped

-----------------------------------------------------------------------------
(***************************************************************************)
(* The updates of a staff user.  What an update has found of a table is    *)
(* what is there, until another that was committed meanwhile overtakes it; *)
(* one update at a time holds the row of the account.                      *)
(***************************************************************************)

Members == [roles : SUBSET Roles, outlets : SUBSET Outlets]
Todos == {<<>>, <<"roles">>, <<"outlets">>, <<"roles", "outlets">>}
UpdateRecords ==
  [stage : {"idle", "account", "find", "delete", "insert", "done"}, active : BOOLEAN, content : Contents,
   todo : Todos, deleted : [Tables -> SUBSET (Roles \cup Outlets)]]

StaffTypes ==
  /\ members \in Members
  /\ update \in [Updates -> UpdateRecords]
  /\ overtaken \in [Tables -> SUBSET (Updates \X Updates)]
  /\ lastSet \in [Tables -> Updates \cup {Untouched}]

\* What u has found of a table is what is there, until it is overtaken.
Current(u, t) ==
  Found(u, t) /\ (\A v \in Updates : <<u, v>> \notin overtaken[t]) => update[u].deleted[t] = members[t]

UpdateInv(u) ==
  /\ update[u].stage = "account" => \A t \in Tables : Names(u, t) => t \in Range(update[u].todo)
  /\ Updating(u) => \A t \in Tables : Current(u, t)

\* One update at a time has the account's row.
OneHolds == \A u, v \in Updates : u # v /\ Updating(u) /\ Updating(v) => ~(HoldsAccount(u) /\ HoldsAccount(v))

Apart == \A t \in Tables : \A u, v \in Updates : <<u, v>> \in overtaken[t] =>
  /\ update[u].stage # "idle" /\ update[v].stage # "idle"
  /\ ~(update[u].active /\ update[v].active)

LastSetInv == \A t \in Tables : \A u \in Updates : lastSet[t] = u => update[u].stage # "idle"

StaffInv ==
  /\ StaffTypes
  /\ \A u \in Updates : UpdateInv(u)
  /\ OneHolds /\ Apart /\ LastSetInv
  /\ MembersAreOfOneUpdate

LEMMA TwoTables ==
  ASSUME NEW S, NEW a \in S, NEW b \in S
  PROVE  <<a>> \o <<b>> = <<a, b>>
<1> DEFINE s == <<a>> \o <<b>>
           t == <<a, b>>
<1>1. s \in Seq(S) /\ t \in Seq(S)
  OBVIOUS
<1>2. Len(s) = 2 /\ Len(t) = 2
  BY <1>1
<1>3. s[1] = a /\ s[2] = b /\ t[1] = a /\ t[2] = b
  BY <1>1
<1> HIDE DEF s, t
<1>4. \A i \in 1..Len(s) : s[i] = t[i]
  BY <1>2, <1>3
<1>5. s = t
  BY <1>1, <1>2, <1>4, SeqEqual
<1>6. QED
  BY <1>5 DEF s, t

\* The tables that an update names, in the order in which it comes to them.
LEMMA TodoOf ==
  ASSUME NEW c
  PROVE  /\ Named(c, "roles") \o Named(c, "outlets") \in Todos
         /\ \A t \in Tables : c[t] # Untouched => t \in Range(Named(c, "roles") \o Named(c, "outlets"))
<1> DEFINE td == Named(c, "roles") \o Named(c, "outlets")
<1>1. CASE c["roles"] = Untouched /\ c["outlets"] = Untouched
  BY <1>1 DEF Todos, Tables, Named
<1>2. CASE c["roles"] = Untouched /\ c["outlets"] # Untouched
  <2>1. td = <<"outlets">>
    BY <1>2 DEF Named
  <2>2. Range(<<"outlets">>) = {"outlets"}
    BY DEF Range
  <2>3. QED
    BY <1>2, <2>1, <2>2 DEF Todos, Tables
<1>3. CASE c["roles"] # Untouched /\ c["outlets"] = Untouched
  <2>1. td = <<"roles">>
    BY <1>3 DEF Named
  <2>2. Range(<<"roles">>) = {"roles"}
    BY DEF Range
  <2>3. QED
    BY <1>3, <2>1, <2>2 DEF Todos, Tables
<1>4. CASE c["roles"] # Untouched /\ c["outlets"] # Untouched
  <2>1. td = <<"roles", "outlets">>
    <3>1. Named(c, "roles") = <<"roles">> /\ Named(c, "outlets") = <<"outlets">>
      BY <1>4 DEF Named
    <3>2. <<"roles">> \o <<"outlets">> = <<"roles", "outlets">>
      <4>1. "roles" \in Tables /\ "outlets" \in Tables
        BY DEF Tables
      <4>2. QED
        BY <4>1, TwoTables
    <3>3. QED
      BY <3>1, <3>2
  <2>2. Range(<<"roles", "outlets">>) = {"roles", "outlets"}
    BY DEF Range
  <2>3. QED
    BY <2>1, <2>2 DEF Todos, Tables
<1>5. QED
  BY <1>1, <1>2, <1>3, <1>4

LEMMA TodoFacts ==
  ASSUME NEW td \in Todos, td # <<>>
  PROVE  /\ Head(td) \in Range(td) /\ Tail(td) \in Todos
         /\ Range(td) = {Head(td)} \cup Range(Tail(td))
<1>1. CASE td = <<"roles">>
  <2>1. Head(td) = "roles" /\ Tail(td) = <<>> /\ Range(td) = {"roles"}
    BY <1>1 DEF Range
  <2>2. Range(<<>>) = {}
    BY DEF Range
  <2>3. QED
    BY <2>1, <2>2 DEF Todos
<1>2. CASE td = <<"outlets">>
  <2>1. Head(td) = "outlets" /\ Tail(td) = <<>> /\ Range(td) = {"outlets"}
    BY <1>2 DEF Range
  <2>2. Range(<<>>) = {}
    BY DEF Range
  <2>3. QED
    BY <2>1, <2>2 DEF Todos
<1>3. CASE td = <<"roles", "outlets">>
  <2>1. Head(td) = "roles" /\ Tail(td) = <<"outlets">> /\ Range(td) = {"roles", "outlets"}
    BY <1>3 DEF Range
  <2>2. Range(<<"outlets">>) = {"outlets"}
    BY DEF Range
  <2>3. QED
    BY <2>1, <2>2 DEF Todos
<1>4. QED
  BY <1>1, <1>2, <1>3 DEF Todos

LEMMA NotAskedType == NotAsked \in UpdateRecords
<1>1. None \in Contents
  BY DEF None, Contents
<1>2. None \in [Tables -> SUBSET (Roles \cup Outlets)]
  BY DEF None, Tables
<1>3. QED
  BY <1>1, <1>2 DEF NotAsked, UpdateRecords, Todos

LEMMA StaffInitInv == StaffInit => StaffInv
<1> SUFFICES ASSUME StaffInit
             PROVE  StaffInv
  OBVIOUS
<1>1. StaffTypes
  BY NotAskedType DEF StaffInit, StaffTypes, Members
<1>2. \A u \in Updates : update[u].stage = "idle"
  BY DEF StaffInit, NotAsked
<1>3. \A t \in Tables : overtaken[t] = {} /\ \A u \in Updates : lastSet[t] # u
  BY StaffAssumption DEF StaffInit
<1>4. QED
  BY <1>1, <1>2, <1>3 DEF StaffInv, UpdateInv, Updating, OneHolds, Apart, LastSetInv, MembersAreOfOneUpdate

\* A step of one update that commits nothing.
LEMMA UpdateGoesOn ==
  ASSUME StaffInv, NEW u \in Updates, NEW to \in UpdateRecords,
         update' = [update EXCEPT ![u] = to], UNCHANGED <<members, overtaken, lastSet>>,
         to.stage # "idle",
         update[u].stage # "idle" => to.active = update[u].active /\ to.content = update[u].content,
         UpdateInv(u)',
         Updating(u)' /\ HoldsAccount(u)' => (HoldsAccount(u) /\ Updating(u)) \/ \A v \in Others(u) : ~HoldsAccount(v)
  PROVE  StaffInv'
<1>1. /\ update'[u] = to /\ \A v \in Updates \ {u} : update'[v] = update[v]
      /\ update' \in [Updates -> UpdateRecords]
  BY DEF StaffInv, StaffTypes
<1>2. StaffTypes'
  BY <1>1 DEF StaffInv, StaffTypes
<1>3. ASSUME NEW v \in Updates
      PROVE  UpdateInv(v)'
  <2>1. CASE v = u
    BY <2>1
  <2>2. CASE v # u
    BY <1>1, <2>2 DEF StaffInv, UpdateInv, Updating, Current, Found, Finished, At, Names
  <2>3. QED
    BY <2>1, <2>2
<1>4. OneHolds'
  <2>1. SUFFICES ASSUME NEW v \in Updates \ {u}, Updating(v)', HoldsAccount(v)', Updating(u)', HoldsAccount(u)'
                 PROVE  FALSE
    <3>1. ASSUME NEW v \in Updates \ {u}, NEW w \in Updates \ {u}, v # w, Updating(v)', Updating(w)'
          PROVE  ~(HoldsAccount(v) /\ HoldsAccount(w))'
      BY <1>1, <3>1 DEF StaffInv, OneHolds, Updating, HoldsAccount
    <3>2. QED
      BY <3>1 DEF OneHolds
  <2>2. Updating(v) /\ HoldsAccount(v)
    BY <1>1, <2>1 DEF Updating, HoldsAccount
  <2>3. QED
    BY <2>1, <2>2 DEF StaffInv, OneHolds, Others
<1>5. Apart'
  <2>1. SUFFICES ASSUME NEW t \in Tables, NEW v \in Updates, NEW w \in Updates, <<v, w>> \in overtaken[t]
                 PROVE  /\ update'[v].stage # "idle" /\ update'[w].stage # "idle"
                        /\ ~(update'[v].active /\ update'[w].active)
    BY DEF Apart
  <2>2. /\ update[v].stage # "idle" /\ update[w].stage # "idle"
        /\ ~(update[v].active /\ update[w].active)
    BY <2>1 DEF StaffInv, Apart
  <2>3. QED
    BY <1>1, <2>2
<1>6. LastSetInv'
  BY <1>1 DEF StaffInv, LastSetInv
<1>7. MembersAreOfOneUpdate'
  <2>1. SUFFICES ASSUME NEW t \in Tables, NEW w \in Updates, lastSet[t] = w,
                        \A v \in Updates : <<w, v>> \in overtaken[t] => update'[w].active /\ update'[v].active
                 PROVE  members[t] = update'[w].content[t]
    BY DEF MembersAreOfOneUpdate
  <2>2. update[w].stage # "idle"
    BY <2>1 DEF StaffInv, LastSetInv
  <2>3. update'[w].content = update[w].content
    BY <1>1, <2>2
  <2>4. \A v \in Updates : <<w, v>> \notin overtaken[t]
    BY <1>5, <2>1 DEF Apart
  <2>5. members[t] = update[w].content[t]
    BY <2>1, <2>4 DEF StaffInv, MembersAreOfOneUpdate
  <2>6. QED
    BY <2>3, <2>5
<1>8. QED
  BY <1>2, <1>3, <1>4, <1>5, <1>6, <1>7 DEF StaffInv

LEMMA UpdateType ==
  ASSUME StaffInv, NEW u \in Updates, Updating(u)
  PROVE  update[u] \in UpdateRecords
  BY DEF StaffInv, StaffTypes

\* An update at another stage.
LEMMA AtStageOf ==
  ASSUME NEW x \in UpdateRecords, NEW s \in {"find", "delete", "insert", "done"}
  PROVE  /\ [x EXCEPT !.stage = s] \in UpdateRecords
         /\ [x EXCEPT !.stage = s].stage = s
         /\ [x EXCEPT !.stage = s].active = x.active
         /\ [x EXCEPT !.stage = s].content = x.content
         /\ [x EXCEPT !.stage = s].todo = x.todo
         /\ [x EXCEPT !.stage = s].deleted = x.deleted
  BY DEF UpdateRecords

LEMMA BeginUpdateInv ==
  ASSUME StaffInv, NEW u \in Updates, NEW active \in BOOLEAN, NEW content \in Asked,
         BeginUpdate(u, active, content)
  PROVE  StaffInv'
<1> DEFINE td == Named(content, "roles") \o Named(content, "outlets")
           to == [stage |-> IF active THEN "account" ELSE "find", active |-> active, content |-> content,
                  todo |-> td, deleted |-> None]
<1>1. td \in Todos /\ \A t \in Tables : content[t] # Untouched => t \in Range(td)
  BY TodoOf
<1>2. update[u].stage = "idle" /\ update' = [update EXCEPT ![u] = to] /\ UNCHANGED <<members, overtaken, lastSet>>
  BY DEF BeginUpdate
<1> HIDE DEF td
<1>3. /\ to.stage \in {"account", "find"} /\ (to.stage = "account" <=> active) /\ to.active = active
      /\ to.content = content /\ to.todo = td
  OBVIOUS
<1>4. to \in UpdateRecords
  <2>1. None \in [Tables -> SUBSET (Roles \cup Outlets)]
    BY DEF None, Tables
  <2>2. content \in Contents
    BY StaffAssumption
  <2>3. QED
    BY <1>1, <2>1, <2>2 DEF UpdateRecords
<1> HIDE DEF to
<1>5. update'[u] = to
  BY <1>2 DEF StaffInv, StaffTypes
<1>6. \A t \in Tables : ~Found(u, t)'
  BY <1>1, <1>3, <1>5 DEF Found, Finished, At, Names
<1>7. UpdateInv(u)'
  BY <1>1, <1>3, <1>5, <1>6 DEF UpdateInv, Current, Names
<1>8. ~HoldsAccount(u)'
  BY <1>3, <1>5, Zenon DEF HoldsAccount
<1>9. QED
  BY <1>2, <1>3, <1>4, <1>7, <1>8, UpdateGoesOn

LEMMA SetActiveInv ==
  ASSUME StaffInv, NEW u \in Updates, SetActive(u)
  PROVE  StaffInv'
<1> DEFINE to == [update[u] EXCEPT !.stage = "find"]
<1>1. Updating(u) /\ update[u].stage = "account"
  BY DEF SetActive, Updating
<1>2. /\ to \in UpdateRecords /\ to.stage = "find" /\ to.active = update[u].active
      /\ to.content = update[u].content /\ to.todo = update[u].todo
  BY <1>1, UpdateType, AtStageOf
<1>3. update' = [update EXCEPT ![u] = to] /\ UNCHANGED <<members, overtaken, lastSet>>
  BY DEF SetActive
<1> HIDE DEF to
<1>4. update'[u] = to
  BY <1>3 DEF StaffInv, StaffTypes
<1>5. \A t \in Tables : ~Found(u, t)'
  BY <1>1, <1>2, <1>4 DEF StaffInv, UpdateInv, Found, Finished, At, Names
<1>6. UpdateInv(u)'
  BY <1>2, <1>4, <1>5 DEF UpdateInv, Current
<1>7. \A v \in Others(u) : ~HoldsAccount(v)
  BY DEF SetActive
<1>8. QED
  BY <1>2, <1>3, <1>6, <1>7, UpdateGoesOn

LEMMA FindRowsInv ==
  ASSUME StaffInv, NEW u \in Updates, NEW t \in Tables, FindRows(u, t)
  PROVE  StaffInv'
<1> DEFINE to == [update[u] EXCEPT !.stage = "delete", !.deleted[t] = members[t]]
<1>1. Updating(u) /\ update[u] \in UpdateRecords /\ update[u].stage = "find"
  BY UpdateType DEF FindRows, At, Updating
<1>2. members[t] \in SUBSET (Roles \cup Outlets)
  BY DEF StaffInv, StaffTypes, Members, Tables
<1>3. /\ to \in UpdateRecords /\ to.stage = "delete" /\ to.active = update[u].active
      /\ to.content = update[u].content /\ to.todo = update[u].todo
      /\ to.deleted[t] = members[t] /\ \A x \in Tables \ {t} : to.deleted[x] = update[u].deleted[x]
  BY <1>1, <1>2 DEF UpdateRecords
<1>4. update' = [update EXCEPT ![u] = to] /\ UNCHANGED <<members, overtaken, lastSet>>
  BY <1>1 DEF FindRows
<1> HIDE DEF to
<1>5. update'[u] = to
  BY <1>4 DEF StaffInv, StaffTypes
<1>6. Head(update[u].todo) = t
  BY DEF FindRows, At
<1>7. \A x \in Tables : Current(u, x)'
  BY <1>1, <1>3, <1>4, <1>5, <1>6 DEF StaffInv, UpdateInv, Current, Found, Finished, At, Names
<1>8. UpdateInv(u)'
  BY <1>3, <1>5, <1>7 DEF UpdateInv
<1>9. HoldsAccount(u)' => HoldsAccount(u)
  BY <1>1, <1>3, <1>5 DEF HoldsAccount
<1>10. QED
  BY <1>1, <1>3, <1>4, <1>8, <1>9, UpdateGoesOn

LEMMA DeleteRowsInv ==
  ASSUME StaffInv, NEW u \in Updates, NEW t \in Tables, DeleteRows(u, t)
  PROVE  StaffInv'
<1> DEFINE to == [update[u] EXCEPT !.stage = "insert"]
<1>1. Updating(u) /\ update[u].stage = "delete" /\ Head(update[u].todo) = t
  BY DEF DeleteRows, At, Updating
<1>2. /\ to \in UpdateRecords /\ to.stage = "insert" /\ to.active = update[u].active
      /\ to.content = update[u].content /\ to.todo = update[u].todo /\ to.deleted = update[u].deleted
  BY <1>1, UpdateType, AtStageOf
<1>3. update' = [update EXCEPT ![u] = to] /\ UNCHANGED <<members, overtaken, lastSet>>
  BY DEF DeleteRows
<1> HIDE DEF to
<1>4. update'[u] = to
  BY <1>3 DEF StaffInv, StaffTypes
<1>5. \A x \in Tables : Found(u, x)' => Found(u, x)
  BY <1>1, <1>2, <1>4 DEF Found, Finished, At, Names
<1>6. \A x \in Tables : Current(u, x)'
  BY <1>1, <1>2, <1>3, <1>4, <1>5 DEF StaffInv, UpdateInv, Current
<1>7. UpdateInv(u)'
  BY <1>2, <1>4, <1>6 DEF UpdateInv
<1>8. HoldsAccount(u)' => HoldsAccount(u)
  BY <1>1, <1>2, <1>4 DEF HoldsAccount
<1>9. QED
  BY <1>1, <1>2, <1>3, <1>7, <1>8, UpdateGoesOn

\* An update ends, and has committed nothing.
LEMMA EndsInv ==
  ASSUME StaffInv, NEW u \in Updates, Updating(u),
         update' = [update EXCEPT ![u].stage = "done"], UNCHANGED <<members, overtaken, lastSet>>
  PROVE  StaffInv'
<1> DEFINE to == [update[u] EXCEPT !.stage = "done"]
<1>1. /\ to \in UpdateRecords /\ to.stage = "done" /\ to.active = update[u].active
      /\ to.content = update[u].content
  BY UpdateType, AtStageOf
<1>2. update' = [update EXCEPT ![u] = to]
  OBVIOUS
<1> HIDE DEF to
<1>3. update'[u] = to
  BY <1>2 DEF StaffInv, StaffTypes
<1>4. UpdateInv(u)' /\ ~Updating(u)'
  BY <1>1, <1>3 DEF UpdateInv, Updating
<1>5. to.stage # "idle"
  BY <1>1
<1>6. QED
  BY <1>1, <1>2, <1>4, <1>5, UpdateGoesOn

LEMMA InsertRowsInv ==
  ASSUME StaffInv, NEW u \in Updates, NEW t \in Tables, InsertRows(u, t)
  PROVE  StaffInv'
<1>1. /\ Updating(u) /\ update[u] \in UpdateRecords /\ update[u].stage = "insert"
      /\ update[u].todo # <<>> /\ Head(update[u].todo) = t
  BY UpdateType DEF InsertRows, At, Updating
<1> DEFINE to == [update[u] EXCEPT !.stage = "find", !.todo = Tail(@)]
<1>2. update[u].todo \in Todos
  BY <1>1 DEF UpdateRecords
<1>3. Tail(update[u].todo) \in Todos /\ Range(update[u].todo) = {t} \cup Range(Tail(update[u].todo))
  BY <1>1, <1>2, TodoFacts
<1>4. /\ to \in UpdateRecords /\ to.stage = "find" /\ to.active = update[u].active
      /\ to.content = update[u].content /\ to.todo = Tail(update[u].todo) /\ to.deleted = update[u].deleted
  BY <1>1, <1>3 DEF UpdateRecords
<1>5. UNCHANGED <<members, overtaken, lastSet>>
  BY DEF InsertRows
<1>6. CASE update' = [update EXCEPT ![u].stage = "done"]
  BY <1>1, <1>5, <1>6, EndsInv
<1>7. CASE update' = [update EXCEPT ![u].stage = "find", ![u].todo = Tail(@)]
  <2>1. update' = [update EXCEPT ![u] = to]
    BY <1>1, <1>7 DEF StaffInv, StaffTypes
  <2> HIDE DEF to
  <2>2. update'[u] = to
    BY <2>1 DEF StaffInv, StaffTypes
  <2>3. \A x \in Tables : Found(u, x)' => Found(u, x)
    BY <1>1, <1>3, <1>4, <2>2 DEF Found, Finished, At, Names
  <2>4. \A x \in Tables : Current(u, x)'
    BY <1>1, <1>4, <1>5, <2>2, <2>3 DEF StaffInv, UpdateInv, Current
  <2>5. UpdateInv(u)'
    BY <1>4, <2>2, <2>4 DEF UpdateInv
  <2>6. HoldsAccount(u)' => HoldsAccount(u)
    BY <1>1, <1>4, <2>2 DEF HoldsAccount
  <2>7. QED
    BY <1>1, <1>4, <1>5, <2>1, <2>5, <2>6, UpdateGoesOn
<1>8. QED
  BY <1>6, <1>7 DEF InsertRows

\* Whom the commit of u leaves as he was, but for rows that he has found.
LEMMA CommitUpdateFacts ==
  ASSUME StaffInv, NEW u \in Updates, CommitUpdate(u)
  PROVE  /\ Updating(u) /\ ~Updating(u)'
         /\ \A v \in Updates :
              /\ update'[v].active = update[v].active /\ update'[v].content = update[v].content
              /\ update[v].stage # "idle" => update'[v].stage # "idle"
         /\ \A v \in Updates \ {u} : update'[v].stage = update[v].stage /\ update'[v].todo = update[v].todo
         /\ \A v \in Updates \ {u}, t \in Tables :
              Updating(v) /\ ~Names(u, t) => update'[v].deleted[t] = update[v].deleted[t]
         /\ update' \in [Updates -> UpdateRecords]
<1>1. Updating(u) /\ update[u] \in UpdateRecords
  BY UpdateType DEF CommitUpdate, Updating
<1> DEFINE to == [update[u] EXCEPT !.stage = "done"]
<1>2. /\ to \in UpdateRecords /\ to.stage = "done" /\ to.active = update[u].active
      /\ to.content = update[u].content
  BY <1>1, AtStageOf
<1>3. update'[u] = to /\ (\A v \in Updates \ {u} : update'[v] = WithoutRows(v, u)) /\ update' = [v \in Updates |-> update'[v]]
  BY DEF CommitUpdate
<1> HIDE DEF to
<1>4. ASSUME NEW v \in Updates \ {u}
      PROVE  /\ WithoutRows(v, u).stage = update[v].stage /\ WithoutRows(v, u).todo = update[v].todo
             /\ WithoutRows(v, u).active = update[v].active /\ WithoutRows(v, u).content = update[v].content
             /\ \A t \in Tables : Updating(v) /\ ~Names(u, t) => WithoutRows(v, u).deleted[t] = update[v].deleted[t]
             /\ WithoutRows(v, u) \in UpdateRecords
  <2> DEFINE deleted == [t \in Tables |-> IF At(v, "delete", t) /\ Names(u, t)
                          THEN update[v].deleted[t] \ update[u].deleted[t] ELSE update[v].deleted[t]]
  <2>1. update[v] \in UpdateRecords
    BY DEF StaffInv, StaffTypes
  <2>2. deleted \in [Tables -> SUBSET (Roles \cup Outlets)]
    BY <2>1 DEF UpdateRecords
  <2>3. WithoutRows(v, u) = [update[v] EXCEPT !.deleted = deleted]
    BY <2>1 DEF WithoutRows, UpdateRecords
  <2>4. \A t \in Tables : ~Names(u, t) => deleted[t] = update[v].deleted[t]
    OBVIOUS
  <2> HIDE DEF deleted
  <2>5. QED
    BY <2>1, <2>2, <2>3, <2>4 DEF UpdateRecords
<1>5. QED
  BY <1>1, <1>2, <1>3, <1>4 DEF Updating

LEMMA CommitUpdateInv ==
  ASSUME StaffInv, NEW u \in Updates, CommitUpdate(u)
  PROVE  StaffInv'
<1>1. /\ update[u].stage = "find" /\ update[u].todo = <<>>
      /\ Updating(u) /\ ~Updating(u)' /\ update[u] \in UpdateRecords
  BY CommitUpdateFacts, UpdateType DEF CommitUpdate
<1>2. \A t \in Tables : Names(u, t) => Finished(u, t)
  BY <1>1 DEF Finished, Range
<1>3. \A t \in Tables :
        /\ Names(u, t) => /\ members'[t] = (members[t] \ update[u].deleted[t]) \cup update[u].content[t]
                          /\ lastSet'[t] = u
                          /\ overtaken'[t] = overtaken[t] \cup {<<v, u>> : v \in {v \in Others(u) : Found(v, t)}}
        /\ ~Names(u, t) => /\ members'[t] = members[t] /\ lastSet'[t] = lastSet[t]
                           /\ overtaken'[t] = overtaken[t]
  BY DEF CommitUpdate
<1>4. StaffTypes'
  <2>1. members' \in Members
    <3>1. members' = [t \in Tables |-> members'[t]]
      BY DEF CommitUpdate
    <3>2. members'["roles"] \in SUBSET Roles /\ members'["outlets"] \in SUBSET Outlets
      <4>1. "roles" \in Tables /\ "outlets" \in Tables /\ members.roles \in SUBSET Roles /\ members.outlets \in SUBSET Outlets
        BY DEF Tables, StaffInv, StaffTypes, Members
      <4>2. /\ update[u].content.roles \in (SUBSET Roles) \cup {Untouched}
            /\ update[u].content.outlets \in (SUBSET Outlets) \cup {Untouched}
        BY <1>1 DEF UpdateRecords, Contents
      <4>3. ASSUME NEW t \in Tables, NEW S, members[t] \subseteq S,
                   update[u].content[t] # Untouched => update[u].content[t] \subseteq S
            PROVE  members'[t] \subseteq S
        BY <1>3, <4>3 DEF Names
      <4>4. members'["roles"] \subseteq Roles
        <5>1. members["roles"] \subseteq Roles
          BY <4>1
        <5>2. update[u].content["roles"] # Untouched => update[u].content["roles"] \subseteq Roles
          BY <4>2
        <5>3. QED
          BY <4>1, <4>3, <5>1, <5>2
      <4>5. members'["outlets"] \subseteq Outlets
        <5>1. members["outlets"] \subseteq Outlets
          BY <4>1
        <5>2. update[u].content["outlets"] # Untouched => update[u].content["outlets"] \subseteq Outlets
          BY <4>2
        <5>3. QED
          BY <4>1, <4>3, <5>1, <5>2
      <4>6. QED
        BY <4>4, <4>5
    <3>3. QED
      BY <3>1, <3>2 DEF Tables, Members
  <2>2. overtaken' \in [Tables -> SUBSET (Updates \X Updates)]
    <3>1. overtaken' = [t \in Tables |-> overtaken'[t]]
      BY DEF CommitUpdate
    <3>2. ASSUME NEW t \in Tables
          PROVE  overtaken'[t] \in SUBSET (Updates \X Updates)
      <4>1. overtaken[t] \in SUBSET (Updates \X Updates)
        BY DEF StaffInv, StaffTypes
      <4>2. \A v \in Others(u) : <<v, u>> \in Updates \X Updates
        BY DEF Others
      <4>3. QED
        BY <1>3, <4>1, <4>2
    <3>3. QED
      BY <3>1, <3>2
  <2>3. lastSet' \in [Tables -> Updates \cup {Untouched}]
    BY DEF CommitUpdate, StaffInv, StaffTypes
  <2>4. QED
    BY <2>1, <2>2, <2>3, CommitUpdateFacts DEF StaffTypes
<1>5. ASSUME NEW v \in Updates
      PROVE  UpdateInv(v)'
  <2>1. CASE v = u
    BY <1>1, <2>1 DEF UpdateInv, Updating
  <2>2. CASE v # u
    <3>1. update'[v].stage = update[v].stage /\ update'[v].todo = update[v].todo /\ update'[v].content = update[v].content
      BY <2>2, CommitUpdateFacts
    <3>2. \A t \in Tables : (Found(v, t)' <=> Found(v, t)) /\ (Names(v, t)' <=> Names(v, t))
      BY <3>1 DEF Found, Finished, At, Names
    <3>3. ASSUME NEW t \in Tables, Updating(v)
          PROVE  Current(v, t)'
      <4>1. CASE Names(u, t)
        <5>1. Found(v, t) => <<v, u>> \in overtaken'[t]
          BY <1>3, <2>2, <3>3, <4>1 DEF Others
        <5>2. QED
          BY <3>2, <5>1 DEF Current
      <4>2. CASE ~Names(u, t)
        <5>1. update'[v].deleted[t] = update[v].deleted[t]
          BY <2>2, <3>3, <4>2, CommitUpdateFacts
        <5>2. Current(v, t)
          BY <3>3 DEF StaffInv, UpdateInv
        <5>3. QED
          BY <1>3, <3>2, <4>2, <5>1, <5>2 DEF Current
      <4>3. QED
        BY <4>1, <4>2
    <3>4. QED
      BY <3>1, <3>2, <3>3 DEF StaffInv, UpdateInv, Updating
  <2>3. QED
    BY <2>1, <2>2
<1>6. OneHolds'
  <2>1. ASSUME NEW v \in Updates, Updating(v)', HoldsAccount(v)'
        PROVE  v # u /\ Updating(v) /\ HoldsAccount(v)
    BY <1>1, <2>1, CommitUpdateFacts DEF Updating, HoldsAccount
  <2>2. QED
    BY <2>1 DEF StaffInv, OneHolds
<1>7. Apart'
  <2>1. SUFFICES ASSUME NEW t \in Tables, NEW v \in Updates, NEW w \in Updates, <<v, w>> \in overtaken'[t]
                 PROVE  /\ update[v].stage # "idle" /\ update[w].stage # "idle"
                        /\ ~(update[v].active /\ update[w].active)
    BY CommitUpdateFacts DEF Apart
  <2>2. CASE <<v, w>> \in overtaken[t]
    BY <2>2 DEF StaffInv, Apart
  <2>3. CASE <<v, w>> \notin overtaken[t]
    <3>1. v \in Others(u) /\ Found(v, t) /\ w = u
      BY <1>3, <2>1, <2>3
    <3>2. Updating(v) /\ v # u
      BY <3>1 DEF Others
    <3>3. update[v].stage # "account"
      BY <3>1 DEF StaffInv, UpdateInv, Found, Finished, At
    <3>4. ~(HoldsAccount(v) /\ HoldsAccount(u))
      BY <1>1, <3>2 DEF StaffInv, OneHolds
    <3>5. ~(update[v].active /\ update[u].active)
      BY <1>1, <3>3, <3>4 DEF HoldsAccount
    <3>6. QED
      BY <1>1, <3>1, <3>2, <3>5 DEF Updating
  <2>4. QED
    BY <2>2, <2>3
<1>8. LastSetInv'
  <2>1. update[u].stage # "idle"
    BY <1>1
  <2>2. QED
    BY <1>3, <2>1, CommitUpdateFacts DEF StaffInv, LastSetInv
<1>9. MembersAreOfOneUpdate'
  <2>1. SUFFICES ASSUME NEW t \in Tables, NEW w \in Updates, lastSet'[t] = w,
                        \A v \in Updates : <<w, v>> \in overtaken'[t] => update'[w].active /\ update'[v].active
                 PROVE  members'[t] = update[w].content[t]
    BY CommitUpdateFacts DEF MembersAreOfOneUpdate
  <2>2. \A v \in Updates : <<w, v>> \notin overtaken'[t]
    BY <1>7, <2>1 DEF Apart
  <2>3. \A v \in Updates : <<w, v>> \notin overtaken[t]
    BY <1>3, <2>2
  <2>4. CASE Names(u, t)
    <3>1. w = u
      BY <1>3, <2>1, <2>4
    <3>2. update[u].deleted[t] = members[t]
      BY <1>1, <1>2, <2>3, <2>4, <3>1 DEF StaffInv, UpdateInv, Current, Found
    <3>3. QED
      BY <1>3, <2>4, <3>1, <3>2
  <2>5. CASE ~Names(u, t)
    BY <1>3, <2>1, <2>3, <2>5 DEF StaffInv, MembersAreOfOneUpdate
  <2>6. QED
    BY <2>4, <2>5
<1>10. QED
  BY <1>4, <1>5, <1>6, <1>7, <1>8, <1>9 DEF StaffInv

LEMMA StaffIsStable ==
  ASSUME StaffInv, UNCHANGED staffVars
  PROVE  StaffInv'
<1> USE DEF staffVars
<1>1. UNCHANGED <<members, update, overtaken, lastSet>>
  OBVIOUS
<1>2. \A u \in Updates : UpdateInv(u)'
  BY <1>1 DEF StaffInv, UpdateInv, Updating, Current, Found, Finished, At, Names
<1>3. StaffTypes' /\ OneHolds' /\ Apart' /\ LastSetInv' /\ MembersAreOfOneUpdate'
  BY <1>1 DEF StaffInv, StaffTypes, OneHolds, Updating, HoldsAccount, Apart, LastSetInv, MembersAreOfOneUpdate
<1>4. QED
  BY <1>2, <1>3 DEF StaffInv

LEMMA StaffNextInv ==
  ASSUME StaffInv, StaffNext
  PROVE  StaffInv'
  BY BeginUpdateInv, SetActiveInv, FindRowsInv, DeleteRowsInv, InsertRowsInv, CommitUpdateInv, EndsInv
  DEF StaffNext, UpdateFails


-----------------------------------------------------------------------------
(***************************************************************************)
(* The sign-ins of the user beside them: each claim was read from what was *)
(* committed since the sign-in began.                                      *)
(***************************************************************************)

SignInRecords ==
  [stage : {"idle", "roles", "outlets", "issue", "token", "failed"}, kind : {"login", "refresh"},
   roles : SUBSET Roles, outlets : SUBSET Outlets]

\* What a read leaves, if it fails, where the sign-in goes on.
Unread(s) == IF signIn[s].kind = "refresh" THEN {{}} ELSE {}

\* One moment since s began has the roles it has read, and the outlets of x.
Covers(s, x) == \E m \in since[s] : signIn[s].roles \subseteq m.roles /\ x.outlets \subseteq m.outlets

\* What a sign-in has read was committed since it began.
SignInInv(s) ==
  /\ Reading(s) => members \in since[s]
  /\ signIn[s].stage \in {"outlets", "issue", "token"} => \E m \in since[s] : signIn[s].roles \in {m.roles} \cup Unread(s)
  /\ signIn[s].stage \in {"issue", "token"} => \E m \in since[s] : signIn[s].outlets \in {m.outlets} \cup Unread(s)
  /\ signIn[s].stage \in {"idle", "roles"} => signIn[s].roles = {}
  /\ signIn[s].stage \in {"idle", "roles", "outlets"} => signIn[s].outlets = {}
  /\ IsAt(s, "outlets") /\ s \notin torn => Covers(s, members)
  /\ signIn[s].stage \in {"issue", "token"} /\ s \notin torn => Covers(s, signIn[s])

AccessInv ==
  /\ signIn \in [SignIns -> SignInRecords]
  /\ since = [s \in SignIns |-> since[s]]
  /\ \A s \in SignIns : SignInInv(s)

LEMMA AccessInitInv == AccessInit => AccessInv
  BY DEF AccessInit, AccessInv, SignInInv, SignInRecords, NotSignedIn, Reading, IsAt

\* A step of one sign-in, which reads or has read what is there.
LEMMA SignInGoesOn ==
  ASSUME AccessInv, NEW s \in SignIns, NEW to \in SignInRecords,
         signIn' = [signIn EXCEPT ![s] = to], UNCHANGED <<members, torn>>,
         since' = [q \in SignIns |-> since'[q]],
         \A q \in SignIns \ {s} : since'[q] = since[q],
         SignInInv(s)'
  PROVE  AccessInv'
<1>1. signIn' \in [SignIns -> SignInRecords] /\ \A q \in SignIns \ {s} : signIn'[q] = signIn[q]
  BY DEF AccessInv
<1>2. ASSUME NEW q \in SignIns \ {s}
      PROVE  SignInInv(q)'
  BY <1>1 DEF AccessInv, SignInInv, Reading, IsAt, Unread, Covers
<1>3. QED
  BY <1>1, <1>2 DEF AccessInv

LEMMA BeginSignInInv ==
  ASSUME AccessInv, NEW s \in SignIns, NEW kind \in {"login", "refresh"}, BeginSignIn(s, kind), UNCHANGED members
  PROVE  AccessInv'
<1> DEFINE to == [NotSignedIn EXCEPT !.kind = kind, !.stage = "roles"]
<1>1. to \in SignInRecords /\ to.stage = "roles" /\ to.roles = {} /\ to.outlets = {}
  BY DEF NotSignedIn, SignInRecords
<1>2. signIn' = [signIn EXCEPT ![s] = to] /\ since'[s] = {members} /\ UNCHANGED torn
      /\ since' = [q \in SignIns |-> since'[q]] /\ \A q \in SignIns \ {s} : since'[q] = since[q]
  BY DEF BeginSignIn, AccessInv
<1> HIDE DEF to
<1>3. signIn'[s] = to
  BY <1>2 DEF AccessInv
<1>4. SignInInv(s)'
  BY <1>1, <1>2, <1>3 DEF SignInInv, Reading, IsAt
<1>5. QED
  BY <1>1, <1>2, <1>4, SignInGoesOn

\* A sign-in goes on with claims such as these: what it has read by now, and a
\* moment that covers them.
LEMMA ReadingInv ==
  ASSUME AccessInv, NEW s \in SignIns, Reading(s), NEW to \in SignInRecords,
         signIn' = [signIn EXCEPT ![s] = to], UNCHANGED <<members, since, torn>>,
         to.kind = signIn[s].kind, to.stage \in {"outlets", "issue", "token"},
         to.roles \in {members.roles} \cup Unread(s) \/ (signIn[s].stage \in {"outlets", "issue"} /\ to.roles = signIn[s].roles),
         IF to.stage = "outlets"
           THEN to.outlets = {} /\ to.roles \subseteq members.roles
           ELSE /\ \/ to.outlets \in {members.outlets} \cup Unread(s)
                   \/ signIn[s].stage = "issue" /\ to.outlets = signIn[s].outlets
                /\ s \notin torn => \E m \in since[s] : to.roles \subseteq m.roles /\ to.outlets \subseteq m.outlets
  PROVE  AccessInv'
<1>1. signIn'[s] = to /\ SignInInv(s) /\ members \in since[s]
  BY DEF AccessInv, SignInInv
<1>2. \E m \in since[s] : to.roles \in {m.roles} \cup Unread(s)
  BY <1>1 DEF SignInInv
<1>3. to.stage # "outlets" => \E m \in since[s] : to.outlets \in {m.outlets} \cup Unread(s)
  BY <1>1 DEF SignInInv
<1>4. Unread(s)' = Unread(s)
  BY <1>1 DEF Unread
<1>5. IsAt(s, "outlets")' => Covers(s, members)'
  BY <1>1 DEF IsAt, Covers
<1>6. to.stage # "outlets" /\ s \notin torn => Covers(s, signIn[s])'
  BY <1>1 DEF Covers
<1>7. SignInInv(s)'
  BY <1>1, <1>2, <1>3, <1>4, <1>5, <1>6 DEF SignInInv, IsAt
<1>8. since' = [q \in SignIns |-> since'[q]] /\ \A q \in SignIns \ {s} : since'[q] = since[q]
  BY DEF AccessInv
<1>9. QED
  BY <1>7, <1>8, SignInGoesOn

LEMMA SignInType ==
  ASSUME StaffTypes, AccessInv, NEW s \in SignIns
  PROVE  /\ signIn[s] \in SignInRecords /\ members.roles \in SUBSET Roles /\ members.outlets \in SUBSET Outlets
         /\ SignInInv(s)
  BY DEF AccessInv, StaffTypes, Members

LEMMA ReadRolesInv ==
  ASSUME StaffTypes, AccessInv, NEW s \in SignIns, ReadRoles(s), UNCHANGED members
  PROVE  AccessInv'
<1> DEFINE to == [signIn[s] EXCEPT !.roles = members.roles, !.stage = "outlets"]
<1>1. /\ to \in SignInRecords /\ to.stage = "outlets" /\ to.roles = members.roles
      /\ to.outlets = signIn[s].outlets /\ to.kind = signIn[s].kind
  BY SignInType DEF SignInRecords
<1>2. signIn' = [signIn EXCEPT ![s] = to] /\ UNCHANGED <<since, torn>> /\ Reading(s)
  BY DEF ReadRoles, Reading, IsAt, AccessInv
<1>3. signIn[s].outlets = {}
  BY SignInType DEF ReadRoles, IsAt, SignInInv
<1> HIDE DEF to
<1>4. QED
  BY <1>1, <1>2, <1>3, ReadingInv

LEMMA ReadOutletsInv ==
  ASSUME StaffTypes, AccessInv, NEW s \in SignIns, ReadOutlets(s), UNCHANGED members
  PROVE  AccessInv'
<1> DEFINE to == [signIn[s] EXCEPT !.outlets = members.outlets, !.stage = "issue"]
<1>1. /\ to \in SignInRecords /\ to.stage = "issue" /\ to.roles = signIn[s].roles
      /\ to.outlets = members.outlets /\ to.kind = signIn[s].kind
  BY SignInType DEF SignInRecords
<1>2. /\ signIn' = [signIn EXCEPT ![s] = to] /\ UNCHANGED <<since, torn>>
      /\ Reading(s) /\ signIn[s].stage = "outlets"
  BY DEF ReadOutlets, Reading, IsAt, AccessInv
<1>3. s \notin torn => Covers(s, members)
  BY SignInType DEF SignInInv, ReadOutlets
<1> HIDE DEF to
<1>4. s \notin torn => \E m \in since[s] : to.roles \subseteq m.roles /\ to.outlets \subseteq m.outlets
  BY <1>1, <1>3 DEF Covers
<1>5. QED
  BY <1>1, <1>2, <1>4, ReadingInv

LEMMA SignInAtStage ==
  ASSUME NEW x \in SignInRecords, NEW stage \in {"outlets", "issue", "token", "failed"}
  PROVE  /\ [x EXCEPT !.stage = stage] \in SignInRecords
         /\ [x EXCEPT !.stage = stage].stage = stage
         /\ [x EXCEPT !.stage = stage].kind = x.kind
         /\ [x EXCEPT !.stage = stage].roles = x.roles
         /\ [x EXCEPT !.stage = stage].outlets = x.outlets
  BY DEF SignInRecords

\* A sign-in ends without a token.
LEMMA SignInEnds ==
  ASSUME StaffTypes, AccessInv, NEW s \in SignIns, signIn' = [signIn EXCEPT ![s].stage = "failed"],
         UNCHANGED <<members, since, torn>>
  PROVE  AccessInv'
<1> DEFINE to == [signIn[s] EXCEPT !.stage = "failed"]
<1>1. to \in SignInRecords /\ to.stage = "failed" /\ signIn' = [signIn EXCEPT ![s] = to]
  BY SignInType, SignInAtStage
<1> HIDE DEF to
<1>2. signIn'[s] = to
  BY <1>1 DEF AccessInv
<1>3. SignInInv(s)'
  BY <1>1, <1>2 DEF SignInInv, Reading, IsAt
<1>4. since' = [q \in SignIns |-> since'[q]] /\ \A q \in SignIns \ {s} : since'[q] = since[q]
  BY DEF AccessInv
<1>5. QED
  BY <1>1, <1>3, <1>4, SignInGoesOn

LEMMA ReadFailsInv ==
  ASSUME StaffTypes, AccessInv, NEW s \in SignIns, ReadFails(s), UNCHANGED members
  PROVE  AccessInv'
<1>1. CASE signIn[s].kind = "login"
  BY <1>1, SignInEnds DEF ReadFails
<1>2. CASE signIn[s].kind # "login"
  <2>1. PICK next \in {"outlets", "issue"} :
          /\ signIn' = [signIn EXCEPT ![s].stage = next] /\ UNCHANGED <<since, torn>>
          /\ \/ signIn[s].stage = "roles" /\ next = "outlets"
             \/ signIn[s].stage = "outlets" /\ next = "issue"
    BY <1>2 DEF ReadFails, IsAt
  <2> DEFINE to == [signIn[s] EXCEPT !.stage = next]
  <2>2. signIn[s] \in SignInRecords /\ SignInInv(s) /\ next \in {"outlets", "issue", "token", "failed"}
    BY SignInType
  <2>3. /\ to \in SignInRecords /\ to.stage = next /\ to.kind = signIn[s].kind
        /\ to.roles = signIn[s].roles /\ to.outlets = signIn[s].outlets
    BY <2>2, SignInAtStage
  <2>4. signIn' = [signIn EXCEPT ![s] = to] /\ Reading(s)
    BY <2>1 DEF Reading
  <2>5. signIn[s].outlets = {} /\ Unread(s) = {{}}
    BY <1>2, <2>1, <2>2 DEF SignInInv, Unread, SignInRecords
  <2> HIDE DEF to
  <2>6. CASE signIn[s].stage = "roles"
    <3>1. signIn[s].roles = {} /\ next = "outlets"
      BY <2>1, <2>2, <2>6 DEF SignInInv
    <3>2. to.stage = "outlets" /\ to.outlets = {} /\ to.roles = {}
      BY <2>3, <2>5, <3>1
    <3>3. to.roles \in {members.roles} \cup Unread(s) /\ to.roles \subseteq members.roles
      BY <2>5, <3>2
    <3>4. QED
      BY <2>1, <2>3, <2>4, <3>2, <3>3, ReadingInv
  <2>7. CASE signIn[s].stage = "outlets"
    <3>1. next = "issue"
      BY <2>1, <2>7
    <3>2. s \notin torn => \E m \in since[s] : to.roles \subseteq m.roles /\ to.outlets \subseteq m.outlets
      BY <2>2, <2>3, <2>5, <2>7 DEF SignInInv, Covers, IsAt
    <3>3. to.outlets \in {members.outlets} \cup Unread(s) /\ to.stage = "issue" /\ to.roles = signIn[s].roles
      BY <2>3, <2>5, <3>1
    <3>4. QED
      BY <2>1, <2>3, <2>4, <2>7, <3>2, <3>3, ReadingInv
  <2>8. QED
    BY <2>1, <2>6, <2>7
<1>3. QED
  BY <1>1, <1>2

LEMMA IssueTokenInv ==
  ASSUME StaffTypes, AccessInv, NEW s \in SignIns, IssueToken(s), UNCHANGED members
  PROVE  AccessInv'
<1>1. CASE signIn' = [signIn EXCEPT ![s].stage = "failed"]
  BY <1>1, SignInEnds DEF IssueToken
<1>2. CASE signIn' = [signIn EXCEPT ![s].stage = "token"]
  <2> DEFINE to == [signIn[s] EXCEPT !.stage = "token"]
  <2>1. signIn[s] \in SignInRecords /\ SignInInv(s)
    BY SignInType
  <2>2. /\ to \in SignInRecords /\ to.stage = "token" /\ to.kind = signIn[s].kind
        /\ to.roles = signIn[s].roles /\ to.outlets = signIn[s].outlets
    BY <2>1, SignInAtStage
  <2>3. signIn' = [signIn EXCEPT ![s] = to] /\ UNCHANGED <<since, torn>> /\ Reading(s) /\ signIn[s].stage = "issue"
    BY <1>2 DEF IssueToken, Reading, IsAt
  <2> HIDE DEF to
  <2>4. s \notin torn => \E m \in since[s] : to.roles \subseteq m.roles /\ to.outlets \subseteq m.outlets
    BY <2>1, <2>2, <2>3 DEF SignInInv, Covers
  <2>5. QED
    BY <2>2, <2>3, <2>4, ReadingInv
<1>3. QED
  BY <1>1, <1>2 DEF IssueToken

\* An update is committed, or not, while the user signs in.
LEMMA WitnessInv ==
  ASSUME AccessInv, Witness
  PROVE  AccessInv'
<1>1. UNCHANGED signIn /\ since' = [s \in SignIns |-> IF Reading(s) THEN since[s] \cup {members'} ELSE since[s]]
  BY DEF Witness
<1>2. ASSUME NEW s \in SignIns
      PROVE  SignInInv(s)'
  <2>1. SignInInv(s) /\ since[s] \subseteq since'[s] /\ (Reading(s) => members' \in since'[s])
    BY <1>1 DEF AccessInv
  <2>2. /\ s \in torn => s \in torn'
        /\ IsAt(s, "outlets") /\ s \notin torn' =>
             signIn[s].roles \subseteq members'.roles \/ members'.outlets \subseteq members.outlets
    BY DEF Witness, Tears
  <2>3. (Reading(s)' <=> Reading(s)) /\ (\A stage : IsAt(s, stage)' <=> IsAt(s, stage)) /\ Unread(s)' = Unread(s)
    BY <1>1 DEF Reading, IsAt, Unread
  <2>4. ASSUME IsAt(s, "outlets"), s \notin torn'
        PROVE  Covers(s, members)'
    <3>1. CASE signIn[s].roles \subseteq members'.roles
      <4>1. members' \in since'[s]
        BY <2>1, <2>4 DEF Reading, IsAt
      <4>2. QED
        BY <1>1, <3>1, <4>1 DEF Covers
    <3>2. CASE members'.outlets \subseteq members.outlets
      BY <1>1, <2>1, <2>2, <2>4, <3>2 DEF SignInInv, Covers
    <3>3. QED
      BY <2>2, <2>4, <3>1, <3>2
  <2>5. Covers(s, signIn[s]) => Covers(s, signIn[s])'
    BY <1>1, <2>1 DEF Covers
  <2>6. QED
    BY <1>1, <2>1, <2>2, <2>3, <2>4, <2>5 DEF SignInInv
<1>3. QED
  BY <1>1, <1>2 DEF AccessInv

LEMMA AccessNextInv ==
  ASSUME StaffInv, AccessInv, AccessNext
  PROVE  StaffInv' /\ AccessInv'
<1>1. CASE StaffNext /\ Witness
  BY <1>1, StaffNextInv, WitnessInv
<1>2. CASE SignInNext /\ UNCHANGED staffVars
  <2>1. UNCHANGED <<members, update, overtaken, lastSet>> /\ StaffTypes
    BY <1>2 DEF staffVars, StaffInv
  <2>2. AccessInv'
    BY <1>2, <2>1, BeginSignInInv, ReadRolesInv, ReadOutletsInv, ReadFailsInv, IssueTokenInv DEF SignInNext
  <2>3. StaffInv'
    BY <2>1, StaffIsStable DEF staffVars
  <2>4. QED
    BY <2>2, <2>3
<1>3. QED
  BY <1>1, <1>2 DEF AccessNext

LEMMA ImpliesTokensGrantWhatWasHeld == AccessInv => TokensGrantWhatWasHeld
<1> SUFFICES ASSUME AccessInv, NEW s \in SignIns, IsAt(s, "token")
             PROVE  LET claims == [roles |-> signIn[s].roles, outlets |-> signIn[s].outlets] IN
               /\ s \notin torn => \E m \in since[s] :
                    /\ claims.roles \subseteq m.roles
                    /\ \A o \in Outlets : CanAccessOutlet(claims, o) => CanAccessOutlet(m, o)
               /\ \E m \in since[s] : claims.roles \in {m.roles} \cup Unread(s)
               /\ \E m \in since[s] : claims.outlets \in {m.outlets} \cup Unread(s)
  BY DEF TokensGrantWhatWasHeld, Unread
<1>1. SignInInv(s) /\ signIn[s].stage = "token"
  BY DEF AccessInv, IsAt
<1>2. ASSUME s \notin torn
      PROVE  \E m \in since[s] :
               /\ signIn[s].roles \subseteq m.roles
               /\ \A o \in Outlets :
                    CanAccessOutlet([roles |-> signIn[s].roles, outlets |-> signIn[s].outlets], o) => CanAccessOutlet(m, o)
  BY <1>1, <1>2 DEF SignInInv, Covers, CanAccessOutlet, IsGlobalStaff, HasAnyRole
<1>3. QED
  BY <1>1, <1>2 DEF SignInInv

-----------------------------------------------------------------------------
(***************************************************************************)
(* Sums.  Amount is a fold over a set, in an order CHOOSE picks.  That    *)
(* adding an event adds its amount holds in whatever order: each lemma     *)
(* takes a smallest set for which it fails, and finds none.                *)
(***************************************************************************)
\* A family of subsets of a finite set has a smallest member: what the proofs
\* about sums use in the place of induction.
LEMMA SmallestSubset ==
  ASSUME NEW S, IsFiniteSet(S), NEW Z \in SUBSET (SUBSET S), Z # {}
  PROVE  \E m \in Z : \A u \in SUBSET m : u # m => u \notin Z
<1>1. IsWellFoundedOn(StrictSubsetOrdering(S), SUBSET S)
  BY FS_StrictSubsetOrderingWellFounded, FS_FiniteSubsetsOfFinite
<1>2. PICK m \in Z : \A u \in Z : ~ (<<u, m>> \in StrictSubsetOrdering(S))
  BY <1>1, WFMin
<1>3. ASSUME NEW u \in SUBSET m, u # m, u \in Z
      PROVE  FALSE
  <2>1. <<u, m>> \in StrictSubsetOrdering(S)
    BY <1>3 DEF StrictSubsetOrdering
  <2>2. QED
    BY <2>1, <1>2, <1>3
<1>4. QED
  BY <1>3

\* The fold that adds up a set: it takes its members in the order of CHOOSE.
First(s) == CHOOSE x \in s : TRUE
SumsUp(S, f) ==
  f = [s \in SUBSET S |-> IF s = {} THEN 0 ELSE LET x == First(s) IN x.amount + f[s \ {x}]]

LEMMA AmountIsAFold ==
  ASSUME NEW S
  PROVE  Amount(S) = (CHOOSE f : SumsUp(S, f))[S]
BY DEF Amount, MapThenSumSet, MapThenFoldSet, SumsUp, First

LEMMA FirstIsMember ==
  ASSUME NEW s, s # {}
  PROVE  First(s) \in s
BY DEF First

\* The sums over a set and over a part of it agree on that part.
LEMMA SumsAgree ==
  ASSUME NEW S, IsFiniteSet(S), NEW T \in SUBSET S,
         NEW f, SumsUp(S, f), NEW g, SumsUp(T, g)
  PROVE  \A s \in SUBSET T : f[s] = g[s]
<1> DEFINE Z == {s \in SUBSET T : f[s] # g[s]}
<1> SUFFICES ASSUME Z # {}
             PROVE  FALSE
  OBVIOUS
<1>1. IsFiniteSet(T)
  BY FS_Subset
<1>2. PICK m \in Z : \A u \in SUBSET m : u # m => u \notin Z
  <2>1. Z \in SUBSET (SUBSET T)
    OBVIOUS
  <2> HIDE DEF Z
  <2>2. QED
    BY <1>1, <2>1, SmallestSubset
<1>3. m \in SUBSET T /\ m \in SUBSET S /\ f[m] # g[m]
  BY <1>2
<1>4. CASE m = {}
  BY <1>3, <1>4 DEF SumsUp
<1>5. CASE m # {}
  <2> DEFINE x == First(m)
  <2>1. x \in m
    BY <1>5, FirstIsMember
  <2>2. f[m \ {x}] = g[m \ {x}]
    BY <1>2, <1>3, <2>1
  <2>3. f[m] = x.amount + f[m \ {x}]
    BY <1>3, <1>5 DEF SumsUp
  <2>4. g[m] = x.amount + g[m \ {x}]
    BY <1>3, <1>5 DEF SumsUp
  <2>5. QED
    BY <2>2, <2>3, <2>4, <1>3
<1>6. QED
  BY <1>4, <1>5

\* Where a sum exists, Amount is its value, for the set and for its parts.
LEMMA AmountIsTheSum ==
  ASSUME NEW S, IsFiniteSet(S), NEW f, SumsUp(S, f), NEW T \in SUBSET S, \E g : SumsUp(T, g)
  PROVE  Amount(T) = f[T]
<1> DEFINE g == CHOOSE h : SumsUp(T, h)
<1>1. SumsUp(T, g)
  OBVIOUS
<1>2. f[T] = g[T]
  <2> HIDE DEF g
  <2>1. QED
    BY <1>1, SumsAgree
<1>3. Amount(T) = g[T]
  BY AmountIsAFold
<1>4. QED
  BY <1>2, <1>3

LEMMA PartHasSum ==
  ASSUME NEW S, NEW f, SumsUp(S, f), NEW T \in SUBSET S
  PROVE  \E g : SumsUp(T, g)
<1> DEFINE g == [s \in SUBSET T |-> f[s]]
<1>1. ASSUME NEW s \in SUBSET T
      PROVE  g[s] = IF s = {} THEN 0 ELSE LET x == First(s) IN x.amount + g[s \ {x}]
  BY DEF SumsUp
<1>2. SumsUp(T, g)
  <2>1. g = [s \in SUBSET T |-> g[s]]
    OBVIOUS
  <2> HIDE DEF g
  <2>2. QED
    BY <2>1, <1>1 DEF SumsUp
<1>3. QED
  BY <1>2

LEMMA SumExists ==
  ASSUME NEW S, IsFiniteSet(S)
  PROVE  \E f : SumsUp(S, f)
<1> DEFINE Z == {s \in SUBSET S : ~ \E f : SumsUp(s, f)}
<1> SUFFICES ASSUME Z # {}
             PROVE  FALSE
  OBVIOUS
<1>1. PICK m \in Z : \A u \in SUBSET m : u # m => u \notin Z
  <2>1. Z \in SUBSET (SUBSET S)
    OBVIOUS
  <2> HIDE DEF Z
  <2>2. QED
    BY <2>1, SmallestSubset
<1>2. m \in SUBSET S /\ IsFiniteSet(m)
  BY <1>1, FS_Subset
<1>3. ASSUME NEW u \in SUBSET m, u # m
      PROVE  IsFiniteSet(u) /\ \E f : SumsUp(u, f)
  BY <1>1, <1>2, <1>3, FS_Subset
<1> DEFINE f == [s \in SUBSET m |-> IF s = {} THEN 0
                                    ELSE LET x == First(s) IN x.amount + Amount(s \ {x})]
<1>4. ASSUME NEW u \in SUBSET m, u # m
      PROVE  f[u] = Amount(u)
  <2>1. PICK g : SumsUp(u, g)
    BY <1>3, <1>4
  <2>2. Amount(u) = g[u]
    BY <2>1, <1>3, <1>4, AmountIsTheSum
  <2>3. CASE u = {}
    BY <2>1, <2>2, <2>3 DEF SumsUp
  <2>4. CASE u # {}
    <3> DEFINE x == First(u)
    <3>1. x \in u /\ u \ {x} \in SUBSET u /\ u \ {x} \in SUBSET m /\ u \ {x} # m
      BY <2>4, FirstIsMember, <1>4
    <3>2. Amount(u \ {x}) = g[u \ {x}]
      BY <2>1, <3>1, <1>3, <1>4, AmountIsTheSum
    <3>3. g[u] = x.amount + g[u \ {x}]
      BY <2>1, <2>4 DEF SumsUp
    <3>4. f[u] = x.amount + Amount(u \ {x})
      BY <2>4
    <3>5. QED
      BY <3>2, <3>3, <3>4, <2>2
  <2>5. QED
    BY <2>3, <2>4
<1>5. ASSUME NEW s \in SUBSET m
      PROVE  f[s] = IF s = {} THEN 0 ELSE LET x == First(s) IN x.amount + f[s \ {x}]
  <2>1. CASE s = {}
    BY <2>1
  <2>2. CASE s # {}
    <3> DEFINE x == First(s)
    <3>1. x \in s /\ s \ {x} \in SUBSET m /\ s \ {x} # m
      BY <2>2, FirstIsMember
    <3>2. f[s \ {x}] = Amount(s \ {x})
      BY <3>1, <1>4
    <3>3. f[s] = x.amount + Amount(s \ {x})
      BY <2>2
    <3> HIDE DEF f
    <3>4. QED
      BY <3>2, <3>3, <2>2
  <2>3. QED
    BY <2>1, <2>2
<1>6. SumsUp(m, f)
  <2>1. f = [s \in SUBSET m |-> f[s]]
    OBVIOUS
  <2> HIDE DEF f
  <2>2. QED
    BY <2>1, <1>5 DEF SumsUp
<1>7. QED
  BY <1>6, <1>1

LEMMA AmountOfNone == Amount({}) = 0
<1>1. IsFiniteSet({})
  BY FS_EmptySet
<1>2. PICK f : SumsUp({}, f)
  BY <1>1, SumExists
<1>3. Amount({}) = f[{}]
  BY <1>1, <1>2, AmountIsTheSum
<1>4. f[{}] = 0
  BY <1>2 DEF SumsUp
<1>5. QED
  BY <1>3, <1>4

LEMMA AmountOfFirst ==
  ASSUME NEW S, IsFiniteSet(S), S # {}
  PROVE  Amount(S) = First(S).amount + Amount(S \ {First(S)})
<1> DEFINE x == First(S)
<1>1. PICK f : SumsUp(S, f)
  BY SumExists
<1>2. IsFiniteSet(S \ {x})
  BY FS_Subset
<1>3. \E g : SumsUp(S \ {x}, g)
  BY <1>2, SumExists
<1>4. Amount(S) = f[S]
  BY <1>1, AmountIsTheSum
<1>5. Amount(S \ {x}) = f[S \ {x}]
  BY <1>1, <1>3, AmountIsTheSum
<1>6. f[S] = x.amount + f[S \ {x}]
  BY <1>1 DEF SumsUp
<1>7. QED
  BY <1>4, <1>5, <1>6

LEMMA AmountIsNat ==
  ASSUME NEW S, IsFiniteSet(S), \A e \in S : e.amount \in Nat
  PROVE  Amount(S) \in Nat
<1> DEFINE Z == {s \in SUBSET S : Amount(s) \notin Nat}
<1> SUFFICES ASSUME Z # {}
             PROVE  FALSE
  OBVIOUS
<1>1. PICK m \in Z : \A u \in SUBSET m : u # m => u \notin Z
  <2>1. Z \in SUBSET (SUBSET S)
    OBVIOUS
  <2> HIDE DEF Z
  <2>2. QED
    BY <2>1, SmallestSubset
<1>2. m \in SUBSET S /\ IsFiniteSet(m) /\ Amount(m) \notin Nat
  BY <1>1, FS_Subset
<1>3. m # {}
  <2>1. Amount({}) \in Nat
    BY AmountOfNone
  <2>2. QED
    BY <1>2, <2>1, Zenon
<1> DEFINE x == First(m)
<1>4. x \in m
  BY <1>3, FirstIsMember
<1>5. Amount(m) = x.amount + Amount(m \ {x})
  BY <1>2, <1>3, AmountOfFirst
<1>6. Amount(m \ {x}) \in Nat
  BY <1>1, <1>2, <1>4
<1>7. x.amount \in Nat
  BY <1>2, <1>4
<1>8. QED
  BY <1>2, <1>5, <1>6, <1>7

\* Any member may be taken first.
LEMMA AmountOfAny ==
  ASSUME NEW S, IsFiniteSet(S), \A e \in S : e.amount \in Nat
  PROVE  \A e \in S : Amount(S) = e.amount + Amount(S \ {e})
<1> DEFINE Z == {s \in SUBSET S : \E e \in s : Amount(s) # e.amount + Amount(s \ {e})}
<1> SUFFICES ASSUME Z # {}
             PROVE  FALSE
  OBVIOUS
<1>1. PICK m \in Z : \A u \in SUBSET m : u # m => u \notin Z
  <2>1. Z \in SUBSET (SUBSET S)
    OBVIOUS
  <2> HIDE DEF Z
  <2>2. QED
    BY <2>1, SmallestSubset
<1>2. m \in SUBSET S /\ IsFiniteSet(m)
  BY <1>1, FS_Subset
<1>3. PICK e \in m : Amount(m) # e.amount + Amount(m \ {e})
  BY <1>1
<1> DEFINE x == First(m)
<1>4. x \in m
  BY <1>3, FirstIsMember
<1>5. Amount(m) = x.amount + Amount(m \ {x})
  BY <1>2, <1>3, AmountOfFirst
<1>6. x # e
  BY <1>3, <1>5
<1>7. Amount(m \ {x}) = e.amount + Amount((m \ {x}) \ {e})
  BY <1>1, <1>2, <1>4, <1>6
<1>8. Amount(m \ {e}) = x.amount + Amount((m \ {e}) \ {x})
  BY <1>1, <1>2, <1>4, <1>6
<1>9. (m \ {x}) \ {e} = (m \ {e}) \ {x} /\ (m \ {x}) \ {e} \in SUBSET S
  BY <1>2
<1>10. x.amount \in Nat /\ e.amount \in Nat
  BY <1>2, <1>4
<1>11. Amount((m \ {x}) \ {e}) \in Nat
  BY <1>9, AmountIsNat, FS_Subset
<1> HIDE DEF x
<1>12. QED
  BY <1>3, <1>5, <1>7, <1>8, <1>9, <1>10, <1>11

LEMMA AmountAdds ==
  ASSUME NEW S, IsFiniteSet(S), \A e \in S : e.amount \in Nat,
         NEW e, e \notin S, e.amount \in Nat
  PROVE  Amount(S \cup {e}) = Amount(S) + e.amount
<1>1. IsFiniteSet(S \cup {e})
  BY FS_AddElement
<1>2. (S \cup {e}) \ {e} = S
  OBVIOUS
<1>3. \A d \in S \cup {e} : d.amount \in Nat
  OBVIOUS
<1>4. Amount(S \cup {e}) = e.amount + Amount((S \cup {e}) \ {e})
  BY <1>1, <1>3, AmountOfAny
<1>5. Amount(S) \in Nat
  BY AmountIsNat
<1> DEFINE T == S \cup {e}
<1>6. Amount(T) = e.amount + Amount(S)
  BY <1>2, <1>4, Zenon
<1> HIDE DEF T
<1>7. Amount(T) = Amount(S) + e.amount
  BY <1>5, <1>6
<1> USE DEF T
<1>8. QED
  BY <1>7, Zenon

-----------------------------------------------------------------------------
(***************************************************************************)
(* Reporting.                                                              *)
(***************************************************************************)
ReportingTypes ==
  /\ summary \in [Orders -> Rows \cup {Absent}]
  /\ sales \in [Days -> [count : Nat, gross : Nat, refunded : Nat]]
  /\ refunds \in [Days -> [count : Nat, amount : Nat]]
  /\ processed \subseteq ReportEvents /\ IsFiniteSet(processed)
  /\ working \in [Loops -> Handled \cup {Absent}]
  /\ missed \subseteq processed
  /\ shown \in [completed : [Days -> Nat], refunded : [Days -> Nat]]

\* A loop that is about to complete an order, or whose update met the row, has a
\* row to work on, which no transaction deletes; a completion that found one is
\* never left to the transaction for the other statuses.
Sound(h) ==
  /\ h.found => HasRow(h.event.order)
  /\ h.step = "complete" => Completion(h.event) /\ HasRow(h.event.order)
  /\ h.step = "select" => Completion(h.event) /\ ~ h.found
  /\ h.step = "write" /\ Completion(h.event) => ~ h.found

StepsAreSound == \A x \in Loops : working[x] # Absent => Sound(working[x])

\* A counted event that no two loops had in hand at once is in the hand of one
\* loop, and nothing was added for it yet.
HeldOnce == \A x \in Loops :
  working[x] # Absent /\ Counted(working[x].event) /\ working[x].event \notin overlapped =>
    /\ working[x].event \notin processed
    /\ \A y \in Loops : working[y] # Absent /\ working[y].event = working[x].event => y = x

\* What the orders show of a day is in its sales, and what these show as refunded
\* in its refunds.
CompletedOn(d) == {o \in Orders : HasRow(o) /\ summary[o].completed = d}
DaysAgree == \A d \in Days :
  /\ IsFiniteSet(CompletedOn(d)) /\ Cardinality(CompletedOn(d)) <= sales[d].count
  /\ sales[d].refunded <= refunds[d].amount

ReportingInv ==
  /\ ReportingTypes
  /\ StepsAreSound
  /\ HeldOnce
  /\ ReportsAreExact
  /\ DaysAgree
  /\ ReportsAgree

LEMMA ReportingInitInv == ReportingInit => ReportingInv
<1> SUFFICES ASSUME ReportingInit
             PROVE  ReportingInv
  OBVIOUS
<1> USE DEF ReportingInit
<1>1. IsFiniteSet({}) /\ Cardinality({}) = 0
  BY FS_EmptySet
<1>2. ReportingTypes
  BY <1>1 DEF ReportingTypes
<1>3. StepsAreSound /\ HeldOnce
  BY DEF StepsAreSound, HeldOnce
<1>4. ReportsAreExact
  <2> SUFFICES ASSUME NEW d \in Days
               PROVE  /\ sales[d].count = 0 /\ Completions(d) \ missed = {}
                      /\ refunds[d].count = 0 /\ refunds[d].amount = 0 /\ Refundings(d) \ missed = {}
    BY <1>1, AmountOfNone DEF ReportsAreExact
  <2>1. QED
    BY DEF Completions, Refundings
<1>5. DaysAgree
  <2> SUFFICES ASSUME NEW d \in Days
               PROVE  /\ IsFiniteSet(CompletedOn(d)) /\ Cardinality(CompletedOn(d)) <= sales[d].count
                      /\ sales[d].refunded <= refunds[d].amount
    BY DEF DaysAgree
  <2>1. CompletedOn(d) = {}
    BY DEF CompletedOn, HasRow
  <2>2. IsFiniteSet(CompletedOn(d)) /\ Cardinality(CompletedOn(d)) = 0
    BY <1>1, <2>1, Zenon
  <2>3. QED
    BY <2>2
<1>6. ReportsAgree
  BY DEF ReportsAgree
<1>7. QED
  BY <1>2, <1>3, <1>4, <1>5, <1>6 DEF ReportingInv

-----------------------------------------------------------------------------
\* An event that was counted is not counted again: what a loop has in hand, if it
\* counts and no other loop had it, is not among the processed ones.
Fresh(e) == Counted(e) /\ e \notin overlapped => e \notin processed

\* The reports stay exact when e is marked, in the three ways in which it is: as
\* one that nothing counts or that met no row,
LEMMA MarkedStaysExact ==
  ASSUME ReportsAreExact, NEW e, Fresh(e),
         processed' = processed \cup {e}, overlapped' = overlapped,
         missed' = missed \cup {c \in {e} : Counted(c)},
         \A d \in Days : sales'[d].count = sales[d].count, refunds' = refunds
  PROVE  ReportsAreExact'
<1> SUFFICES ASSUME NEW d \in Days
             PROVE  /\ Completions(d)' \cap overlapped = {} =>
                         /\ Completions(d) \cap overlapped = {}
                         /\ Completions(d)' \ missed' = Completions(d) \ missed
                    /\ Refundings(d)' \cap overlapped = {} =>
                         /\ Refundings(d) \cap overlapped = {}
                         /\ Refundings(d)' \ missed' = Refundings(d) \ missed
  BY DEF ReportsAreExact
<1> USE DEF Completions, Refundings, Completion, Refunding, Counted, Fresh
<1>1. CASE Counted(e)
  <2>1. missed' = missed \cup {e}
    BY <1>1
  <2>2. QED
    BY <1>1, <2>1
<1>2. CASE ~ Counted(e)
  <2>1. missed' = missed
    BY <1>2
  <2>2. Completions(d)' = Completions(d) /\ Refundings(d)' = Refundings(d)
    BY <1>2
  <2>3. QED
    BY <2>1, <2>2
<1>3. QED
  BY <1>1, <1>2

\* as a completion that the sales of its day count,
LEMMA CompletionStaysExact ==
  ASSUME ReportingTypes, ReportsAreExact, NEW e \in ReportEvents, Fresh(e), Completion(e),
         processed' = processed \cup {e}, overlapped' = overlapped, missed' = missed, refunds' = refunds,
         \A d \in Days : sales'[d].count = IF d = e.day THEN sales[d].count + 1 ELSE sales[d].count
  PROVE  ReportsAreExact'
<1> SUFFICES ASSUME NEW d \in Days
             PROVE  /\ Completions(d)' \cap overlapped = {} =>
                         sales'[d].count = Cardinality(Completions(d)' \ missed)
                    /\ Refundings(d)' = Refundings(d)
  BY DEF ReportsAreExact
<1>1. ~ Refunding(e)
  BY EventsAssumption DEF Completion, Refunding
<1>2. Refundings(d)' = Refundings(d)
  BY <1>1 DEF Refundings, Refunding
<1>3. ASSUME Completions(d)' \cap overlapped = {}
      PROVE  sales'[d].count = Cardinality(Completions(d)' \ missed)
  <2>1. Completions(d) \subseteq Completions(d)'
    BY DEF Completions, Completion
  <2>2. sales[d].count = Cardinality(Completions(d) \ missed)
    BY <1>3, <2>1 DEF ReportsAreExact
  <2>3. CASE e.day # d
    <3>1. Completions(d)' = Completions(d)
      BY <2>3 DEF Completions, Completion
    <3>2. sales'[d].count = sales[d].count
      BY <2>3
    <3>3. QED
      BY <2>2, <3>1, <3>2
  <2>4. CASE e.day = d
    <3>1. e \in Completions(d)' /\ Completions(d)' = Completions(d) \cup {e}
      BY <2>4 DEF Completions, Completion
    <3>2. e \notin processed
      BY <1>3, <3>1 DEF Fresh, Counted
    <3>3. e \notin missed /\ e \notin Completions(d) \ missed
      BY <3>2 DEF Completions, ReportingTypes
    <3>4. Completions(d)' \ missed = (Completions(d) \ missed) \cup {e}
      BY <3>1, <3>3
    <3>5. IsFiniteSet(Completions(d) \ missed)
      BY FS_Subset DEF ReportingTypes, Completions
    <3>6. Cardinality((Completions(d) \ missed) \cup {e}) = Cardinality(Completions(d) \ missed) + 1
      BY <3>3, <3>5, FS_AddElement
    <3>7. sales'[d].count = sales[d].count + 1
      BY <2>4
    <3>8. QED
      BY <2>2, <3>4, <3>6, <3>7
  <2>5. QED
    BY <2>3, <2>4
<1>4. QED
  BY <1>2, <1>3

\* and as a refund that the refunds of its day add.
LEMMA RefundStaysExact ==
  ASSUME ReportingTypes, ReportsAreExact, NEW e \in ReportEvents, Fresh(e), Refunding(e),
         processed' = processed \cup {e}, overlapped' = overlapped, missed' = missed,
         \A d \in Days : sales'[d].count = sales[d].count, AddRefund(e)
  PROVE  ReportsAreExact'
<1> SUFFICES ASSUME NEW d \in Days
             PROVE  /\ Completions(d)' = Completions(d)
                    /\ Refundings(d)' \cap overlapped = {} =>
                         /\ refunds'[d].count = Cardinality(Refundings(d)' \ missed)
                         /\ refunds'[d].amount = Amount(Refundings(d)' \ missed)
  BY DEF ReportsAreExact
<1>1. ~ Completion(e)
  BY EventsAssumption DEF Completion, Refunding
<1>2. Completions(d)' = Completions(d)
  BY <1>1 DEF Completions, Completion
<1>3. ASSUME Refundings(d)' \cap overlapped = {}
      PROVE  /\ refunds'[d].count = Cardinality(Refundings(d)' \ missed)
             /\ refunds'[d].amount = Amount(Refundings(d)' \ missed)
  <2> DEFINE counted == Refundings(d) \ missed
  <2>1. Refundings(d) \subseteq Refundings(d)'
    BY DEF Refundings, Refunding
  <2>2. refunds[d].count = Cardinality(counted) /\ refunds[d].amount = Amount(counted)
    BY <1>3, <2>1 DEF ReportsAreExact
  <2>3. CASE e.day # d
    <3>1. Refundings(d)' = Refundings(d)
      BY <2>3 DEF Refundings, Refunding
    <3>2. refunds'[d] = refunds[d]
      BY <2>3 DEF AddRefund, ReportingTypes
    <3>3. QED
      BY <2>2, <3>1, <3>2
  <2>4. CASE e.day = d
    <3>1. e \in Refundings(d)' /\ Refundings(d)' = Refundings(d) \cup {e}
      BY <2>4 DEF Refundings, Refunding
    <3>2. e \notin processed
      BY <1>3, <3>1 DEF Fresh, Counted
    <3>3. e \notin missed /\ e \notin counted
      BY <3>2 DEF Refundings, ReportingTypes
    <3>4. Refundings(d)' \ missed = counted \cup {e}
      BY <3>1, <3>3
    <3>5. IsFiniteSet(counted) /\ \A c \in counted : c.amount \in Nat
      BY FS_Subset, EventsAssumption DEF ReportingTypes, Refundings
    <3>6. refunds'[d].count = refunds[d].count + 1 /\ refunds'[d].amount = refunds[d].amount + e.amount
      BY <2>4 DEF AddRefund, ReportingTypes
    <3>7. e.amount \in Nat
      BY EventsAssumption
    <3> HIDE DEF counted
    <3>8. Cardinality(counted \cup {e}) = Cardinality(counted) + 1
      BY <3>3, <3>5, FS_AddElement
    <3>9. Amount(counted \cup {e}) = Amount(counted) + e.amount
      BY <3>3, <3>5, <3>7, AmountAdds
    <3>10. QED
      BY <2>2, <3>4, <3>6, <3>8, <3>9
  <2>5. QED
    BY <2>3, <2>4
<1>4. QED
  BY <1>2, <1>3

-----------------------------------------------------------------------------
\* What a loop may be given, and what it may do with it before it writes.
LEMMA NothingReported ==
  ASSUME ReportingInv, UNCHANGED <<tables, processed, missed, shown>>, overlapped \subseteq overlapped'
  PROVE  ReportsAreExact' /\ DaysAgree' /\ ReportsAgree'
<1> USE DEF tables
<1>1. \A d : Completions(d)' = Completions(d) /\ Refundings(d)' = Refundings(d) /\ CompletedOn(d)' = CompletedOn(d)
  BY DEF Completions, Refundings, CompletedOn, HasRow
<1>2. ReportsAreExact'
  <2> SUFFICES ASSUME NEW d \in Days
               PROVE  /\ Completions(d) \cap overlapped' = {} => Completions(d) \cap overlapped = {}
                      /\ Refundings(d) \cap overlapped' = {} => Refundings(d) \cap overlapped = {}
    BY <1>1 DEF ReportingInv, ReportsAreExact
  <2>1. QED
    OBVIOUS
<1>3. DaysAgree' /\ ReportsAgree'
  BY <1>1 DEF ReportingInv, DaysAgree, ReportsAgree
<1>4. QED
  BY <1>2, <1>3

LEMMA HandIsReal ==
  ASSUME ReportingInv, NEW x \in Loops, working[x] # Absent
  PROVE  /\ working[x] \in Handled /\ working[x].event \in ReportEvents
         /\ working[x].event.order \in Orders /\ working[x].event.day \in Days
         /\ Fresh(working[x].event)
<1>1. working[x] \in Handled
  BY DEF ReportingInv, ReportingTypes
<1>2. working[x].event \in ReportEvents
  BY <1>1 DEF Handled
<1>3. Fresh(working[x].event)
  BY DEF ReportingInv, HeldOnce, Fresh
<1>4. QED
  BY <1>1, <1>2, <1>3, EventsAssumption

LEMMA ReceiveKeeps ==
  ASSUME ReportingInv, NEW x \in Loops, NEW e \in ReportEvents, Receive(x, e), UNCHANGED shown
  PROVE  ReportingInv'
<1> USE DEF tables
<1> DEFINE h == [event |-> e, step |-> "look", found |-> FALSE, sold |-> FALSE, total |-> 0]
<1>1. h \in Handled
  BY DEF Handled
<1>2. /\ working' = [working EXCEPT ![x] = h] /\ working[x] = Absent /\ e \notin processed
      /\ overlapped' = (IF Counted(e) /\ InHand(e) THEN overlapped \cup {e} ELSE overlapped)
      /\ UNCHANGED <<summary, sales, refunds, processed, missed, shown>>
  BY DEF Receive, Take
<1>3. /\ h.event = e /\ h.step = "look" /\ h.found = FALSE /\ h # Absent
      /\ working'[x] = h /\ \A y \in Loops : y # x => working'[y] = working[y]
  BY <1>1, <1>2, AbsentAssumption DEF ReportingInv, ReportingTypes
<1> HIDE DEF h
<1>4. ReportingTypes'
  BY <1>1, <1>2 DEF ReportingInv, ReportingTypes
<1>5. StepsAreSound'
  <2>1. \A k : Sound(k)' <=> Sound(k)
    BY <1>2 DEF Sound, HasRow, Completion
  <2>2. Sound(h)
    BY <1>3 DEF Sound
  <2>3. QED
    BY <1>3, <2>1, <2>2 DEF ReportingInv, StepsAreSound
<1>6. HeldOnce'
  <2> SUFFICES ASSUME NEW y \in Loops, working'[y] # Absent, Counted(working'[y].event), working'[y].event \notin overlapped'
               PROVE  /\ working'[y].event \notin processed
                      /\ \A z \in Loops : working'[z] # Absent /\ working'[z].event = working'[y].event => z = y
    BY <1>2 DEF HeldOnce, Counted, Completion, Refunding
  <2>1. overlapped \subseteq overlapped'
    BY <1>2
  <2>2. ASSUME NEW z \in Loops, z # x, working[z] # Absent, working[z].event = e, Counted(e)
        PROVE  e \in overlapped'
    BY <1>2, <2>2 DEF InHand
  <2>3. CASE y = x
    BY <1>2, <1>3, <2>2, <2>3
  <2>4. CASE y # x
    <3>1. working'[y] = working[y]
      BY <1>3, <2>4
    <3>2. /\ working[y].event \notin processed
          /\ \A z \in Loops : working[z] # Absent /\ working[z].event = working[y].event => z = y
      BY <2>1, <3>1 DEF ReportingInv, HeldOnce
    <3>3. working[y].event # e
      BY <2>2, <2>4, <3>1
    <3>4. QED
      BY <1>3, <3>1, <3>2, <3>3
  <2>5. QED
    BY <2>3, <2>4
<1>7. overlapped \subseteq overlapped'
  BY <1>2
<1>8. QED
  BY <1>2, <1>4, <1>5, <1>6, <1>7, NothingReported DEF ReportingInv

\* A loop reads on, with the same event in hand.
LEMMA ReadingKeeps ==
  ASSUME ReportingInv, NEW x \in Loops, working[x] # Absent, NEW h \in Handled,
         working' = [working EXCEPT ![x] = h],
         UNCHANGED <<tables, processed, overlapped, missed, shown>>,
         h.event = working[x].event, Sound(h)
  PROVE  ReportingInv'
<1> USE DEF tables
<1>1. h # Absent /\ working'[x] = h /\ \A y \in Loops : y # x => working'[y] = working[y]
  BY AbsentAssumption DEF ReportingInv, ReportingTypes
<1>2. ReportingTypes'
  BY DEF ReportingInv, ReportingTypes
<1>3. StepsAreSound'
  <2>1. \A k : Sound(k)' <=> Sound(k)
    BY DEF Sound, HasRow, Completion
  <2>2. QED
    BY <1>1, <2>1 DEF ReportingInv, StepsAreSound
<1>4. \A y \in Loops : /\ working'[y] # Absent <=> working[y] # Absent
                       /\ working'[y].event = working[y].event
  BY <1>1
<1>5. HeldOnce'
  BY <1>4 DEF ReportingInv, HeldOnce, Counted, Completion, Refunding
<1>6. QED
  BY <1>2, <1>3, <1>5, NothingReported DEF ReportingInv

LEMMA LookKeeps ==
  ASSUME ReportingInv, NEW x \in Loops, Look(x), UNCHANGED shown
  PROVE  ReportingInv'
<1> USE DEF tables
<1> DEFINE e    == working[x].event
           next == IF e.status # "COMPLETED" THEN "write" ELSE IF HasRow(e.order) THEN "complete" ELSE "select"
           h    == [working[x] EXCEPT !.found = HasRow(e.order), !.sold = Sold(e.day), !.step = next]
<1>1. working[x] # Absent /\ working' = [working EXCEPT ![x] = h]
  BY DEF Look, Ready
<1>2. working[x] \in Handled
  BY <1>1, HandIsReal
<1>3. HasRow(e.order) \in BOOLEAN /\ Sold(e.day) \in BOOLEAN
  BY DEF HasRow, Sold
<1>4. next \in {"look", "select", "complete", "write"}
  OBVIOUS
<1>5. h \in Handled /\ h.event = e /\ h.found = HasRow(e.order) /\ h.step = next
  <2> HIDE DEF next
  <2>1. QED
    BY <1>2, <1>3, <1>4 DEF Handled
<1>6. Sound(h)
  BY <1>5 DEF Sound, Completion
<1> HIDE DEF h
<1>7. QED
  BY <1>1, <1>5, <1>6, ReadingKeeps DEF Look

LEMMA SelectTotalKeeps ==
  ASSUME ReportingInv, NEW x \in Loops, SelectTotal(x), UNCHANGED shown
  PROVE  ReportingInv'
<1> USE DEF tables
<1> DEFINE o == working[x].event.order
           h == [working[x] EXCEPT !.step = IF HasRow(o) THEN "complete" ELSE "write",
                                   !.total = IF HasRow(o) THEN summary[o].total ELSE 0]
<1>1. working[x] # Absent /\ working[x].step = "select" /\ working' = [working EXCEPT ![x] = h]
  BY DEF SelectTotal, Ready
<1>2. working[x] \in Handled /\ o \in Orders
  BY <1>1, HandIsReal
<1>3. Completion(working[x].event) /\ ~ working[x].found
  BY <1>1 DEF ReportingInv, StepsAreSound, Sound
<1>4. (IF HasRow(o) THEN summary[o].total ELSE 0) \in Nat
  BY <1>2 DEF ReportingInv, ReportingTypes, HasRow, Rows
<1>5. /\ h \in Handled /\ h.event = working[x].event /\ h.found = working[x].found
      /\ h.step = IF HasRow(o) THEN "complete" ELSE "write"
  <2> HIDE DEF o
  <2>1. QED
    BY <1>2, <1>4 DEF Handled
<1>6. Sound(h)
  BY <1>3, <1>5 DEF Sound
<1> HIDE DEF h
<1>7. QED
  BY <1>1, <1>5, <1>6, ReadingKeeps DEF SelectTotal

LEMMA FailsKeeps ==
  ASSUME ReportingInv, NEW x \in Loops, Fails(x), UNCHANGED shown
  PROVE  ReportingInv'
<1> USE DEF tables
<1>1. working'[x] = Absent /\ \A y \in Loops : y # x => working'[y] = working[y]
  BY DEF Fails, ReportingInv, ReportingTypes
<1>2. ReportingTypes'
  BY DEF Fails, ReportingInv, ReportingTypes
<1>3. StepsAreSound'
  BY <1>1 DEF Fails, ReportingInv, StepsAreSound, Sound, HasRow, Completion
<1>4. HeldOnce'
  BY <1>1 DEF Fails, ReportingInv, HeldOnce, Counted, Completion, Refunding
<1>5. QED
  BY <1>2, <1>3, <1>4, NothingReported DEF Fails, ReportingInv

-----------------------------------------------------------------------------
\* What the transactions have in common: the event is marked and handed back,
\* and no row of an order is deleted.
LEMMA MarkKeeps ==
  ASSUME ReportingInv, NEW x \in Loops, working[x] # Absent, MarkProcessed(x),
         missed' \subseteq missed \cup {working[x].event},
         \A o \in Orders : HasRow(o) => HasRow(o)'
  PROVE  /\ processed' \subseteq ReportEvents /\ IsFiniteSet(processed')
         /\ working' \in [Loops -> Handled \cup {Absent}] /\ missed' \subseteq processed'
         /\ StepsAreSound' /\ HeldOnce'
<1> DEFINE e == working[x].event
<1>1. /\ processed' = processed \cup {e} /\ overlapped' = overlapped
      /\ working'[x] = Absent /\ \A y \in Loops : y # x => working'[y] = working[y]
  BY DEF MarkProcessed, ReportingInv, ReportingTypes
<1>2. IsFiniteSet(processed')
  BY <1>1, FS_AddElement DEF ReportingInv, ReportingTypes
<1>3. processed' \subseteq ReportEvents /\ missed' \subseteq processed'
  BY <1>1, HandIsReal DEF ReportingInv, ReportingTypes
<1>4. working' \in [Loops -> Handled \cup {Absent}]
  BY DEF MarkProcessed, ReportingInv, ReportingTypes
<1>5. StepsAreSound'
  <2> SUFFICES ASSUME NEW y \in Loops, working'[y] # Absent
               PROVE  Sound(working[y])'
    BY <1>1 DEF StepsAreSound
  <2>1. y # x /\ working'[y] = working[y] /\ working[y] # Absent
    BY <1>1
  <2>2. Sound(working[y]) /\ working[y].event.order \in Orders
    BY <2>1, HandIsReal DEF ReportingInv, StepsAreSound
  <2>3. QED
    BY <2>1, <2>2 DEF Sound, Completion
<1>6. HeldOnce'
  <2> SUFFICES ASSUME NEW y \in Loops, y # x, working[y] # Absent, Counted(working[y].event),
                      working[y].event \notin overlapped
               PROVE  /\ working[y].event \notin processed'
                      /\ \A z \in Loops : working'[z] # Absent /\ working'[z].event = working[y].event => z = y
    BY <1>1 DEF HeldOnce, Counted, Completion, Refunding
  <2>1. /\ working[y].event \notin processed
        /\ \A z \in Loops : working[z] # Absent /\ working[z].event = working[y].event => z = y
    BY DEF ReportingInv, HeldOnce
  <2>2. QED
    BY <1>1, <2>1
<1>7. QED
  BY <1>2, <1>3, <1>4, <1>5, <1>6

\* A row is inserted, or changed but for its day of completion.
LEMMA RowKeepsDay ==
  ASSUME ReportingTypes, NEW o \in Orders, NEW r \in Rows, summary' = [summary EXCEPT ![o] = r],
         r.completed = IF HasRow(o) THEN summary[o].completed ELSE Absent
  PROVE  /\ summary' \in [Orders -> Rows \cup {Absent}]
         /\ \A p \in Orders : HasRow(p) => HasRow(p)'
         /\ \A d \in Days : CompletedOn(d)' = CompletedOn(d)
<1>1. r # Absent /\ summary'[o] = r /\ \A p \in Orders : p # o => summary'[p] = summary[p]
  BY AbsentAssumption DEF ReportingTypes
<1>2. summary' \in [Orders -> Rows \cup {Absent}]
  BY DEF ReportingTypes
<1>3. \A p \in Orders : HasRow(p) => HasRow(p)'
  BY <1>1 DEF HasRow
<1>4. ASSUME NEW d \in Days, NEW p \in Orders
      PROVE  HasRow(p)' /\ summary'[p].completed = d <=> HasRow(p) /\ summary[p].completed = d
  BY <1>1, AbsentAssumption DEF HasRow
<1>5. \A d \in Days : CompletedOn(d)' = CompletedOn(d)
  BY <1>4 DEF CompletedOn
<1>6. QED
  BY <1>2, <1>3, <1>5

\* The reports of a day agree as before when no order is completed, and the sales
\* show no more refunded than the refunds have added.
LEMMA DaysStayAgreed ==
  ASSUME ReportingInv, UNCHANGED shown,
         sales' \in [Days -> [count : Nat, gross : Nat, refunded : Nat]],
         refunds' \in [Days -> [count : Nat, amount : Nat]],
         \A d \in Days :
           /\ CompletedOn(d)' = CompletedOn(d) /\ sales'[d].count = sales[d].count
           /\ refunds[d].amount <= refunds'[d].amount
           /\ sales'[d].refunded - sales[d].refunded <= refunds'[d].amount - refunds[d].amount
  PROVE  DaysAgree' /\ ReportsAgree'
<1> SUFFICES ASSUME NEW d \in Days
             PROVE  /\ IsFiniteSet(CompletedOn(d)) /\ Cardinality(CompletedOn(d)) <= sales[d].count
                    /\ sales'[d].refunded <= refunds'[d].amount
                    /\ shown.completed[d] <= sales[d].count
                    /\ shown.refunded[d] <= refunds'[d].amount
  BY DEF DaysAgree, ReportsAgree
<1>1. /\ sales[d].refunded \in Nat /\ sales'[d].refunded \in Nat
      /\ refunds[d].amount \in Nat /\ refunds'[d].amount \in Nat /\ shown.refunded[d] \in Nat
  BY DEF ReportingInv, ReportingTypes
<1>2. sales[d].refunded <= refunds[d].amount /\ shown.refunded[d] <= refunds[d].amount
  BY DEF ReportingInv, DaysAgree, ReportsAgree
<1>3. /\ refunds[d].amount <= refunds'[d].amount
      /\ sales'[d].refunded - sales[d].refunded <= refunds'[d].amount - refunds[d].amount
  OBVIOUS
<1>4. sales'[d].refunded <= refunds'[d].amount /\ shown.refunded[d] <= refunds'[d].amount
  BY <1>1, <1>2, <1>3
<1>5. QED
  BY <1>4 DEF ReportingInv, DaysAgree, ReportsAgree

\* A transaction that touches the row of the order, or nothing, but no total of a
\* day.
LEMMA MarkedRowKeeps ==
  ASSUME ReportingInv, NEW x \in Loops, working[x] # Absent, MarkProcessed(x), UNCHANGED <<sales, refunds, shown>>,
         missed' = missed \cup {c \in {working[x].event} : Counted(c)},
         \/ summary' = summary
         \/ \E o \in Orders, r \in Rows :
              /\ summary' = [summary EXCEPT ![o] = r]
              /\ r.completed = IF HasRow(o) THEN summary[o].completed ELSE Absent
  PROVE  ReportingInv'
<1>1. /\ summary' \in [Orders -> Rows \cup {Absent}]
      /\ \A p \in Orders : HasRow(p) => HasRow(p)'
      /\ \A d \in Days : CompletedOn(d)' = CompletedOn(d)
  <2>1. CASE summary' = summary
    BY <2>1 DEF ReportingInv, ReportingTypes, HasRow, CompletedOn
  <2>2. CASE summary' # summary
    BY <2>2, RowKeepsDay DEF ReportingInv
  <2>3. QED
    BY <2>1, <2>2
<1>2. ReportingTypes' /\ StepsAreSound' /\ HeldOnce'
  <2>1. missed' \subseteq missed \cup {working[x].event}
    OBVIOUS
  <2>2. QED
    BY <1>1, <2>1, MarkKeeps DEF ReportingInv, ReportingTypes
<1>3. ReportsAreExact'
  BY HandIsReal, MarkedStaysExact DEF ReportingInv, MarkProcessed
<1>4. DaysAgree' /\ ReportsAgree'
  <2>1. \A d \in Days : /\ refunds[d].amount <= refunds'[d].amount
                        /\ sales'[d].refunded - sales[d].refunded <= refunds'[d].amount - refunds[d].amount
    BY DEF ReportingInv, ReportingTypes
  <2>2. QED
    BY <1>1, <1>2, <2>1, DaysStayAgreed DEF ReportingTypes
<1>5. QED
  BY <1>2, <1>3, <1>4 DEF ReportingInv

LEMMA ProjectOrderCreatedKeeps ==
  ASSUME ReportingInv, NEW x \in Loops, ProjectOrderCreated(x), UNCHANGED shown
  PROVE  ReportingInv'
<1> DEFINE e == working[x].event
           r == [status |-> "CREATED", total |-> 0, completed |-> Absent]
<1>1. /\ working[x] # Absent /\ e.type = "order.created" /\ MarkProcessed(x)
      /\ summary' = (IF HasRow(e.order) THEN summary ELSE [summary EXCEPT ![e.order] = r])
      /\ UNCHANGED <<sales, refunds, missed, shown>>
  BY DEF ProjectOrderCreated, Writes, Ready
<1>2. e \in ReportEvents /\ e.order \in Orders
  BY <1>1, HandIsReal
<1>3. ~ Counted(e)
  BY <1>1, <1>2, EventsAssumption DEF Counted, Completion, Refunding
<1>4. r \in Rows /\ r.completed = Absent
  BY DEF Rows
<1> HIDE DEF r
<1>5. \/ summary' = summary
      \/ \E o \in Orders, s \in Rows :
           /\ summary' = [summary EXCEPT ![o] = s]
           /\ s.completed = IF HasRow(o) THEN summary[o].completed ELSE Absent
  BY <1>1, <1>2, <1>4
<1>6. missed' = missed \cup {c \in {e} : Counted(c)}
  BY <1>1, <1>3
<1>7. QED
  BY <1>1, <1>5, <1>6, MarkedRowKeeps

LEMMA ProjectOrderWeighedKeeps ==
  ASSUME ReportingInv, NEW x \in Loops, ProjectOrderWeighed(x), UNCHANGED shown
  PROVE  ReportingInv'
<1> DEFINE e == working[x].event
<1>1. /\ working[x] # Absent /\ e.type = "order.weighed" /\ MarkProcessed(x)
      /\ IF working[x].found
           THEN summary' = [summary EXCEPT ![e.order].total = e.amount] /\ UNCHANGED missed
           ELSE Missed(x) /\ UNCHANGED summary
      /\ UNCHANGED <<sales, refunds, shown>>
  BY DEF ProjectOrderWeighed, Writes, Ready
<1>2. e \in ReportEvents /\ e.order \in Orders /\ e.amount \in Nat
  BY <1>1, HandIsReal, EventsAssumption
<1>3. ~ Counted(e)
  BY <1>1, <1>2, EventsAssumption DEF Counted, Completion, Refunding
<1>4. CASE working[x].found
  <2> DEFINE r == [summary[e.order] EXCEPT !.total = e.amount]
  <2>1. summary[e.order] \in Rows
    BY <1>1, <1>2, <1>4 DEF ReportingInv, ReportingTypes, StepsAreSound, Sound, HasRow
  <2>2. r \in Rows /\ r.completed = summary[e.order].completed
    BY <1>2, <2>1 DEF Rows
  <2>3. summary' = [summary EXCEPT ![e.order] = r]
    BY <1>1, <1>4
  <2> HIDE DEF r
  <2>4. HasRow(e.order) /\ missed' = missed \cup {c \in {e} : Counted(c)}
    BY <1>1, <1>3, <1>4 DEF ReportingInv, StepsAreSound, Sound
  <2>5. QED
    BY <1>1, <1>2, <2>2, <2>3, <2>4, MarkedRowKeeps
<1>5. CASE ~ working[x].found
  <2>1. missed' = missed \cup {c \in {e} : Counted(c)} /\ summary' = summary
    BY <1>1, <1>5 DEF Missed
  <2>2. QED
    BY <1>1, <2>1, MarkedRowKeeps
<1>6. QED
  BY <1>4, <1>5

LEMMA ProjectOrderStatusKeeps ==
  ASSUME ReportingInv, NEW x \in Loops, ProjectOrderStatus(x), UNCHANGED shown
  PROVE  ReportingInv'
<1> DEFINE e == working[x].event
<1>1. /\ working[x] # Absent /\ working[x].step = "write"
      /\ e.type = "order.status_changed" /\ MarkProcessed(x)
      /\ IF working[x].found
           THEN summary' = [summary EXCEPT ![e.order].status = e.status] /\ UNCHANGED missed
           ELSE Missed(x) /\ UNCHANGED summary
      /\ UNCHANGED <<sales, refunds, shown>>
  BY DEF ProjectOrderStatus, Writes, Ready
<1>2. e \in ReportEvents /\ e.order \in Orders
  BY <1>1, HandIsReal
<1>3. CASE working[x].found
  <2> DEFINE r == [summary[e.order] EXCEPT !.status = e.status]
  <2>1. summary[e.order] \in Rows /\ ~ Counted(e)
    BY <1>1, <1>2, <1>3
    DEF ReportingInv, ReportingTypes, StepsAreSound, Sound, HasRow, Counted, Refunding
  <2>2. e.status \in {"CREATED"} \cup {c.status : c \in ReportEvents}
    BY <1>2
  <2>3. r \in Rows /\ r.completed = summary[e.order].completed
    BY <2>1, <2>2 DEF Rows
  <2>4. summary' = [summary EXCEPT ![e.order] = r]
    BY <1>1, <1>3
  <2> HIDE DEF r
  <2>5. HasRow(e.order) /\ missed' = missed \cup {c \in {e} : Counted(c)}
    BY <1>1, <1>3, <2>1 DEF ReportingInv, StepsAreSound, Sound
  <2>6. QED
    BY <1>1, <1>2, <2>3, <2>4, <2>5, MarkedRowKeeps
<1>4. CASE ~ working[x].found
  <2>1. missed' = missed \cup {c \in {e} : Counted(c)} /\ summary' = summary
    BY <1>1, <1>4 DEF Missed
  <2>2. QED
    BY <1>1, <2>1, MarkedRowKeeps
<1>5. QED
  BY <1>3, <1>4

LEMMA MarkOnlyKeeps ==
  ASSUME ReportingInv, NEW x \in Loops, MarkOnly(x), UNCHANGED shown
  PROVE  ReportingInv'
<1> DEFINE e == working[x].event
<1>1. /\ working[x] # Absent /\ e.type = "other" /\ MarkProcessed(x)
      /\ UNCHANGED <<summary, sales, refunds, missed, shown>>
  BY DEF MarkOnly, Writes, Ready, tables
<1>2. ~ Counted(e)
  BY <1>1, HandIsReal, EventsAssumption DEF Counted, Completion, Refunding
<1>3. missed' = missed \cup {c \in {e} : Counted(c)}
  BY <1>1, <1>2
<1>4. QED
  BY <1>1, <1>3, MarkedRowKeeps

LEMMA SaleAdded ==
  ASSUME NEW day \in [count : Nat, gross : Nat, refunded : Nat], NEW total \in Nat,
         NEW sold, sold = [day EXCEPT !.count = @ + 1, !.gross = @ + total]
  PROVE  /\ sold \in [count : Nat, gross : Nat, refunded : Nat]
         /\ sold.count = day.count + 1 /\ sold.refunded = day.refunded
<1>1. day.count + 1 \in Nat /\ day.gross + total \in Nat
  OBVIOUS
<1>2. sold = [count |-> day.count + 1, gross |-> day.gross + total, refunded |-> day.refunded]
  OBVIOUS
<1>3. QED
  BY <1>1, <1>2

LEMMA ProjectOrderCompletedKeeps ==
  ASSUME ReportingInv, NEW x \in Loops, ProjectOrderCompleted(x), UNCHANGED shown
  PROVE  ReportingInv'
<1> DEFINE e == working[x].event
           o == working[x].event.order
           s == IF working[x].found THEN e.status ELSE summary[o].status
           r == [summary[o] EXCEPT !.status = s, !.completed = e.day]
<1>1. /\ working[x] # Absent /\ working[x].step = "complete" /\ CompleteOrder(x)
      /\ sales' = [sales EXCEPT ![e.day].count = @ + 1, ![e.day].gross = @ + Total(x)]
      /\ MarkProcessed(x) /\ UNCHANGED <<refunds, missed, shown>>
  BY DEF ProjectOrderCompleted, Ready
<1>2. e \in ReportEvents /\ o \in Orders /\ e.day \in Days /\ Fresh(e) /\ working[x] \in Handled
  BY <1>1, HandIsReal
<1>3. Completion(e) /\ HasRow(o)
  BY <1>1 DEF ReportingInv, StepsAreSound, Sound
<1>4. summary[o] \in Rows
  BY <1>2, <1>3 DEF ReportingInv, ReportingTypes, HasRow
<1>5. r \in Rows /\ r.completed = e.day /\ r # Absent
  <2>1. s \in {"CREATED"} \cup {c.status : c \in ReportEvents}
    BY <1>2, <1>4 DEF Rows
  <2> HIDE DEF s
  <2>2. r \in Rows /\ r.completed = e.day
    BY <1>2, <1>4, <2>1 DEF Rows
  <2>3. QED
    BY <2>2, AbsentAssumption
<1>6. summary' = [summary EXCEPT ![o] = r]
  BY <1>1 DEF CompleteOrder
<1> HIDE DEF r
<1>7. summary' \in [Orders -> Rows \cup {Absent}] /\ summary'[o] = r /\ \A p \in Orders : p # o => summary'[p] = summary[p]
  BY <1>2, <1>5, <1>6 DEF ReportingInv, ReportingTypes
<1>8. \A p \in Orders : HasRow(p) => HasRow(p)'
  BY <1>5, <1>7 DEF HasRow
<1>9. Total(x) \in Nat
  BY <1>2, <1>4 DEF Total, Handled, Rows
<1>10. /\ sales' \in [Days -> [count : Nat, gross : Nat, refunded : Nat]]
       /\ \A d \in Days : /\ sales'[d].count = IF d = e.day THEN sales[d].count + 1 ELSE sales[d].count
                          /\ sales'[d].refunded = sales[d].refunded
  <2>1. sales \in [Days -> [count : Nat, gross : Nat, refunded : Nat]]
    BY DEF ReportingInv, ReportingTypes
  <2> DEFINE day == [sales[e.day] EXCEPT !.count = @ + 1, !.gross = @ + Total(x)]
  <2>2. sales[e.day] \in [count : Nat, gross : Nat, refunded : Nat]
    BY <1>2, <2>1
  <2>3. sales' = [sales EXCEPT ![e.day] = day]
    BY <1>1
  <2>4. /\ day \in [count : Nat, gross : Nat, refunded : Nat]
        /\ day.count = sales[e.day].count + 1 /\ day.refunded = sales[e.day].refunded
    BY <1>9, <2>2, SaleAdded
  <2> HIDE DEF day
  <2>5. QED
    BY <1>2, <2>1, <2>3, <2>4
<1>11. ReportingTypes' /\ StepsAreSound' /\ HeldOnce'
  <2>1. missed' \subseteq missed \cup {e}
    BY <1>1
  <2>2. QED
    BY <1>1, <1>7, <1>8, <1>10, <2>1, MarkKeeps DEF ReportingInv, ReportingTypes
<1>12. ReportsAreExact'
  BY <1>1, <1>2, <1>3, <1>10, CompletionStaysExact DEF ReportingInv, MarkProcessed
<1>13. ASSUME NEW d \in Days
       PROVE  IsFiniteSet(CompletedOn(d)') /\ Cardinality(CompletedOn(d)') <= sales'[d].count
  <2>1. IsFiniteSet(CompletedOn(d)) /\ Cardinality(CompletedOn(d)) <= sales[d].count /\ sales[d].count \in Nat
    BY DEF ReportingInv, DaysAgree, ReportingTypes
  <2>2. CASE d = e.day
    <3>1. CompletedOn(d)' \subseteq CompletedOn(d) \cup {o}
      BY <1>7 DEF CompletedOn, HasRow
    <3>2. IsFiniteSet(CompletedOn(d) \cup {o}) /\ Cardinality(CompletedOn(d) \cup {o}) <= sales[d].count + 1
      <4>1. IsFiniteSet(CompletedOn(d) \cup {o})
        BY <2>1, FS_AddElement
      <4>2. \/ Cardinality(CompletedOn(d) \cup {o}) = Cardinality(CompletedOn(d))
            \/ Cardinality(CompletedOn(d) \cup {o}) = Cardinality(CompletedOn(d)) + 1
        BY <2>1, FS_AddElement
      <4>3. Cardinality(CompletedOn(d)) \in Nat
        BY <2>1, FS_CardinalityType
      <4>4. QED
        BY <2>1, <4>1, <4>2, <4>3
    <3>3. IsFiniteSet(CompletedOn(d)') /\ Cardinality(CompletedOn(d)') <= Cardinality(CompletedOn(d) \cup {o})
      BY <3>1, <3>2, FS_Subset
    <3>4. Cardinality(CompletedOn(d)') \in Nat /\ Cardinality(CompletedOn(d) \cup {o}) \in Nat
      BY <3>2, <3>3, FS_CardinalityType
    <3>5. sales'[d].count = sales[d].count + 1
      BY <1>10, <2>2
    <3>6. QED
      BY <2>1, <3>2, <3>3, <3>4, <3>5
  <2>3. CASE d # e.day
    <3>1. CompletedOn(d)' \subseteq CompletedOn(d)
      BY <1>5, <1>7, <2>3 DEF CompletedOn, HasRow
    <3>2. IsFiniteSet(CompletedOn(d)') /\ Cardinality(CompletedOn(d)') <= Cardinality(CompletedOn(d))
      BY <2>1, <3>1, FS_Subset
    <3>3. Cardinality(CompletedOn(d)') \in Nat /\ Cardinality(CompletedOn(d)) \in Nat
      BY <2>1, <3>2, FS_CardinalityType
    <3>4. sales'[d].count = sales[d].count
      BY <1>10, <2>3
    <3>5. QED
      BY <2>1, <3>2, <3>3, <3>4
  <2>4. QED
    BY <2>2, <2>3
<1>14. DaysAgree'
  BY <1>1, <1>10, <1>13 DEF ReportingInv, DaysAgree
<1>15. ReportsAgree'
  <2> SUFFICES ASSUME NEW d \in Days
               PROVE  shown.completed[d] <= sales'[d].count /\ shown.refunded[d] <= refunds[d].amount
    BY <1>1 DEF ReportsAgree
  <2>1. shown.completed[d] <= sales[d].count /\ shown.completed[d] \in Nat /\ sales[d].count \in Nat
    BY DEF ReportingInv, ReportsAgree, ReportingTypes
  <2>2. sales'[d].count = sales[d].count \/ sales'[d].count = sales[d].count + 1
    BY <1>10
  <2>3. QED
    BY <2>1, <2>2 DEF ReportingInv, ReportsAgree
<1>16. QED
  BY <1>11, <1>12, <1>14, <1>15 DEF ReportingInv

LEMMA ProjectRefundKeeps ==
  ASSUME ReportingInv, NEW x \in Loops, ProjectRefund(x), UNCHANGED shown
  PROVE  ReportingInv'
<1> DEFINE e == working[x].event
<1>1. /\ working[x] # Absent /\ e.type = "payment.refunded" /\ MarkProcessed(x) /\ UNCHANGED <<summary, shown>>
      /\ IF working[x].found
           THEN /\ AddRefund(e)
                /\ \E met \in {working[x].sold, Sold(e.day)} :
                     sales' = IF met THEN [sales EXCEPT ![e.day].refunded = @ + e.amount] ELSE sales
                /\ UNCHANGED missed
           ELSE Missed(x) /\ UNCHANGED <<sales, refunds>>
  BY DEF ProjectRefund, Writes, Ready
<1>2. e \in ReportEvents /\ e.day \in Days /\ e.amount \in Nat /\ Fresh(e)
  BY <1>1, HandIsReal, EventsAssumption
<1>3. CASE ~ working[x].found
  <2>1. missed' = missed \cup {c \in {e} : Counted(c)} /\ UNCHANGED <<summary, sales, refunds>>
    BY <1>1, <1>3 DEF Missed
  <2>2. QED
    BY <1>1, <2>1, MarkedRowKeeps
<1>4. CASE working[x].found
  <2>1. /\ sales \in [Days -> [count : Nat, gross : Nat, refunded : Nat]]
        /\ refunds \in [Days -> [count : Nat, amount : Nat]]
    BY DEF ReportingInv, ReportingTypes
  <2>2. /\ refunds' \in [Days -> [count : Nat, amount : Nat]]
        /\ \A d \in Days : refunds'[d].amount = IF d = e.day THEN refunds[d].amount + e.amount ELSE refunds[d].amount
    <3> DEFINE day == [count |-> refunds[e.day].count + 1, amount |-> refunds[e.day].amount + e.amount]
    <3>1. day \in [count : Nat, amount : Nat] /\ day.amount = refunds[e.day].amount + e.amount
      BY <1>2, <2>1
    <3> DEFINE one == [refunds[e.day] EXCEPT !.count = @ + 1]
               counted == [refunds EXCEPT ![e.day] = one]
               both == [one EXCEPT !.amount = refunds[e.day].amount + e.amount]
    <3>2. both = day
      <4>1. refunds[e.day] \in [count : Nat, amount : Nat]
        BY <1>2, <2>1
      <4>2. ASSUME NEW r \in [count : Nat, amount : Nat], NEW a
            PROVE  [[r EXCEPT !.count = @ + 1] EXCEPT !.amount = r.amount + a]
                     = [count |-> r.count + 1, amount |-> r.amount + a]
        <5>1. r = [count |-> r.count, amount |-> r.amount]
          OBVIOUS
        <5>2. [r EXCEPT !.count = @ + 1] = [count |-> r.count + 1, amount |-> r.amount]
          BY <5>1
        <5>3. [[count |-> r.count + 1, amount |-> r.amount] EXCEPT !.amount = r.amount + a]
                = [count |-> r.count + 1, amount |-> r.amount + a]
          OBVIOUS
        <5>4. QED
          BY Zenon, <5>2, <5>3
      <4>3. QED
        BY <4>1, <4>2
    <3>3. counted[e.day] = one /\ DOMAIN counted = Days
      BY <1>2, <2>1
    <3>4. refunds' = [counted EXCEPT ![e.day] = both]
      BY <1>1, <1>4, <3>3 DEF AddRefund
    <3> HIDE DEF one, both
    <3>5. refunds' = [refunds EXCEPT ![e.day] = both]
      BY <3>3, <3>4, <2>1
    <3> HIDE DEF day, counted
    <3>6. QED
      BY <1>2, <2>1, <3>1, <3>2, <3>5
  <2>3. /\ sales' \in [Days -> [count : Nat, gross : Nat, refunded : Nat]]
        /\ \A d \in Days : /\ sales'[d].count = sales[d].count
                           /\ \/ sales'[d].refunded = sales[d].refunded
                              \/ d = e.day /\ sales'[d].refunded = sales[d].refunded + e.amount
    <3>1. CASE sales' = sales
      BY <2>1, <3>1
    <3>2. CASE sales' = [sales EXCEPT ![e.day].refunded = @ + e.amount]
      <4> DEFINE day == [sales[e.day] EXCEPT !.refunded = @ + e.amount]
      <4>1. sales[e.day] \in [count : Nat, gross : Nat, refunded : Nat]
        BY <1>2, <2>1
      <4>2. /\ day \in [count : Nat, gross : Nat, refunded : Nat]
            /\ day.count = sales[e.day].count /\ day.refunded = sales[e.day].refunded + e.amount
        BY <1>2, <4>1
      <4>3. sales' = [sales EXCEPT ![e.day] = day]
        BY <3>2
      <4> HIDE DEF day
      <4>4. QED
        BY <1>2, <2>1, <4>2, <4>3
    <3>3. QED
      BY <1>1, <1>4, <3>1, <3>2
  <2>4. UNCHANGED <<summary, missed>>
    BY <1>1, <1>4
  <2>5. ReportingTypes' /\ StepsAreSound' /\ HeldOnce'
    <3>1. missed' \subseteq missed \cup {e} /\ \A o \in Orders : HasRow(o) => HasRow(o)'
      BY <2>4 DEF HasRow
    <3>2. QED
      BY <1>1, <2>2, <2>3, <2>4, <3>1, MarkKeeps DEF ReportingInv, ReportingTypes
  <2>6. ReportsAreExact'
    <3>1. Refunding(e) /\ AddRefund(e)
      BY <1>1, <1>4 DEF Refunding
    <3>2. QED
      BY <1>1, <1>2, <2>3, <2>4, <3>1, RefundStaysExact DEF ReportingInv, MarkProcessed
  <2>7. ASSUME NEW d \in Days
        PROVE  /\ refunds[d].amount <= refunds'[d].amount
               /\ sales'[d].refunded - sales[d].refunded <= refunds'[d].amount - refunds[d].amount
    <3>1. refunds[d].amount \in Nat /\ sales[d].refunded \in Nat
      BY <2>1
    <3>2. QED
      BY <1>2, <2>2, <2>3, <3>1
  <2>8. \A d \in Days : CompletedOn(d)' = CompletedOn(d) /\ sales'[d].count = sales[d].count
    BY <2>3, <2>4 DEF CompletedOn, HasRow
  <2>9. DaysAgree' /\ ReportsAgree'
    BY <2>2, <2>3, <2>7, <2>8, DaysStayAgreed
  <2>10. QED
    BY <2>5, <2>6, <2>9 DEF ReportingInv
<1>5. QED
  BY <1>3, <1>4

-----------------------------------------------------------------------------
\* What a client is shown.
LEMMA ReportsKeep ==
  ASSUME ReportingInv, GetOrderSummaryReport \/ GetSalesReport,
         UNCHANGED <<tables, processed, working, overlapped, missed>>
  PROVE  ReportingInv'
<1> USE DEF tables
<1>1. shown \in [completed : [Days -> Nat], refunded : [Days -> Nat]]
  BY DEF ReportingInv, ReportingTypes
<1>2. ASSUME NEW d \in Days
      PROVE  /\ Cardinality(CompletedOn(d)) \in Nat /\ Cardinality(CompletedOn(d)) <= sales[d].count
             /\ sales[d].refunded \in Nat /\ sales[d].refunded <= refunds[d].amount
  BY FS_CardinalityType DEF ReportingInv, ReportingTypes, DaysAgree
<1> DEFINE completed == [d \in Days |-> Cardinality(CompletedOn(d))]
           refunded  == [d \in Days |-> sales[d].refunded]
<1>3. \/ shown' = [shown EXCEPT !.completed = completed]
      \/ shown' = [shown EXCEPT !.refunded = refunded]
  BY DEF GetOrderSummaryReport, GetSalesReport, CompletedOn
<1>4. completed \in [Days -> Nat] /\ refunded \in [Days -> Nat]
  BY <1>2
<1>5. \A d \in Days : completed[d] <= sales[d].count /\ refunded[d] <= refunds[d].amount
  BY <1>2
<1> HIDE DEF completed, refunded
<1>6. /\ shown' \in [completed : [Days -> Nat], refunded : [Days -> Nat]]
      /\ shown'.completed \in {shown.completed, completed} /\ shown'.refunded \in {shown.refunded, refunded}
  BY <1>1, <1>3, <1>4
<1>7. ReportingTypes' /\ ReportsAgree'
  BY <1>5, <1>6 DEF ReportingInv, ReportingTypes, ReportsAgree
<1>8. StepsAreSound' /\ HeldOnce' /\ ReportsAreExact' /\ DaysAgree'
  BY DEF ReportingInv, StepsAreSound, Sound, HeldOnce, Counted, Completion, Refunding, HasRow,
     ReportsAreExact, Completions, Refundings, DaysAgree, CompletedOn
<1>9. QED
  BY <1>7, <1>8 DEF ReportingInv

\* What the projections keep on every step: the loops' reads stay true of the rows
\* they are about, an event in hand of one loop was not counted, and the totals of
\* a day are those of the events and rows that it stands for.
LEMMA ReportingStepInv == ReportingInv /\ [ReportingNext]_reportingVars => ReportingInv'
<1> SUFFICES ASSUME ReportingInv, [ReportingNext]_reportingVars
             PROVE  ReportingInv'
  OBVIOUS
<1>1. ASSUME NEW x \in Loops, Consume(x), UNCHANGED shown
      PROVE  ReportingInv'
  <2>1. CASE \E e \in ReportEvents : Receive(x, e)
    BY <1>1, <2>1, ReceiveKeeps
  <2>2. CASE Look(x)
    BY <1>1, <2>2, LookKeeps
  <2>3. CASE SelectTotal(x)
    BY <1>1, <2>3, SelectTotalKeeps
  <2>4. CASE ProjectOrderCreated(x)
    BY <1>1, <2>4, ProjectOrderCreatedKeeps
  <2>5. CASE ProjectOrderWeighed(x)
    BY <1>1, <2>5, ProjectOrderWeighedKeeps
  <2>6. CASE ProjectOrderStatus(x)
    BY <1>1, <2>6, ProjectOrderStatusKeeps
  <2>7. CASE ProjectOrderCompleted(x)
    BY <1>1, <2>7, ProjectOrderCompletedKeeps
  <2>8. CASE ProjectRefund(x)
    BY <1>1, <2>8, ProjectRefundKeeps
  <2>9. CASE MarkOnly(x)
    BY <1>1, <2>9, MarkOnlyKeeps
  <2>10. CASE Fails(x)
    BY <1>1, <2>10, FailsKeeps
  <2>11. QED
    BY <1>1, <2>1, <2>2, <2>3, <2>4, <2>5, <2>6, <2>7, <2>8, <2>9, <2>10 DEF Consume, Project
<1>2. CASE UNCHANGED reportingVars
  <2>1. UNCHANGED <<tables, processed, working, overlapped, missed, shown>>
    BY <1>2 DEF reportingVars
  <2> USE <2>1 DEF tables
  <2>2. ReportingTypes'
    BY DEF ReportingInv, ReportingTypes
  <2>3. StepsAreSound'
    BY DEF ReportingInv, StepsAreSound, Sound, HasRow, Completion
  <2>4. HeldOnce'
    BY DEF ReportingInv, HeldOnce, Counted, Completion, Refunding
  <2>5. QED
    BY <2>2, <2>3, <2>4, NothingReported DEF ReportingInv
<1>3. QED
  BY <1>1, <1>2, ReportsKeep DEF ReportingNext

-----------------------------------------------------------------------------
(***************************************************************************)
(* The five together.                                                      *)
(***************************************************************************)

BackOfficeInv ==
  /\ LimitInv /\ CatalogueInv /\ StaffInv /\ AccessInv
  /\ ReportingInv
  /\ MigratorInv /\ StartupInv

LEMMA LimitIsStable == LimitInv /\ UNCHANGED limitVars => LimitInv'
  BY DEF LimitInv, LimitIsOfAWindow, limitVars

LEMMA CatalogueIsStable == CatalogueInv /\ UNCHANGED catalogueVars => CatalogueInv'
<1> SUFFICES ASSUME CatalogueInv, UNCHANGED catalogueVars
             PROVE  CatalogueInv'
  OBVIOUS
<1>1. UNCHANGED <<versions, setting, clock, late, together, last>>
  BY DEF catalogueVars
<1>2. CatalogueTypes' /\ PeriodsAreApart' /\ NeverUnset' /\ together' \subseteq SUBSET Setters
  BY <1>1 DEF CatalogueInv, CatalogueTypes, PeriodsAreApart, Before, NeverUnset, Active
<1>3. ASSUME NEW s \in Setters
      PROVE  RequestInv(s)' /\ \A t \in Setters : s # t => PairInv(s, t)'
  BY <1>1 DEF CatalogueInv, RequestInv, PairInv, Begun, IsDone, Closing, Active, Follows
<1>4. \A r \in versions' : RowInv(r)'
  BY <1>1 DEF CatalogueInv, RowInv, Made, IsDone
<1>5. \A k \in Settings : last'[k] \notin late' => \A r, q \in Active(k)' : r = q
  BY <1>1 DEF CatalogueInv, Active
<1>6. QED
  BY <1>1, <1>2, <1>3, <1>4, <1>5 DEF CatalogueInv

LEMMA StartupIsStable ==
  MigratorInv /\ StartupInv /\ UNCHANGED <<migratorVars, startupVars>> => MigratorInv' /\ StartupInv'
<1> SUFFICES ASSUME MigratorInv, StartupInv, UNCHANGED <<migratorVars, startupVars>>
             PROVE  MigratorInv' /\ StartupInv'
  OBVIOUS
<1>1. UNCHANGED <<applied, effect, runs, mixed, service, seeds, boot>>
  BY DEF migratorVars, startupVars
<1>2. MigratorInv'
  BY <1>1 DEF MigratorInv, RunTypes, SchemaIs, Prefix, UpInv, DownInv, Peers, Migrating
<1>3. KindsInv' /\ BootTypes' /\ (NoDown' <=> NoDown)
  BY <1>1 DEF StartupInv, KindsInv, Rec, BootTypes, NoDown
<1>4. HasRole' <=> HasRole
  BY <1>1 DEF HasRole
<1>5. HasPrice' <=> HasPrice
  BY <1>1 DEF HasPrice
<1>6. \A r \in Runs : RunsFrom(r) /\ BootInv(r) => RunsFrom(r)' /\ BootInv(r)'
  BY <1>1 DEF RunsFrom, BootInv, Versions
<1>7. QED
  BY <1>2, <1>3, <1>4, <1>5, <1>6 DEF StartupInv

LEMMA AccessIsStable == AccessInv /\ UNCHANGED <<staffVars, accessVars>> => AccessInv'
<1> SUFFICES ASSUME AccessInv, UNCHANGED <<staffVars, accessVars>>
             PROVE  AccessInv'
  OBVIOUS
<1>1. UNCHANGED <<members, signIn, since, torn>>
  BY DEF staffVars, accessVars
<1>2. QED
  BY <1>1 DEF AccessInv, SignInInv, Reading, IsAt, Unread, Covers

LEMMA ReportingIsStable == ReportingInv /\ UNCHANGED reportingVars => ReportingInv'
  BY ReportingStepInv

LEMMA BackOfficeInitInv == Init => BackOfficeInv
  BY LimitInitInv, CatalogueInitInv, MigratorInitInv, StartupInitInv, StaffInitInv, AccessInitInv, ReportingInitInv
  DEF Init, BackOfficeInv

LEMMA BackOfficeNextInv == BackOfficeInv /\ [Next]_vars => BackOfficeInv'
<1> SUFFICES ASSUME BackOfficeInv, [Next]_vars
             PROVE  BackOfficeInv'
  OBVIOUS
<1>1. CASE CatalogueStep
  BY <1>1, CatalogueNextInv, StaffIsStable, AccessIsStable, LimitIsStable, ReportingIsStable, StartupIsStable
  DEF CatalogueStep, BackOfficeInv
<1>2. CASE AccessStep
  BY <1>2, CatalogueIsStable, AccessNextInv, LimitIsStable, ReportingIsStable, StartupIsStable
  DEF AccessStep, BackOfficeInv
<1>3. CASE LimitStep
  BY <1>3, CatalogueIsStable, StaffIsStable, AccessIsStable, LimitNextInv, ReportingIsStable, StartupIsStable
  DEF LimitStep, BackOfficeInv
<1>4. CASE ReportingStep
  BY <1>4, CatalogueIsStable, StaffIsStable, AccessIsStable, LimitIsStable, ReportingStepInv, StartupIsStable
  DEF ReportingStep, BackOfficeInv
<1>5. CASE StartupStep
  BY <1>5, CatalogueIsStable, StaffIsStable, AccessIsStable, LimitIsStable, ReportingIsStable, StartupNextInv
  DEF StartupStep, BackOfficeInv
<1>6. CASE UNCHANGED vars
  BY <1>6, CatalogueIsStable, StaffIsStable, AccessIsStable, LimitIsStable, ReportingIsStable, StartupIsStable
  DEF vars, BackOfficeInv
<1>7. QED
  BY <1>1, <1>2, <1>3, <1>4, <1>5, <1>6 DEF Next

\* The invariant of the whole back office, in every state of every run.
THEOREM BackOfficeInvariant == Spec => []BackOfficeInv
  BY BackOfficeInitInv, BackOfficeNextInv, PTL DEF Spec

LEMMA OneActiveFromInv == CatalogueInv => OneActive
<1> SUFFICES ASSUME CatalogueInv, NEW k \in Settings, last[k] \notin late
             PROVE  Cardinality(Active(k)) <= 1
  BY DEF OneActive
<1>1. \A r, q \in Active(k) : r = q
  BY DEF CatalogueInv
<1>2. CASE Active(k) = {}
  BY <1>2, FS_EmptySet
<1>3. ASSUME NEW r \in Active(k)
      PROVE  Cardinality(Active(k)) <= 1
  <2>1. Active(k) = {r}
    BY <1>1, <1>3
  <2>2. Cardinality({r}) = 1
    BY FS_Singleton
  <2>3. QED
    BY <2>1, <2>2
<1>4. QED
  BY <1>2, <1>3

\* The count of a key lets no more requests through in a window than the limit,
\* however many gateways count, and a counter that nobody will end is one whose
\* EXPIRE was lost (PerIP).  Requests that are let through because Redis failed
\* are beside the count.
THEOREM WindowsAreLimited == Spec => []LimitIsOfAWindow
<1>1. BackOfficeInv => LimitIsOfAWindow
  BY DEF BackOfficeInv, LimitInv
<1>2. QED
  BY <1>1, BackOfficeInvariant, PTL

\* A setting that has had a version has an active one, whatever is being set
\* at once or has failed half way (CreatePricing, SetTaxRate).
THEOREM SettingsStaySet == Spec => []NeverUnset
<1>1. BackOfficeInv => NeverUnset
  BY DEF BackOfficeInv, CatalogueInv
<1>2. QED
  BY <1>1, BackOfficeInvariant, PTL

\* It has only one, unless the request that set it last was overtaken.
THEOREM ActiveIsUnique == Spec => []OneActive
<1>1. BackOfficeInv => OneActive
  BY OneActiveFromInv DEF BackOfficeInv
<1>2. QED
  BY <1>1, BackOfficeInvariant, PTL

\* The periods of two versions overlap only if two of the requests that set
\* and closed them were open at once.
THEOREM PeriodsStayApart == Spec => []PeriodsAreApart
<1>1. BackOfficeInv => PeriodsAreApart
  BY DEF BackOfficeInv, CatalogueInv
<1>2. QED
  BY <1>1, BackOfficeInvariant, PTL

\* A staff user has the roles and the outlets of the update that replaced
\* them last, unless it was overtaken by one that did not wait for the
\* account (UpdateUser).
THEOREM MembersStayOfOneUpdate == Spec => []MembersAreOfOneUpdate
<1>1. BackOfficeInv => MembersAreOfOneUpdate
  BY DEF BackOfficeInv, StaffInv
<1>2. QED
  BY <1>1, BackOfficeInvariant, PTL

\* A token is for a moment since the sign-in began at which its user had its roles
\* and could access its outlets, unless between the two reads an update gave him an
\* outlet and left him without a role that was read (StaffLogin, StaffRefresh).
THEOREM TokensGrantNoMore == Spec => []TokensGrantWhatWasHeld
<1>1. BackOfficeInv => TokensGrantWhatWasHeld
  BY ImpliesTokensGrantWhatWasHeld DEF BackOfficeInv
<1>2. QED
  BY <1>1, BackOfficeInvariant, PTL

\* The sales of a day count each completion once, and its refunds each refund and
\* its amount, whatever was delivered again or failed half way: all but those
\* projected before their order had a row, and those that two loops had in hand at
\* once (handleCoreEvent, handlePaymentEvent, markProcessed).
THEOREM ReportsStayExact == Spec => []ReportsAreExact
<1>1. BackOfficeInv => ReportsAreExact
  BY DEF BackOfficeInv, ReportingInv
<1>2. QED
  BY <1>1, BackOfficeInvariant, PTL

\* Whatever is projected between two reports, what the first shows as completed on
\* a day is in the sales of that day, and what the sales show as refunded is in
\* its refunds (GetOrderSummaryReport, GetSalesReport, GetRefundsReport).
THEOREM ReportsStayInAgreement == Spec => []ReportsAgree
<1>1. BackOfficeInv => ReportsAgree
  BY DEF BackOfficeInv, ReportingInv
<1>2. QED
  BY <1>1, BackOfficeInvariant, PTL

\* The migrations that are recorded are in effect, once, and without a gap,
\* whichever instances start at once and die (migrator.Up, migrator.Down).
THEOREM AppliedStaysInEffect == Spec => []AppliedIsInEffect
<1>1. BackOfficeInv => AppliedIsInEffect
  BY DEF BackOfficeInv, MigratorInv, SchemaIs, Prefix, AppliedIsInEffect
<1>2. QED
  BY <1>1, BackOfficeInvariant, PTL

\* An instance that serves finds what its service needs of a fresh database,
\* whichever others start at once and die.
THEOREM ServersAreBootstrapped == Spec => []ServesBootstrapped
<1>1. BackOfficeInv => ServesBootstrapped
  BY ImpliesServesBootstrapped DEF BackOfficeInv
<1>2. QED
  BY <1>1, BackOfficeInvariant, PTL
=============================================================================
