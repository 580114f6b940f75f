-------------------------- MODULE DbMigrationsProofs --------------------------
(***************************************************************************)
(* DbMigrations for any number of commands, files and statements: a batch  *)
(* lands whole, overlapping runs keep the filename order, and success      *)
(* means applied.                                                          *)
(***************************************************************************)
EXTENDS DbMigrations, SequenceTheorems, TLAPS

Step == Name \X Body \X Nat
Work == [rows : Seq(Migration), done : Seq(Step)]

RowOf(rows, m) == \E i \in DOMAIN rows : rows[i] = m

(* The steps of a batch succeed in order, and its transaction is open from BEGIN to COMMIT or ROLLBACK. *)
Conditions(r) ==
  /\ \A k \in r.ok : k < r.step
  /\ r.open <=> BeginStep \in r.ok /\ CommitStep(r.m) \notin r.ok /\ RollbackStep(r.m) \notin r.ok
  /\ \A k \in r.ok : k <= LastStep(r.m) => BeginStep \in r.ok

(* What an open transaction holds back: the statements so far, and with the row all of them. *)
HeldBack(r, d) ==
  /\ r.open /\ r.step <= LastStep(r.m) /\ r.step - 1 \in r.ok
       => r.work = [rows |-> d.rows, done |-> d.done \o Effects(r.m, r.step - 2)]
  /\ r.open /\ LastStep(r.m) \in r.ok
       => /\ r.work = [rows |-> Append(d.rows, r.m), done |-> d.done \o Effects(r.m, Statements[r.m.body])]
          /\ r.m.name \notin Recorded(d.rows)

BatchOK(r, d) ==
  /\ Conditions(r)
  /\ HeldBack(r, d)
  /\ CommitStep(r.m) \in r.ok => RowOf(d.rows, r.m)

BatchesOK == \A p \in Proc : Working(p) => BatchOK(req[p], db)

OneTransaction == \A p, q \in Proc : InTransaction(p) /\ InTransaction(q) => p = q

ServerTypeOK ==
  /\ db \in [table : BOOLEAN, rows : Seq(Migration), done : Seq(Step)]
  /\ req \in [Proc -> Request \cup [state : {"none", "well", "failed"}]]

ServerInv == ServerTypeOK /\ BatchesOK /\ OneTransaction

(* The migration of p lands, whole, with its row. *)
Landed(m) ==
  /\ m \in Migration
  /\ m.name \notin Recorded(db.rows)
  /\ db' = [db EXCEPT !.rows = Append(db.rows, m), !.done = db.done \o Effects(m, Statements[m.body])]

-------------------------------------------------------------------------------
LEMMA EffectsType ==
  ASSUME NEW m \in Migration, NEW k \in Nat
  PROVE  Effects(m, k) \in Seq(Step) /\ Len(Effects(m, k)) = k
  <1>1. \A i \in 1..k : <<m.name, m.body, i>> \in Step
    BY DEF Migration, Step
  <1>2. Effects(m, k) \in [1..k -> Step]
    BY <1>1 DEF Effects
  <1>3. Effects(m, k) \in Seq(Step)
    BY <1>2 DEF Seq
  <1> QED BY <1>2, <1>3, LenProperties

LEMMA EffectsNone ==
  ASSUME NEW m \in Migration, NEW s \in Seq(Step)
  PROVE  s \o Effects(m, 0) = s
  <1>1. Effects(m, 0) \in Seq(Step) /\ Len(Effects(m, 0)) = 0
    BY EffectsType
  <1>2. Effects(m, 0) = <<>>
    BY <1>1, EmptySeq
  <1> QED BY <1>2, ConcatEmptySeq

LEMMA EffectsGrow ==
  ASSUME NEW m \in Migration, NEW s \in Seq(Step), NEW k \in Nat
  PROVE  Append(s \o Effects(m, k), <<m.name, m.body, k + 1>>) = s \o Effects(m, k + 1)
  <1> DEFINE x == <<m.name, m.body, k + 1>>
             a == Append(s \o Effects(m, k), x)
             b == s \o Effects(m, k + 1)
  <1>1. x \in Step
    BY DEF Migration, Step
  <1>2. Effects(m, k) \in Seq(Step) /\ Len(Effects(m, k)) = k
    BY EffectsType
  <1>3. Effects(m, k + 1) \in Seq(Step) /\ Len(Effects(m, k + 1)) = k + 1
    BY EffectsType
  <1>4. s \o Effects(m, k) \in Seq(Step) /\ Len(s \o Effects(m, k)) = Len(s) + k
    BY <1>2, ConcatProperties
  <1>5. a \in Seq(Step) /\ Len(a) = Len(s) + k + 1
    BY <1>1, <1>4
  <1>6. b \in Seq(Step) /\ Len(b) = Len(s) + k + 1
    <2>1. Len(s) \in Nat BY LenProperties
    <2>2. b \in Seq(Step) /\ Len(b) = Len(s) + Len(Effects(m, k + 1)) BY <1>3, ConcatProperties
    <2> QED BY <2>1, <2>2, <1>3
  <1>7. ASSUME NEW i \in 1..Len(a) PROVE a[i] = b[i]
    <2>1. Len(s) \in Nat BY LenProperties
    <2>2. b[i] = IF i <= Len(s) THEN s[i] ELSE Effects(m, k + 1)[i - Len(s)]
      BY <1>3, <1>5, <2>1, ConcatProperties
    <2>3. CASE i = Len(s) + k + 1
      <3>1. a[i] = x BY <2>3, <1>1, <1>4
      <3>2. Effects(m, k + 1)[k + 1] = x BY DEF Effects
      <3>3. i - Len(s) = k + 1 /\ ~(i <= Len(s)) BY <2>1, <2>3
      <3> HIDE DEF a, b, x
      <3> QED BY <3>1, <3>2, <3>3, <2>2
    <2>4. CASE i <= Len(s) + k
      <3>1. a[i] = (s \o Effects(m, k))[i]
        <4> DEFINE t == s \o Effects(m, k)
        <4>1. i \in 1..Len(t) BY <2>4, <1>4, <2>1, <1>5
        <4> HIDE DEF t
        <4>2. t \in Seq(Step) BY <1>4 DEF t
        <4>3. Append(t, x)[i] = t[i] BY <4>1, <4>2, <1>1, AppendProperties
        <4> QED BY <4>3 DEF t
      <3>2. i \in 1..Len(s) + Len(Effects(m, k)) BY <2>4, <1>2, <1>5, <2>1
      <3>4. (s \o Effects(m, k))[i] = IF i <= Len(s) THEN s[i] ELSE Effects(m, k)[i - Len(s)]
        BY <3>2, <1>2, ConcatProperties
      <3>3. i > Len(s) => Effects(m, k)[i - Len(s)] = Effects(m, k + 1)[i - Len(s)]
        BY <2>4, <2>1 DEF Effects
      <3> HIDE DEF a, b
      <3> QED BY <3>1, <3>3, <3>4, <2>2, <2>1
    <2>5. i = Len(s) + k + 1 \/ i <= Len(s) + k
      <3> HIDE DEF a, b
      <3> QED BY <2>1, <1>5
    <2> QED BY <2>3, <2>4, <2>5
  <1> HIDE DEF a, b
  <1>8. a = b BY <1>5, <1>6, <1>7, SeqEqual
  <1> QED BY <1>8 DEF a, b

LEMMA RecordedAppend ==
  ASSUME NEW rows \in Seq(Migration), NEW m \in Migration
  PROVE  /\ Append(rows, m) \in Seq(Migration)
         /\ Recorded(Append(rows, m)) = Recorded(rows) \cup {m.name}
         /\ RowOf(Append(rows, m), m)
         /\ \A n : RowOf(rows, n) => RowOf(Append(rows, m), n)
  <1> DEFINE a == Append(rows, m)
  <1>1. a \in Seq(Migration) /\ Len(a) = Len(rows) + 1 /\ DOMAIN a = 1..Len(rows) + 1 /\ DOMAIN rows = 1..Len(rows) /\ Len(rows) \in Nat
    BY LenProperties
  <1>2. a[Len(rows) + 1] = m /\ \A i \in 1..Len(rows) : a[i] = rows[i]
    BY <1>1
  <1>3. Recorded(a) = Recorded(rows) \cup {m.name}
    BY <1>1, <1>2 DEF Recorded
  <1>4. RowOf(a, m) /\ \A n : RowOf(rows, n) => RowOf(a, n)
    BY <1>1, <1>2 DEF RowOf
  <1> QED BY <1>1, <1>3, <1>4

LEMMA RequestShape ==
  ASSUME ServerTypeOK, NEW p \in Proc, Working(p)
  PROVE  /\ req[p] \in Request
         /\ req[p].m \in Migration /\ req[p].step \in Nat \ {0} /\ req[p].ok \in SUBSET Nat
         /\ req[p].open \in BOOLEAN /\ req[p].work \in Work
         /\ req[p].m.name \in Name /\ req[p].m.body \in Body
         /\ Statements[req[p].m.body] \in Nat
         /\ LastStep(req[p].m) \in Nat /\ LastStep(req[p].m) >= 2
         /\ CommitStep(req[p].m) = LastStep(req[p].m) + 1
         /\ RollbackStep(req[p].m) = LastStep(req[p].m) + 2
  <1>1. req[p] \in Request
    BY DEF ServerTypeOK, Working
  <1>2. req[p].m \in Migration /\ req[p].step \in Nat \ {0} /\ req[p].ok \in SUBSET Nat
         /\ req[p].open \in BOOLEAN /\ req[p].work \in Work
    BY <1>1 DEF Request, Work, Step
  <1>3. req[p].m.name \in Name /\ req[p].m.body \in Body
    BY <1>2 DEF Migration
  <1>4. Statements[req[p].m.body] \in Nat
    BY <1>3, StatementsCounted
  <1> QED BY <1>1, <1>2, <1>3, <1>4 DEF LastStep, CommitStep, RollbackStep, BeginStep

(* The request of p moves on, and the rest of the server stays as it was but for a landing. *)
LEMMA Settled ==
  ASSUME ServerInv, NEW p \in Proc, Working(p), NEW r \in Request,
         req' = [req EXCEPT ![p] = r],
         db' = db \/ (InTransaction(p) /\ Landed(req[p].m)),
         BatchOK(r, db'),
         r.open => InTransaction(p) \/ LockFree(p)
  PROVE  ServerInv'
  <1>1. req' \in [Proc -> Request \cup [state : {"none", "well", "failed"}]]
    BY DEF ServerInv, ServerTypeOK
  <1>2. db' \in [table : BOOLEAN, rows : Seq(Migration), done : Seq(Step)]
    <2>1. CASE db' = db BY <2>1 DEF ServerInv, ServerTypeOK
    <2>2. CASE InTransaction(p) /\ Landed(req[p].m)
      <3> DEFINE m == req[p].m
      <3>1. m \in Migration /\ db.rows \in Seq(Migration) /\ db.done \in Seq(Step) /\ Statements[m.body] \in Nat
        BY RequestShape DEF ServerInv, ServerTypeOK
      <3>2. Append(db.rows, m) \in Seq(Migration) BY <3>1
      <3>3. Effects(m, Statements[m.body]) \in Seq(Step) BY <3>1, EffectsType
      <3>4. db.done \o Effects(m, Statements[m.body]) \in Seq(Step)
        <4> HIDE DEF m
        <4> QED BY <3>1, <3>3, ConcatProperties
      <3> QED BY <2>2, <3>2, <3>4 DEF Landed, ServerInv, ServerTypeOK
    <2> QED BY <2>1, <2>2
  <1>3. ASSUME NEW q \in Proc, (Working(q))' PROVE BatchOK(req'[q], db')
    <2>1. CASE q = p
      BY <2>1 DEF ServerInv, ServerTypeOK
    <2>2. CASE q # p
      <3>1. req'[q] = req[q] /\ Working(q) /\ BatchOK(req[q], db)
        BY <1>3, <2>2 DEF ServerInv, ServerTypeOK, BatchesOK, Working
      <3>2. CASE db' = db BY <3>1, <3>2
      <3>3. CASE InTransaction(p) /\ Landed(req[p].m)
        <4>1. ~req[q].open BY <3>1, <3>3, <2>2 DEF ServerInv, OneTransaction, InTransaction
        <4>2. db'.rows = Append(db.rows, req[p].m) BY <3>3 DEF Landed, ServerInv, ServerTypeOK
        <4>3. \A n : RowOf(db.rows, n) => RowOf(db'.rows, n)
          BY <4>2, RequestShape, RecordedAppend DEF ServerInv, ServerTypeOK
        <4> QED BY <3>1, <4>1, <4>3 DEF BatchOK, HeldBack
      <3> QED BY <3>2, <3>3
    <2> QED BY <2>1, <2>2
  <1>4. OneTransaction'
    <2> SUFFICES ASSUME NEW a \in Proc, NEW b \in Proc, InTransaction(a)', InTransaction(b)' PROVE a = b
      BY DEF OneTransaction
    <2>1. \A q \in Proc : InTransaction(q)' => InTransaction(q) \/ (q = p /\ LockFree(p))
      BY DEF ServerInv, ServerTypeOK, InTransaction, Working
    <2>2. LockFree(p) => \A q \in Proc \ {p} : ~InTransaction(q) BY DEF LockFree
    <2> QED BY <2>1, <2>2 DEF ServerInv, OneTransaction
  <1> QED BY <1>1, <1>2, <1>3, <1>4 DEF ServerInv, ServerTypeOK, BatchesOK

LEMMA DueIsOpen ==
  ASSUME ServerInv, NEW p \in Proc, Working(p), Due(req[p]), req[p].step > BeginStep, req[p].step <= CommitStep(req[p].m)
  PROVE  req[p].open /\ req[p].step - 1 \in req[p].ok
  <1> DEFINE r == req[p]
             last == LastStep(r.m)
  <1>1. r.step \in Nat /\ last \in Nat /\ CommitStep(r.m) = last + 1 /\ RollbackStep(r.m) = last + 2
    BY RequestShape DEF ServerInv
  <1>2. Conditions(r) BY DEF ServerInv, BatchesOK, BatchOK
  <1>3. r.step - 1 \in r.ok
    BY <1>1 DEF Due, BeginStep
  <1>4. BeginStep \in r.ok
    BY <1>1, <1>2, <1>3 DEF Conditions
  <1>5. CommitStep(r.m) \notin r.ok /\ RollbackStep(r.m) \notin r.ok
    BY <1>1, <1>2 DEF Conditions
  <1> QED BY <1>2, <1>3, <1>4, <1>5 DEF Conditions

LEMMA SteppedType ==
  ASSUME NEW r \in Request, NEW well \in BOOLEAN
  PROVE  /\ Stepped(r, well) \in Request
         /\ Stepped(r, well).step = r.step + 1
         /\ Stepped(r, well).ok = IF well THEN r.ok \cup {r.step} ELSE r.ok
         /\ Stepped(r, well).m = r.m /\ Stepped(r, well).open = r.open /\ Stepped(r, well).work = r.work
  <1> DEFINE n == r.step + 1
             done == IF well THEN r.ok \cup {r.step} ELSE r.ok
  <1>1. n \in Nat \ {0} /\ done \in SUBSET Nat
    <2>1. r.step \in Nat \ {0} /\ r.ok \in SUBSET Nat BY DEF Request
    <2> QED BY <2>1
  <1>2. Stepped(r, well) = [r EXCEPT !.step = n, !.ok = done]
    BY DEF Stepped
  <1> HIDE DEF n, done
  <1>3. [r EXCEPT !.step = n, !.ok = done] \in Request BY <1>1 DEF Request
  <1>4. /\ [r EXCEPT !.step = n, !.ok = done].step = n /\ [r EXCEPT !.step = n, !.ok = done].ok = done
        /\ [r EXCEPT !.step = n, !.ok = done].m = r.m /\ [r EXCEPT !.step = n, !.ok = done].open = r.open
        /\ [r EXCEPT !.step = n, !.ok = done].work = r.work
    BY DEF Request
  <1> QED BY <1>2, <1>3, <1>4 DEF n, done

LEMMA Opened ==
  ASSUME NEW r \in Request, NEW w \in Work
  PROVE  LET t == [r EXCEPT !.open = TRUE, !.work = w] IN
         t \in Request /\ t.step = r.step /\ t.ok = r.ok /\ t.m = r.m /\ t.open /\ t.work = w
  BY DEF Request, Work, Step

LEMMA Filled ==
  ASSUME NEW r \in Request, NEW w \in Work
  PROVE  LET t == [r EXCEPT !.work = w] IN
         t \in Request /\ t.step = r.step /\ t.ok = r.ok /\ t.m = r.m /\ t.open = r.open /\ t.work = w
  BY DEF Request, Work, Step

LEMMA Closed ==
  ASSUME NEW r \in Request
  PROVE  LET t == [r EXCEPT !.open = FALSE] IN
         t \in Request /\ t.step = r.step /\ t.ok = r.ok /\ t.m = r.m /\ ~t.open /\ t.work = r.work
  BY DEF Request

(* A step that did not succeed. *)
LEMMA MissKeeps ==
  ASSUME ServerInv, NEW p \in Proc, Working(p), req' = [req EXCEPT ![p] = Stepped(req[p], FALSE)], db' = db
  PROVE  ServerInv'
  <1> DEFINE r == req[p]
             t == Stepped(r, FALSE)
  <1>1. r \in Request /\ r.step \in Nat /\ r.ok \subseteq Nat
    BY RequestShape DEF ServerInv
  <1>2. t \in Request /\ t.step = r.step + 1 /\ t.ok = r.ok /\ t.m = r.m /\ t.open = r.open /\ t.work = r.work
    BY <1>1, SteppedType
  <1>3. BatchOK(r, db) BY DEF ServerInv, BatchesOK
  <1> HIDE DEF t
  <1>4. Conditions(t) BY <1>1, <1>2, <1>3 DEF BatchOK, Conditions
  <1>5. t.step - 1 \notin t.ok BY <1>1, <1>2, <1>3 DEF BatchOK, Conditions
  <1>6. HeldBack(t, db) BY <1>2, <1>3, <1>5 DEF BatchOK, HeldBack
  <1>7. BatchOK(t, db) BY <1>2, <1>3, <1>4, <1>6 DEF BatchOK
  <1>8. t.open => InTransaction(p) BY <1>2 DEF InTransaction
  <1> QED BY <1>2, <1>7, <1>8, Settled DEF t

LEMMA BeginKeeps ==
  ASSUME ServerInv, NEW p \in Proc, Begin(p)
  PROVE  ServerInv' /\ db' = db
  <1> DEFINE r == req[p]
             t == [Stepped(r, TRUE) EXCEPT !.open = TRUE, !.work = Committed]
  <1>1. Working(p) /\ r.step = BeginStep /\ LockFree(p) /\ db' = db /\ req' = [req EXCEPT ![p] = t]
    BY DEF Begin
  <1>2. r \in Request /\ r.ok \subseteq Nat /\ r.m \in Migration /\ LastStep(r.m) \in Nat /\ LastStep(r.m) >= 2
        /\ CommitStep(r.m) = LastStep(r.m) + 1 /\ RollbackStep(r.m) = LastStep(r.m) + 2
    BY <1>1, RequestShape DEF ServerInv
  <1>3. db.rows \in Seq(Migration) /\ db.done \in Seq(Step) BY DEF ServerInv, ServerTypeOK
  <1>4. Conditions(r) BY <1>1 DEF ServerInv, BatchesOK, BatchOK
  <1>5. r.ok = {} BY <1>1, <1>2, <1>4 DEF Conditions, BeginStep
  <1>6. t \in Request /\ t.step = 2 /\ t.ok = {1} /\ t.m = r.m /\ t.open /\ t.work = Committed
    <2>1. Stepped(r, TRUE) \in Request /\ Stepped(r, TRUE).step = 2 /\ Stepped(r, TRUE).ok = {1} /\ Stepped(r, TRUE).m = r.m
      <3>1. Stepped(r, TRUE) \in Request /\ Stepped(r, TRUE).step = r.step + 1
            /\ Stepped(r, TRUE).ok = r.ok \cup {r.step} /\ Stepped(r, TRUE).m = r.m
        BY <1>2, SteppedType
      <3>2. r.step = 1 BY <1>1 DEF BeginStep
      <3>3. r.ok \cup {r.step} = {1} BY <3>2, <1>5
      <3>4. r.step + 1 = 2 BY <3>2
      <3> QED BY <3>1, <3>3, <3>4, Zenon
    <2>2. Committed \in Work BY <1>3 DEF Committed, Work
    <2> DEFINE u == Stepped(r, TRUE)
    <2>3. u \in Request /\ u.step = 2 /\ u.ok = {1} /\ u.m = r.m BY <2>1
    <2> HIDE DEF u
    <2>4. LET v == [u EXCEPT !.open = TRUE, !.work = Committed] IN
          v \in Request /\ v.step = u.step /\ v.ok = u.ok /\ v.m = u.m /\ v.open /\ v.work = Committed
      BY <2>2, <2>3, Opened
    <2>5. t = [u EXCEPT !.open = TRUE, !.work = Committed] BY DEF u
    <2> HIDE DEF r, t
    <2> QED BY <2>3, <2>4, <2>5
  <1> HIDE DEF t
  <1>7. Conditions(t) BY <1>2, <1>6 DEF Conditions, BeginStep
  <1>8. HeldBack(t, db)
    <2>1. db.done \o Effects(r.m, t.step - 2) = db.done
      <3>1. t.step - 2 = 0 BY <1>6
      <3>2. db.done \o Effects(r.m, 0) = db.done BY <1>2, <1>3, EffectsNone
      <3> QED BY <3>1, <3>2
    <2>2. LastStep(t.m) \notin t.ok BY <1>2, <1>6
    <2> QED BY <2>1, <2>2, <1>6 DEF HeldBack, Committed
  <1>9. BatchOK(t, db)
    <2>1. CommitStep(t.m) \notin t.ok BY <1>2, <1>6
    <2> QED BY <2>1, <1>7, <1>8 DEF BatchOK
  <1> QED BY <1>1, <1>6, <1>9, Settled

LEMMA StatementKeeps ==
  ASSUME ServerInv, NEW p \in Proc, Statement(p)
  PROVE  ServerInv' /\ db' = db
  <1> DEFINE r == req[p]
             m == r.m
             x == <<m.name, m.body, r.step - BeginStep>>
             change == [Base(p) EXCEPT !.done = Append(@, x)]
             t == [Stepped(r, TRUE) EXCEPT !.work = change]
  <1>1. Working(p) /\ Due(r) /\ r.step \in BeginStep + 1 .. LastStep(m) - 1 /\ Write(p, change)
    BY DEF Statement
  <1>2. r \in Request /\ r.ok \subseteq Nat /\ m \in Migration /\ LastStep(m) \in Nat /\ LastStep(m) >= 2
        /\ r.step \in Nat /\ r.work \in Work /\ m.name \in Name /\ m.body \in Body
        /\ CommitStep(m) = LastStep(m) + 1 /\ RollbackStep(m) = LastStep(m) + 2
    BY <1>1, RequestShape DEF ServerInv
  <1>3. db.rows \in Seq(Migration) /\ db.done \in Seq(Step) BY DEF ServerInv, ServerTypeOK
  <1>4. BatchOK(r, db) BY <1>1 DEF ServerInv, BatchesOK
  <1>5. r.open /\ r.step - 1 \in r.ok
    BY <1>1, <1>2, DueIsOpen DEF BeginStep
  <1>6. db' = db /\ req' = [req EXCEPT ![p] = t]
    BY <1>1, <1>5 DEF Write
  <1>7. r.work = [rows |-> db.rows, done |-> db.done \o Effects(m, r.step - 2)]
    BY <1>1, <1>2, <1>4, <1>5 DEF BatchOK, HeldBack
  <1>8. change = [rows |-> db.rows, done |-> Append(db.done \o Effects(m, r.step - 2), x)]
    <2>1. Base(p) = r.work BY <1>5 DEF Base
    <2> DEFINE d == db.done \o Effects(m, r.step - 2)
    <2>2. Base(p) = [rows |-> db.rows, done |-> d] BY <1>7, <2>1
    <2> HIDE DEF d, x
    <2>3. [Base(p) EXCEPT !.done = Append(@, x)] = [rows |-> db.rows, done |-> Append(d, x)] BY <2>2
    <2> QED BY <2>3 DEF d
  <1>9. change = [rows |-> db.rows, done |-> db.done \o Effects(m, r.step - 1)]
    <2>1. r.step - 2 \in Nat /\ (r.step - 2) + 1 = r.step - 1 /\ r.step - BeginStep = r.step - 1
      BY <1>1, <1>2 DEF BeginStep
    <2>2. Append(db.done \o Effects(m, r.step - 2), <<m.name, m.body, (r.step - 2) + 1>>) = db.done \o Effects(m, (r.step - 2) + 1)
      <3> HIDE DEF m
      <3> QED BY <2>1, <1>2, <1>3, EffectsGrow
    <2> QED BY <1>8, <2>1, <2>2
  <1>10. change \in Work
    <2>1. r.step - 1 \in Nat BY <1>1, <1>2 DEF BeginStep
    <2>2. Effects(m, r.step - 1) \in Seq(Step) BY <2>1, <1>2, EffectsType
    <2>3. db.done \o Effects(m, r.step - 1) \in Seq(Step) BY <2>2, <1>3, ConcatProperties
    <2> QED BY <2>3, <1>3, <1>9 DEF Work
  <1> HIDE DEF change
  <1>11. t \in Request /\ t.step = r.step + 1 /\ t.ok = r.ok \cup {r.step} /\ t.m = m /\ t.open = r.open /\ t.work = change
    <2>1. Stepped(r, TRUE) \in Request /\ Stepped(r, TRUE).step = r.step + 1 /\ Stepped(r, TRUE).ok = r.ok \cup {r.step}
          /\ Stepped(r, TRUE).m = m /\ Stepped(r, TRUE).open = r.open
      BY <1>2, SteppedType
    <2> DEFINE u == Stepped(r, TRUE)
    <2>2. u \in Request /\ u.step = r.step + 1 /\ u.ok = r.ok \cup {r.step} /\ u.m = m /\ u.open = r.open BY <2>1
    <2> HIDE DEF u
    <2>3. LET v == [u EXCEPT !.work = change] IN
          v \in Request /\ v.step = u.step /\ v.ok = u.ok /\ v.m = u.m /\ v.open = u.open /\ v.work = change
      BY <2>2, <1>10, Filled
    <2>4. t = [u EXCEPT !.work = change] BY DEF u
    <2> HIDE DEF r, t, m
    <2> QED BY <2>2, <2>3, <2>4
  <1> HIDE DEF t
  <1>12. Conditions(t)
    <2>1. r.step < CommitStep(m) /\ r.step < RollbackStep(m) /\ r.step # BeginStep BY <1>1, <1>2 DEF BeginStep
    <2>2. BeginStep \in r.ok BY <1>4, <1>5 DEF BatchOK, Conditions
    <2> HIDE DEF r
    <2> QED BY <1>2, <1>4, <1>11, <2>1, <2>2 DEF BatchOK, Conditions
  <1>13. HeldBack(t, db)
    <2>1. t.step - 2 = r.step - 1 BY <1>2, <1>11
    <2>2. LastStep(m) \notin t.ok BY <1>1, <1>2, <1>4, <1>11 DEF BatchOK, Conditions, BeginStep
    <2> QED BY <2>1, <2>2, <1>9, <1>11 DEF HeldBack
  <1>14. BatchOK(t, db)
    <2>1. CommitStep(m) \notin t.ok BY <1>1, <1>2, <1>4, <1>11 DEF BatchOK, Conditions, BeginStep
    <2> QED BY <2>1, <1>11, <1>12, <1>13 DEF BatchOK
  <1>15. InTransaction(p) BY <1>1, <1>5 DEF InTransaction
  <1> QED BY <1>1, <1>6, <1>11, <1>14, <1>15, Settled

LEMMA InsertKeeps ==
  ASSUME ServerInv, NEW p \in Proc, InsertRow(p)
  PROVE  ServerInv' /\ db' = db
  <1> DEFINE r == req[p]
             m == r.m
             change == [Base(p) EXCEPT !.rows = Append(@, m)]
             t == [Stepped(r, TRUE) EXCEPT !.work = change]
  <1>1. Working(p) /\ Due(r) /\ r.step = LastStep(m) /\ m.name \notin Recorded(Base(p).rows) /\ Write(p, change)
    BY DEF InsertRow
  <1>2. r \in Request /\ r.ok \subseteq Nat /\ m \in Migration /\ LastStep(m) \in Nat /\ LastStep(m) >= 2
        /\ r.step \in Nat /\ m.body \in Body /\ Statements[m.body] \in Nat
        /\ CommitStep(m) = LastStep(m) + 1 /\ RollbackStep(m) = LastStep(m) + 2
    BY <1>1, RequestShape DEF ServerInv
  <1>3. db.rows \in Seq(Migration) /\ db.done \in Seq(Step) BY DEF ServerInv, ServerTypeOK
  <1>4. BatchOK(r, db) BY <1>1 DEF ServerInv, BatchesOK
  <1>5. r.open /\ r.step - 1 \in r.ok
    BY <1>1, <1>2, DueIsOpen DEF BeginStep
  <1>6. db' = db /\ req' = [req EXCEPT ![p] = t]
    BY <1>1, <1>5 DEF Write
  <1> DEFINE d == db.done \o Effects(m, Statements[m.body])
  <1>7. Base(p) = [rows |-> db.rows, done |-> d]
    <2>1. r.step - 2 = Statements[m.body] BY <1>1, <1>2 DEF LastStep, BeginStep
    <2>2. r.work = [rows |-> db.rows, done |-> db.done \o Effects(m, r.step - 2)]
      BY <1>1, <1>2, <1>4, <1>5 DEF BatchOK, HeldBack
    <2>3. Base(p) = r.work BY <1>5 DEF Base
    <2> QED BY <2>1, <2>2, <2>3
  <1>8. d \in Seq(Step)
    <2>1. Effects(m, Statements[m.body]) \in Seq(Step) BY <1>2, EffectsType
    <2> QED BY <2>1, <1>3, ConcatProperties
  <1> HIDE DEF d
  <1>9. change = [rows |-> Append(db.rows, m), done |-> d] /\ m.name \notin Recorded(db.rows)
    <2>1. [Base(p) EXCEPT !.rows = Append(@, m)] = [rows |-> Append(db.rows, m), done |-> d] BY <1>7
    <2>2. Base(p).rows = db.rows BY <1>7
    <2> QED BY <1>1, <2>1, <2>2
  <1>10. change \in Work
    <2>1. Append(db.rows, m) \in Seq(Migration) BY <1>2, <1>3
    <2> QED BY <2>1, <1>8, <1>9 DEF Work
  <1> HIDE DEF change
  <1>11. t \in Request /\ t.step = r.step + 1 /\ t.ok = r.ok \cup {r.step} /\ t.m = m /\ t.open = r.open /\ t.work = change
    <2> DEFINE u == Stepped(r, TRUE)
    <2>2. u \in Request /\ u.step = r.step + 1 /\ u.ok = r.ok \cup {r.step} /\ u.m = m /\ u.open = r.open
      BY <1>2, SteppedType
    <2> HIDE DEF u
    <2>3. LET v == [u EXCEPT !.work = change] IN
          v \in Request /\ v.step = u.step /\ v.ok = u.ok /\ v.m = u.m /\ v.open = u.open /\ v.work = change
      BY <2>2, <1>10, Filled
    <2>4. t = [u EXCEPT !.work = change] BY DEF u
    <2> HIDE DEF r, t, m
    <2> QED BY <2>2, <2>3, <2>4
  <1> HIDE DEF t
  <1>12. Conditions(t)
    <2>1. r.step < CommitStep(m) /\ r.step < RollbackStep(m) /\ r.step # BeginStep BY <1>1, <1>2 DEF BeginStep
    <2>2. BeginStep \in r.ok BY <1>4, <1>5 DEF BatchOK, Conditions
    <2> HIDE DEF r
    <2> QED BY <1>2, <1>4, <1>11, <2>1, <2>2 DEF BatchOK, Conditions
  <1>13. HeldBack(t, db)
    <2>1. t.step > LastStep(m) BY <1>1, <1>2, <1>11
    <2>2. t.step - 1 = LastStep(m) BY <1>1, <1>2, <1>11
    <2> QED BY <1>2, <2>1, <1>9, <1>11 DEF HeldBack, d
  <1>14. BatchOK(t, db)
    <2>1. CommitStep(m) \notin t.ok BY <1>1, <1>2, <1>4, <1>11 DEF BatchOK, Conditions, BeginStep
    <2> QED BY <2>1, <1>11, <1>12, <1>13 DEF BatchOK
  <1>15. InTransaction(p) BY <1>1, <1>5 DEF InTransaction
  <1> QED BY <1>1, <1>6, <1>11, <1>14, <1>15, Settled

LEMMA CommitKeeps ==
  ASSUME ServerInv, NEW p \in Proc, Commit(p)
  PROVE  ServerInv' /\ Working(p) /\ Landed(req[p].m) /\ db'.table = db.table
  <1> DEFINE r == req[p]
             m == r.m
             t == [Stepped(r, TRUE) EXCEPT !.open = FALSE]
             d == db.done \o Effects(m, Statements[m.body])
  <1>1. Working(p) /\ Due(r) /\ r.step = CommitStep(m) /\ r.open
        /\ req' = [req EXCEPT ![p] = t] /\ db' = [db EXCEPT !.rows = r.work.rows, !.done = r.work.done]
    BY DEF Commit
  <1>2. r \in Request /\ r.ok \subseteq Nat /\ m \in Migration /\ LastStep(m) \in Nat /\ LastStep(m) >= 2 /\ r.step \in Nat
        /\ CommitStep(m) = LastStep(m) + 1 /\ RollbackStep(m) = LastStep(m) + 2
    BY <1>1, RequestShape DEF ServerInv
  <1>3. db.rows \in Seq(Migration) BY DEF ServerInv, ServerTypeOK
  <1>4. BatchOK(r, db) BY <1>1 DEF ServerInv, BatchesOK
  <1>5. LastStep(m) \in r.ok
    <2>1. r.step - 1 \in r.ok BY <1>1, <1>2, DueIsOpen DEF BeginStep
    <2> QED BY <1>1, <1>2, <2>1
  <1>6. r.work = [rows |-> Append(db.rows, m), done |-> d] /\ m.name \notin Recorded(db.rows)
    BY <1>1, <1>4, <1>5 DEF BatchOK, HeldBack
  <1>7. Landed(m) /\ db'.table = db.table
    <2> HIDE DEF m, d
    <2>1. db' = [db EXCEPT !.rows = Append(db.rows, m), !.done = d] BY <1>1, <1>6
    <2>2. db'.table = db.table BY <2>1 DEF ServerInv, ServerTypeOK
    <2> QED BY <1>2, <1>6, <2>1, <2>2 DEF Landed, d
  <1>8. t \in Request /\ t.step = r.step + 1 /\ t.ok = r.ok \cup {r.step} /\ t.m = m /\ ~t.open
    <2> DEFINE u == Stepped(r, TRUE)
    <2>2. u \in Request /\ u.step = r.step + 1 /\ u.ok = r.ok \cup {r.step} /\ u.m = m
      BY <1>2, SteppedType
    <2> HIDE DEF u
    <2>3. LET v == [u EXCEPT !.open = FALSE] IN
          v \in Request /\ v.step = u.step /\ v.ok = u.ok /\ v.m = u.m /\ ~v.open
      BY <2>2, Closed
    <2>4. t = [u EXCEPT !.open = FALSE] BY DEF u
    <2> HIDE DEF r, t, m
    <2> QED BY <2>2, <2>3, <2>4
  <1> HIDE DEF t
  <1>9. Conditions(t)
    <2>1. BeginStep \in r.ok BY <1>2, <1>4, <1>5 DEF BatchOK, Conditions
    <2> HIDE DEF r
    <2> QED BY <1>1, <1>2, <1>4, <1>8, <2>1 DEF BatchOK, Conditions
  <1>10. RowOf(db'.rows, m)
    <2>1. db'.rows = Append(db.rows, m) BY <1>7 DEF Landed, ServerInv, ServerTypeOK
    <2> QED BY <1>2, <1>3, <2>1, RecordedAppend
  <1>11. BatchOK(t, db') BY <1>8, <1>9, <1>10 DEF BatchOK, HeldBack
  <1>12. InTransaction(p) BY <1>1 DEF InTransaction
  <1> QED BY <1>1, <1>7, <1>8, <1>11, <1>12, Settled

LEMMA RollbackKeeps ==
  ASSUME ServerInv, NEW p \in Proc, Rollback(p)
  PROVE  ServerInv' /\ db' = db
  <1> DEFINE r == req[p]
             m == r.m
             t == [Stepped(r, TRUE) EXCEPT !.open = FALSE]
  <1>1. Working(p) /\ r.step = RollbackStep(m) /\ req' = [req EXCEPT ![p] = t] /\ db' = db
    BY DEF Rollback
  <1>2. r \in Request /\ r.ok \subseteq Nat /\ m \in Migration /\ LastStep(m) \in Nat /\ LastStep(m) >= 2 /\ r.step \in Nat
        /\ CommitStep(m) = LastStep(m) + 1 /\ RollbackStep(m) = LastStep(m) + 2
    BY <1>1, RequestShape DEF ServerInv
  <1>4. BatchOK(r, db) BY <1>1 DEF ServerInv, BatchesOK
  <1>8. t \in Request /\ t.step = r.step + 1 /\ t.ok = r.ok \cup {r.step} /\ t.m = m /\ ~t.open
    <2> DEFINE u == Stepped(r, TRUE)
    <2>2. u \in Request /\ u.step = r.step + 1 /\ u.ok = r.ok \cup {r.step} /\ u.m = m
      BY <1>2, SteppedType
    <2> HIDE DEF u
    <2>3. LET v == [u EXCEPT !.open = FALSE] IN
          v \in Request /\ v.step = u.step /\ v.ok = u.ok /\ v.m = u.m /\ ~v.open
      BY <2>2, Closed
    <2>4. t = [u EXCEPT !.open = FALSE] BY DEF u
    <2> HIDE DEF r, t, m
    <2> QED BY <2>2, <2>3, <2>4
  <1> HIDE DEF t
  <1>9. Conditions(t)
    <2> HIDE DEF r
    <2> QED BY <1>1, <1>2, <1>4, <1>8 DEF BatchOK, Conditions
  <1>10. CommitStep(m) \in t.ok => CommitStep(m) \in r.ok
    <2> HIDE DEF r
    <2> QED BY <1>1, <1>2, <1>8
  <1>11. BatchOK(t, db) BY <1>4, <1>8, <1>9, <1>10 DEF BatchOK, HeldBack
  <1> QED BY <1>1, <1>8, <1>11, Settled

(* A request taken out of the server, or one sent. *)
LEMMA RequestReplaced ==
  ASSUME ServerInv, NEW p \in Proc, NEW r \in Request \cup [state : {"none", "well", "failed"}],
         req' = [req EXCEPT ![p] = r], db'.rows = db.rows, db'.done = db.done, db' \in [table : BOOLEAN, rows : Seq(Migration), done : Seq(Step)],
         r.state = "working" => BatchOK(r, db) /\ ~r.open
  PROVE  ServerInv'
  <1>1. ServerTypeOK' BY DEF ServerInv, ServerTypeOK
  <1>2. ASSUME NEW q \in Proc, (Working(q))' PROVE BatchOK(req'[q], db')
    <2>1. CASE q = p
      <3>1. BatchOK(r, db) BY <1>2, <2>1 DEF Working, ServerInv, ServerTypeOK
      <3>2. req'[q] = r BY <2>1 DEF ServerInv, ServerTypeOK
      <3> QED BY <3>1, <3>2 DEF BatchOK, HeldBack
    <2>2. CASE q # p
      <3>1. req'[q] = req[q] /\ Working(q) BY <1>2, <2>2 DEF Working, ServerInv, ServerTypeOK
      <3>2. BatchOK(req[q], db) BY <3>1 DEF ServerInv, BatchesOK
      <3> QED BY <3>1, <3>2 DEF BatchOK, HeldBack
    <2> QED BY <2>1, <2>2
  <1>3. OneTransaction'
    <2>1. \A q \in Proc : InTransaction(q)' => InTransaction(q)
      BY DEF InTransaction, Working, ServerInv, ServerTypeOK
    <2> QED BY <2>1 DEF OneTransaction, ServerInv
  <1> QED BY <1>1, <1>2, <1>3 DEF ServerInv, BatchesOK

LEMMA EndKeeps ==
  ASSUME ServerInv, NEW p \in Proc, EndRequest(p)
  PROVE  ServerInv' /\ db' = db
  <1> DEFINE r == IF run[p].pc # "wait" THEN NoRequest
                  ELSE [state |-> IF CommitStep(req[p].m) \in req[p].ok THEN "well" ELSE "failed"]
  <1>1. r \in [state : {"none", "well", "failed"}] BY DEF NoRequest
  <1>2. req' = [req EXCEPT ![p] = r] /\ db' = db BY DEF EndRequest
  <1>3. db' \in [table : BOOLEAN, rows : Seq(Migration), done : Seq(Step)] BY <1>2 DEF ServerInv, ServerTypeOK
  <1>4. r.state # "working" BY <1>1
  <1> HIDE DEF r
  <1> QED BY <1>1, <1>2, <1>3, <1>4, RequestReplaced

(* Whatever the server does, the database changes by one whole migration or not at all. *)
LEMMA ServerKeeps ==
  ASSUME ServerInv, NEW p \in Proc, Server(p)
  PROVE  ServerInv' /\ db'.table = db.table /\ (db' = db \/ (Working(p) /\ Landed(req[p].m)))
  <1>1. CASE Begin(p) BY <1>1, BeginKeeps
  <1>2. CASE Statement(p) BY <1>2, StatementKeeps
  <1>3. CASE InsertRow(p) BY <1>3, InsertKeeps
  <1>4. CASE Commit(p) BY <1>4, CommitKeeps
  <1>5. CASE StepFails(p) BY <1>5, MissKeeps DEF StepFails
  <1>6. CASE StepSkipped(p) BY <1>6, MissKeeps DEF StepSkipped
  <1>7. CASE Rollback(p) BY <1>7, RollbackKeeps
  <1>8. CASE EndRequest(p) BY <1>8, EndKeeps
  <1> QED BY <1>1, <1>2, <1>3, <1>4, <1>5, <1>6, <1>7, <1>8 DEF Server

-------------------------------------------------------------------------------
(* The commands. *)

OthersTypeOK ==
  /\ dir \in [Name -> Body \cup {None}]
  /\ run \in [Proc -> CommandState]
  /\ tidy \in BOOLEAN
  /\ runs \in Nat /\ edits \in Nat

(* Every file of the run but those in S is recorded or still to come, and what it applied is recorded as it was read. *)
Done(c, S, rows) ==
  /\ Files(c.files) \subseteq Recorded(rows) \cup c.left \cup S
  /\ \A n \in c.mine \ S : RowOf(rows, [name |-> n, body |-> c.files[n]])

CommandOK(c, r, rows) ==
  /\ c.left \subseteq Files(c.files)
  /\ c.pc \in {"read", "template"} => c.mine = {} /\ c.left = {}
  /\ c.pc \in {"ensure", "next"} => Done(c, {}, rows)
  /\ c.pc = "wait" /\ r.state = "working" => r.m.body = c.files[r.m.name] /\ Done(c, {r.m.name}, rows)
  /\ c.pc = "wait" /\ r.state = "well" => Done(c, {}, rows)
  /\ c.well => c.pc = "idle" /\ c.left = {} /\ Done(c, {}, rows)

CommandsOK == \A p \in Proc : CommandOK(run[p], req[p], db.rows)

Inv == OthersTypeOK /\ ServerInv /\ CommandsOK

LEMMA SentShape ==
  ASSUME NEW m \in Migration, ServerTypeOK
  PROVE  Sent(m) \in Request /\ BatchOK(Sent(m), db) /\ ~Sent(m).open /\ Sent(m).m = m /\ Sent(m).state = "working"
  <1>1. Committed \in Work BY DEF Committed, Work, ServerTypeOK
  <1>2. Sent(m) \in Request /\ ~Sent(m).open /\ Sent(m).m = m /\ Sent(m).ok = {} /\ Sent(m).state = "working"
    BY <1>1 DEF Sent, Request, Work, Step, BeginStep
  <1>3. BatchOK(Sent(m), db) BY <1>2 DEF BatchOK, Conditions, HeldBack
  <1> QED BY <1>2, <1>3

LEMMA SendShape ==
  ASSUME Inv, NEW p \in Proc, NEW n \in Name, SendBatch(p, n)
  PROVE  LET m == [name |-> n, body |-> run[p].files[n]] IN m \in Migration /\ req' = [req EXCEPT ![p] = Sent(m)]
  <1>1. run[p] \in CommandState BY DEF Inv, OthersTypeOK
  <1>2. n \in Files(run[p].files) BY DEF Inv, CommandsOK, CommandOK, SendBatch
  <1>3. run[p].files[n] \in Body BY <1>1, <1>2 DEF CommandState, Files
  <1> QED BY <1>3 DEF SendBatch, Migration

(* The server stays well-behaved whatever any actor does. *)
LEMMA ServerInvStep ==
  ASSUME Inv, Next
  PROVE  ServerInv'
  <1>0. ServerInv /\ db \in [table : BOOLEAN, rows : Seq(Migration), done : Seq(Step)]
    BY DEF Inv, ServerInv, ServerTypeOK
  <1>1. ASSUME UNCHANGED <<db, req>> PROVE ServerInv'
    BY <1>0, <1>1 DEF ServerInv, ServerTypeOK, BatchesOK, OneTransaction, InTransaction, Working
  <1>2. ASSUME NEW p \in Proc, req' = [req EXCEPT ![p] = NoRequest], UNCHANGED db PROVE ServerInv'
    <2>1. NoRequest \in [state : {"none", "well", "failed"}] /\ NoRequest.state # "working" BY DEF NoRequest
    <2> QED BY <1>0, <1>2, <2>1, RequestReplaced
  <1>3. ASSUME NEW p \in Proc, Server(p) PROVE ServerInv' BY <1>0, <1>3, ServerKeeps
  <1>4. ASSUME NEW p \in Proc, EnsureTable(p) PROVE ServerInv'
    <2>1. db' = [db EXCEPT !.table = TRUE] /\ req' = req BY <1>4 DEF EnsureTable
    <2>2. db' \in [table : BOOLEAN, rows : Seq(Migration), done : Seq(Step)] /\ db'.rows = db.rows /\ db'.done = db.done
      BY <1>0, <2>1
    <2>3. \A r : BatchOK(r, db) => BatchOK(r, db') BY <2>2 DEF BatchOK, HeldBack
    <2> QED BY <1>0, <2>1, <2>2, <2>3 DEF ServerInv, ServerTypeOK, BatchesOK, OneTransaction, InTransaction, Working
  <1>5. ASSUME NEW p \in Proc, NEW n \in Name, SendBatch(p, n) PROVE ServerInv'
    <2> DEFINE m == [name |-> n, body |-> run[p].files[n]]
    <2>1. m \in Migration /\ req' = [req EXCEPT ![p] = Sent(m)] /\ db' = db BY <1>5, SendShape DEF SendBatch
    <2>2. Sent(m) \in Request /\ BatchOK(Sent(m), db) /\ ~Sent(m).open BY <1>0, <2>1, SentShape DEF ServerInv
    <2> HIDE DEF m
    <2> QED BY <1>0, <2>1, <2>2, RequestReplaced
  <1>6. ASSUME NEW p \in Proc, Dies(p) PROVE ServerInv'
    <2>1. CASE Working(p)
      <3>1. UNCHANGED <<db, req>> BY <1>6, <2>1, <1>0 DEF Dies, ServerInv, ServerTypeOK
      <3> QED BY <3>1, <1>1
    <2>2. CASE ~Working(p)
      <3>1. req' = [req EXCEPT ![p] = NoRequest] /\ UNCHANGED db BY <1>6, <2>2 DEF Dies
      <3> QED BY <3>1, <1>2
    <2> QED BY <2>1, <2>2
  <1>7. ASSUME NEW p \in Proc, Answered(p) \/ Failed(p) PROVE ServerInv'
    BY <1>2, <1>7 DEF Answered, Failed
  <1>8. ASSUME NEW p \in Proc, Start(p) \/ TemplateStart(p) \/ AllApplied(p) PROVE ServerInv'
    BY <1>1, <1>8 DEF Start, TemplateStart, AllApplied
  <1>9. ASSUME NEW p \in Proc, NEW drift \in BOOLEAN, ReadHistory(p, drift) PROVE ServerInv'
    BY <1>1, <1>9 DEF ReadHistory
  <1>10. ASSUME NEW p \in Proc, NEW n \in Name, NEW b \in Body, WriteTemplate(p, n, b) PROVE ServerInv'
    BY <1>1, <1>10 DEF WriteTemplate
  <1>11. ASSUME NEW n \in Name, NEW b \in Body \cup {None}, EditFile(n, b) PROVE ServerInv'
    BY <1>1, <1>11 DEF EditFile
  <1> QED BY <1>3, <1>4, <1>5, <1>6, <1>7, <1>8, <1>9, <1>10, <1>11 DEF Next, Command

(* What is committed changes by one migration that lands, or stays. *)
LEMMA Landing ==
  ASSUME Inv, Next
  PROVE  \/ db'.rows = db.rows /\ db'.done = db.done
         \/ \E p \in Proc : Working(p) /\ Landed(req[p].m)
  <1>1. ASSUME NEW p \in Proc, Server(p) PROVE db' = db \/ (Working(p) /\ Landed(req[p].m))
    BY <1>1, ServerKeeps DEF Inv
  <1>2. ASSUME NEW p \in Proc, Command(p) PROVE db'.rows = db.rows /\ db'.done = db.done
    <2>1. CASE EnsureTable(p)
      <3>1. db \in [table : BOOLEAN, rows : Seq(Migration), done : Seq(Step)] BY DEF Inv, ServerInv, ServerTypeOK
      <3> QED BY <2>1, <3>1 DEF EnsureTable
    <2>2. CASE ~EnsureTable(p)
      BY <1>2, <2>2 DEF Command, ReadHistory, WriteTemplate, SendBatch, Answered, Failed, AllApplied
    <2> QED BY <2>1, <2>2
  <1>3. ASSUME NEW p \in Proc, Start(p) \/ TemplateStart(p) \/ Dies(p) PROVE db' = db
    BY <1>3 DEF Start, TemplateStart, Dies
  <1>4. ASSUME NEW n \in Name, NEW b \in Body \cup {None}, EditFile(n, b) PROVE db' = db
    BY <1>4 DEF EditFile
  <1> QED BY <1>1, <1>2, <1>3, <1>4 DEF Next

LEMMA LandedRows ==
  ASSUME Inv, NEW m, Landed(m)
  PROVE  /\ db'.rows = Append(db.rows, m) /\ db'.done = db.done \o Effects(m, Statements[m.body])
         /\ Recorded(db'.rows) = Recorded(db.rows) \cup {m.name}
         /\ \A n : RowOf(db.rows, n) => RowOf(db'.rows, n)
  <1>1. db \in [table : BOOLEAN, rows : Seq(Migration), done : Seq(Step)] /\ m \in Migration
    BY DEF Inv, ServerInv, ServerTypeOK, Landed
  <1>2. db'.rows = Append(db.rows, m) /\ db'.done = db.done \o Effects(m, Statements[m.body]) BY <1>1 DEF Landed
  <1> QED BY <1>1, <1>2, RecordedAppend

LEMMA RowsGrow ==
  ASSUME Inv, Next
  PROVE  Recorded(db.rows) \subseteq Recorded(db'.rows) /\ \A n : RowOf(db.rows, n) => RowOf(db'.rows, n)
  BY Landing, LandedRows

LEMMA DoneGrows ==
  ASSUME Inv, Next, NEW c, NEW S, Done(c, S, db.rows)
  PROVE  Done(c, S, db'.rows)
  BY RowsGrow DEF Done

LEMMA EndsType ==
  ASSUME OthersTypeOK, NEW p \in Proc, NEW well \in BOOLEAN, Ends(p, well)
  PROVE  /\ run' \in [Proc -> CommandState]
         /\ \A q \in Proc \ {p} : run'[q] = run[q]
         /\ well => run'[p] = [run[p] EXCEPT !.pc = "idle", !.left = {}, !.well = TRUE]
         /\ ~well => run'[p] = Idle
  <1>1. Idle \in CommandState BY DEF Idle, CommandState
  <1>2. [run[p] EXCEPT !.pc = "idle", !.left = {}, !.well = TRUE] \in CommandState
    BY DEF OthersTypeOK, CommandState
  <1> QED BY <1>1, <1>2 DEF Ends, OthersTypeOK

LEMMA GoesType ==
  ASSUME OthersTypeOK, NEW p \in Proc, NEW pc \in {"ensure", "next"}, Goes(p, pc)
  PROVE  /\ run' \in [Proc -> CommandState]
         /\ \A q \in Proc \ {p} : run'[q] = run[q]
         /\ run'[p] = [run[p] EXCEPT !.pc = pc]
  <1>1. [run[p] EXCEPT !.pc = pc] \in CommandState BY DEF OthersTypeOK, CommandState
  <1> QED BY <1>1 DEF Goes, OthersTypeOK

(* What each command step makes of its own run, the others' being left alone. *)
LEMMA StartRun ==
  ASSUME Inv, NEW p \in Proc, Start(p)
  PROVE  /\ run' = [run EXCEPT ![p] = [Idle EXCEPT !.pc = "read", !.files = dir]]
         /\ [Idle EXCEPT !.pc = "read", !.files = dir] \in CommandState
  BY DEF Start, Idle, CommandState, Inv, OthersTypeOK

LEMMA TemplateRun ==
  ASSUME Inv, NEW p \in Proc, TemplateStart(p)
  PROVE  /\ run' = [run EXCEPT ![p] = [Idle EXCEPT !.pc = "template"]]
         /\ [Idle EXCEPT !.pc = "template"] \in CommandState
  BY DEF TemplateStart, Idle, CommandState

LEMMA ReadOnRun ==
  ASSUME Inv, NEW p \in Proc, NEW left \in SUBSET Name,
         run' = [run EXCEPT ![p].pc = "ensure", ![p].left = left]
  PROVE  /\ run' = [run EXCEPT ![p] = [run[p] EXCEPT !.pc = "ensure", !.left = left]]
         /\ [run[p] EXCEPT !.pc = "ensure", !.left = left] \in CommandState
  BY DEF Inv, OthersTypeOK, CommandState

LEMMA WriteRun ==
  ASSUME Inv, NEW p \in Proc, NEW n \in Name, NEW b \in Body, WriteTemplate(p, n, b)
  PROVE  /\ dir' \in [Name -> Body \cup {None}]
         /\ \E c \in CommandState :
              /\ run' = [run EXCEPT ![p] = c]
              /\ c.pc = "ensure" /\ c.left = {n} /\ c.mine = run[p].mine /\ c.well = run[p].well
              /\ c.files \in [Name -> Body \cup {None}] /\ Files(c.files) = {n} /\ c.files[n] = b
  <1> DEFINE f == [[m \in Name |-> None] EXCEPT ![n] = b]
  <1>1. f \in [Name -> Body \cup {None}] /\ f[n] = b /\ \A m \in Name \ {n} : f[m] = None OBVIOUS
  <1>2. Files(f) = {n} BY <1>1, NoneIsNoBody DEF Files
  <1>3. dir' \in [Name -> Body \cup {None}] BY DEF WriteTemplate, Inv, OthersTypeOK
  <1>4. run' = [run EXCEPT ![p].pc = "ensure", ![p].left = {n}, ![p].files = f] BY DEF WriteTemplate
  <1> HIDE DEF f
  <1> DEFINE c == [run[p] EXCEPT !.pc = "ensure", !.left = {n}, !.files = f]
  <1>5. run \in [Proc -> CommandState] BY DEF Inv, OthersTypeOK
  <1>6. c \in CommandState /\ c.files = f /\ c.pc = "ensure" /\ c.left = {n} /\ c.mine = run[p].mine /\ c.well = run[p].well
    BY <1>1, <1>5 DEF CommandState
  <1>7. run' = [run EXCEPT ![p] = c] BY <1>4, <1>5
  <1> HIDE DEF c
  <1> QED BY <1>1, <1>2, <1>3, <1>6, <1>7

LEMMA SendRun ==
  ASSUME Inv, NEW p \in Proc, NEW n \in Name, SendBatch(p, n)
  PROVE  LET c == [run[p] EXCEPT !.pc = "wait", !.left = @ \ {n}, !.mine = @ \cup {n}] IN
         run' = [run EXCEPT ![p] = c] /\ c \in CommandState
  BY DEF SendBatch, Inv, OthersTypeOK, CommandState

LEMMA ReplacedRun ==
  ASSUME Inv, NEW p \in Proc, NEW c \in CommandState, run' = [run EXCEPT ![p] = c]
  PROVE  run' \in [Proc -> CommandState] /\ run'[p] = c /\ \A q \in Proc \ {p} : run'[q] = run[q]
  BY DEF Inv, OthersTypeOK

LEMMA OthersTypeStep ==
  ASSUME Inv, Next
  PROVE  OthersTypeOK'
  <1>0. OthersTypeOK /\ dir \in [Name -> Body \cup {None}] /\ run \in [Proc -> CommandState] /\ tidy \in BOOLEAN /\ runs \in Nat /\ edits \in Nat
    BY DEF Inv, OthersTypeOK
  <1>1. ASSUME NEW n \in Name, NEW b \in Body \cup {None}, EditFile(n, b) PROVE OthersTypeOK'
    BY <1>0, <1>1 DEF EditFile, OthersTypeOK
  <1>2. ASSUME NEW p \in Proc, Server(p) PROVE OthersTypeOK' BY <1>0, <1>2 DEF Server, OthersTypeOK
  <1>3. ASSUME NEW p \in Proc, Start(p) PROVE OthersTypeOK'
    <2>1. run' \in [Proc -> CommandState] BY <1>3, StartRun, ReplacedRun
    <2>2. runs' \in Nat /\ UNCHANGED <<dir, tidy, edits>> BY <1>0, <1>3 DEF Start
    <2> QED BY <1>0, <2>1, <2>2 DEF OthersTypeOK
  <1>4. ASSUME NEW p \in Proc, TemplateStart(p) PROVE OthersTypeOK'
    <2>1. run' \in [Proc -> CommandState] BY <1>4, TemplateRun, ReplacedRun
    <2>2. runs' \in Nat /\ UNCHANGED <<dir, tidy, edits>> BY <1>0, <1>4 DEF TemplateStart
    <2> QED BY <1>0, <2>1, <2>2 DEF OthersTypeOK
  <1>5. ASSUME NEW p \in Proc, NEW drift \in BOOLEAN, ReadHistory(p, drift) PROVE OthersTypeOK'
    <2>1. Pending(run[p].files, Applied) \in SUBSET Name BY DEF Pending, Files
    <2>2. run' \in [Proc -> CommandState]
      BY <1>0, <1>5, <2>1, EndsType, ReadOnRun DEF ReadHistory
    <2>3. tidy' \in BOOLEAN /\ UNCHANGED <<dir, runs, edits>> BY <1>5 DEF ReadHistory
    <2> QED BY <1>0, <2>2, <2>3 DEF OthersTypeOK
  <1>6. ASSUME NEW p \in Proc, NEW n \in Name, NEW b \in Body, WriteTemplate(p, n, b) PROVE OthersTypeOK'
    <2>1. dir' \in [Name -> Body \cup {None}] BY <1>6, WriteRun
    <2>2. run' \in [Proc -> CommandState]
      <3>1. PICK c \in CommandState : run' = [run EXCEPT ![p] = c] BY <1>6, WriteRun
      <3> QED BY <3>1, ReplacedRun
    <2>3. tidy' \in BOOLEAN /\ UNCHANGED <<runs, edits>> BY <1>6 DEF WriteTemplate
    <2> QED BY <1>0, <2>1, <2>2, <2>3 DEF OthersTypeOK
  <1>7. ASSUME NEW p \in Proc, EnsureTable(p) \/ Answered(p) PROVE OthersTypeOK'
    BY <1>0, <1>7, GoesType DEF EnsureTable, Answered, OthersTypeOK
  <1>8. ASSUME NEW p \in Proc, NEW n \in Name, SendBatch(p, n) PROVE OthersTypeOK'
    <2>1. run' \in [Proc -> CommandState] BY <1>0, <1>8, SendRun
    <2> QED BY <1>0, <1>8, <2>1 DEF SendBatch, OthersTypeOK
  <1>9. ASSUME NEW p \in Proc, Failed(p) \/ AllApplied(p) \/ Dies(p) PROVE OthersTypeOK'
    BY <1>0, <1>9, EndsType DEF Failed, AllApplied, Dies, OthersTypeOK
  <1> QED BY <1>1, <1>2, <1>3, <1>4, <1>5, <1>6, <1>7, <1>8, <1>9 DEF Next, Command

LEMMA IdleOK ==
  ASSUME NEW r, NEW rows
  PROVE  CommandOK(Idle, r, rows)
  <1>1. Idle.pc = "idle" /\ Idle.left = {} /\ Idle.mine = {} /\ ~Idle.well BY DEF Idle
  <1> QED BY <1>1 DEF CommandOK

(* A run that another actor's step leaves alone keeps what it knows. *)
LEMMA OtherRunKeeps ==
  ASSUME Inv, Next, NEW q \in Proc, run'[q] = run[q], req'[q] = req[q]
  PROVE  CommandOK(run'[q], req'[q], db'.rows)
  <1>1. CommandOK(run[q], req[q], db.rows) BY DEF Inv, CommandsOK
  <1> QED BY <1>1, DoneGrows DEF CommandOK

(* The server works on one batch: it is the same one until it is answered. *)
LEMMA ServerRequest ==
  ASSUME Inv, NEW p \in Proc, Server(p)
  PROVE  /\ Working(p) /\ \A q \in Proc \ {p} : req'[q] = req[q]
         /\ ~EndRequest(p) => req'[p].state = "working" /\ req'[p].m = req[p].m
  <1>0. req \in [Proc -> Request \cup [state : {"none", "well", "failed"}]]
    BY DEF Inv, ServerInv, ServerTypeOK
  <1>1. Working(p)
    BY DEF Server, Begin, Statement, InsertRow, Commit, StepFails, StepSkipped, Rollback, EndRequest
  <1>2. req[p] \in Request /\ req[p].state = "working" BY <1>1, RequestShape DEF Inv, ServerInv, Working
  <1> DEFINE r == req[p]
             Same(t) == t.state = "working" /\ t.m = r.m
  <1>3. \A well \in BOOLEAN : Stepped(r, well) \in Request BY <1>2, SteppedType
  <1>4. \A well \in BOOLEAN : Same(Stepped(r, well)) BY <1>2, <1>3, SteppedType DEF Request
  <1>5. \A u \in Request : Same(u) => \A w : Same([u EXCEPT !.work = w]) BY DEF Request
  <1>6. \A u \in Request : Same(u) => \A w : Same([u EXCEPT !.open = TRUE, !.work = w]) BY DEF Request
  <1>7. \A u \in Request : Same(u) => Same([u EXCEPT !.open = FALSE]) BY DEF Request
  <1> HIDE DEF Same
  <1>8. ASSUME NEW change, Write(p, change) PROVE \E t : Same(t) /\ req' = [req EXCEPT ![p] = t]
    BY <1>3, <1>4, <1>5, <1>8 DEF Write
  <1>9. ~EndRequest(p) => \E t : Same(t) /\ req' = [req EXCEPT ![p] = t]
    <2>1. CASE Begin(p) BY <2>1, <1>3, <1>4, <1>6 DEF Begin
    <2>2. CASE Statement(p) BY <2>2, <1>8 DEF Statement
    <2>3. CASE InsertRow(p) BY <2>3, <1>8 DEF InsertRow
    <2>4. CASE Commit(p) BY <2>4, <1>3, <1>4, <1>7 DEF Commit
    <2>5. CASE StepFails(p) BY <2>5, <1>4 DEF StepFails
    <2>6. CASE StepSkipped(p) BY <2>6, <1>4 DEF StepSkipped
    <2>7. CASE Rollback(p) BY <2>7, <1>3, <1>4, <1>7 DEF Rollback
    <2> QED BY <2>1, <2>2, <2>3, <2>4, <2>5, <2>6, <2>7 DEF Server
  <1>10. EndRequest(p) => \E t : req' = [req EXCEPT ![p] = t] BY DEF EndRequest
  <1>11. \A q \in Proc \ {p} : req'[q] = req[q] BY <1>0, <1>9, <1>10
  <1>12. ~EndRequest(p) => Same(req'[p]) BY <1>0, <1>9
  <1> QED BY <1>1, <1>11, <1>12 DEF Same

LEMMA RowRecorded ==
  ASSUME NEW rows, NEW m \in Migration, RowOf(rows, m)
  PROVE  m.name \in Recorded(rows) /\ m = [name |-> m.name, body |-> m.body]
  BY DEF RowOf, Recorded, Migration

LEMMA ServerKeepsRun ==
  ASSUME Inv, Next, NEW p \in Proc, Server(p)
  PROVE  CommandOK(run'[p], req'[p], db'.rows)
  <1> DEFINE c == run[p]
             m == req[p].m
  <1>1. run' = run BY DEF Server
  <1>2. CommandOK(c, req[p], db.rows) BY DEF Inv, CommandsOK
  <1>3. req[p].state = "working" /\ Working(p) BY ServerRequest DEF Working
  <1>4. CASE ~EndRequest(p)
    BY <1>1, <1>2, <1>3, <1>4, ServerRequest, DoneGrows DEF CommandOK
  <1>5. CASE EndRequest(p) /\ c.pc # "wait"
    BY <1>1, <1>2, <1>5, DoneGrows DEF CommandOK
  <1>6. CASE EndRequest(p) /\ c.pc = "wait"
    <2>1. req'[p] = [state |-> IF CommitStep(m) \in req[p].ok THEN "well" ELSE "failed"] /\ db' = db
      BY <1>6 DEF EndRequest, Inv, ServerInv, ServerTypeOK
    <2>2. Done(c, {m.name}, db.rows) /\ m.body = c.files[m.name] /\ ~c.well
      BY <1>2, <1>3, <1>6 DEF CommandOK
    <2>3. m \in Migration BY <1>3, RequestShape DEF Inv, ServerInv
    <2>4. CommitStep(m) \in req[p].ok => RowOf(db.rows, m)
      BY <1>3 DEF Inv, ServerInv, BatchesOK, BatchOK
    <2>5. RowOf(db.rows, m) => Done(c, {}, db.rows)
      BY <2>2, <2>3, RowRecorded DEF Done
    <2>6. req'[p].state = "well" => Done(c, {}, db.rows)
      BY <2>1, <2>4, <2>5
    <2>7. req'[p].state # "working" BY <2>1
    <2> QED BY <1>1, <1>2, <1>6, <2>1, <2>2, <2>6, <2>7 DEF CommandOK
  <1> QED BY <1>4, <1>5, <1>6

LEMMA CommandKeepsRun ==
  ASSUME Inv, Next, NEW p \in Proc, Start(p) \/ TemplateStart(p) \/ Command(p) \/ Dies(p)
  PROVE  CommandOK(run'[p], req'[p], db'.rows)
  <1> DEFINE c == run[p]
  <1>0. /\ CommandOK(c, req[p], db.rows) /\ c \in CommandState /\ OthersTypeOK
        /\ req \in [Proc -> Request \cup [state : {"none", "well", "failed"}]]
    BY DEF Inv, CommandsOK, OthersTypeOK, ServerInv, ServerTypeOK
  <1>1. CASE Start(p) \/ TemplateStart(p)
    <2>1. PICK pc \in {"read", "template"}, d \in CommandState : run' = [run EXCEPT ![p] = d] /\ d.pc = pc /\ d.left = {} /\ d.mine = {} /\ ~d.well
      <3>1. ASSUME Start(p) PROVE \E d \in CommandState : run' = [run EXCEPT ![p] = d] /\ d.pc = "read" /\ d.left = {} /\ d.mine = {} /\ ~d.well
        BY <3>1, StartRun DEF Idle
      <3>2. ASSUME TemplateStart(p) PROVE \E d \in CommandState : run' = [run EXCEPT ![p] = d] /\ d.pc = "template" /\ d.left = {} /\ d.mine = {} /\ ~d.well
        BY <3>2, TemplateRun DEF Idle
      <3> QED BY <1>1, <3>1, <3>2
    <2>2. run'[p] = d BY <2>1, ReplacedRun
    <2> QED BY <2>1, <2>2 DEF CommandOK
  <1>2. CASE \E drift \in BOOLEAN : ReadHistory(p, drift)
    <2>0. PICK drift \in BOOLEAN : ReadHistory(p, drift) BY <1>2
    <2> DEFINE left == Pending(c.files, Applied)
    <2>1. c.pc = "read" /\ c.mine = {} /\ c.left = {} /\ ~c.well BY <1>0, <2>0 DEF ReadHistory, CommandOK
    <2>2. Recorded(Applied) \subseteq Recorded(db.rows) BY DEF Applied, Recorded
    <2>3. left \subseteq Files(c.files) /\ Files(c.files) \subseteq Recorded(db.rows) \cup left /\ left \in SUBSET Name
      BY <2>2 DEF Pending, Files
    <2>4. db' = db BY <2>0 DEF ReadHistory
    <2>5. CASE left = {} /\ Ends(p, TRUE)
      <3>1. run'[p] = [c EXCEPT !.pc = "idle", !.left = {}, !.well = TRUE] BY <1>0, <2>5, EndsType
      <3>2. run'[p].pc = "idle" /\ run'[p].left = {} /\ run'[p].mine = {} /\ run'[p].files = c.files
        BY <1>0, <2>1, <3>1 DEF CommandState
      <3>3. Done(run'[p], {}, db.rows) BY <2>3, <2>5, <3>2 DEF Done
      <3> QED BY <2>4, <3>2, <3>3 DEF CommandOK
    <2>6. CASE Ends(p, FALSE)
      <3>1. run'[p] = Idle BY <1>0, <2>6, EndsType
      <3> QED BY <3>1, IdleOK
    <2>7. CASE run' = [run EXCEPT ![p].pc = "ensure", ![p].left = left]
      <3> HIDE DEF left
      <3> DEFINE d == [c EXCEPT !.pc = "ensure", !.left = left]
      <3>1. run' = [run EXCEPT ![p] = d] /\ d \in CommandState BY <2>3, <2>7, ReadOnRun
      <3>2. d.pc = "ensure" /\ d.left = left /\ d.mine = {} /\ d.files = c.files /\ ~d.well BY <1>0, <2>1 DEF CommandState
      <3> HIDE DEF d
      <3>3. run'[p] = d BY <3>1, ReplacedRun
      <3>4. Done(d, {}, db.rows) BY <2>3, <3>2 DEF Done
      <3> QED BY <2>3, <2>4, <3>2, <3>3, <3>4 DEF CommandOK
    <2> QED BY <2>0, <2>5, <2>6, <2>7 DEF ReadHistory
  <1>3. CASE \E n \in Name, b \in Body : WriteTemplate(p, n, b)
    <2>0. PICK n \in Name, b \in Body : WriteTemplate(p, n, b) BY <1>3
    <2>1. PICK d \in CommandState : run' = [run EXCEPT ![p] = d] /\ d.pc = "ensure" /\ d.left = {n}
            /\ d.mine = c.mine /\ d.well = c.well /\ Files(d.files) = {n}
      BY <2>0, WriteRun
    <2>2. run'[p] = d BY <2>1, ReplacedRun
    <2>3. c.mine = {} /\ ~c.well BY <1>0, <2>0 DEF WriteTemplate, CommandOK
    <2>4. Done(d, {}, db'.rows) BY <2>1, <2>3 DEF Done
    <2> QED BY <2>1, <2>2, <2>3, <2>4 DEF CommandOK
  <1>4. CASE EnsureTable(p)
    <2>1. run'[p] = [c EXCEPT !.pc = "next"] /\ c.pc = "ensure" BY <1>0, <1>4, GoesType DEF EnsureTable
    <2>2. run'[p].pc = "next" /\ run'[p].left = c.left /\ run'[p].mine = c.mine /\ run'[p].files = c.files /\ run'[p].well = c.well
      BY <1>0, <2>1 DEF CommandState
    <2>3. Done(c, {}, db'.rows) /\ ~c.well /\ c.left \subseteq Files(c.files) BY <1>0, <2>1, DoneGrows DEF CommandOK
    <2>4. Done(run'[p], {}, db'.rows) BY <2>2, <2>3 DEF Done
    <2> QED BY <2>2, <2>3, <2>4 DEF CommandOK
  <1>5. CASE \E n \in Name : SendBatch(p, n)
    <2>0. PICK n \in Name : SendBatch(p, n) BY <1>5
    <2> DEFINE d == [c EXCEPT !.pc = "wait", !.left = @ \ {n}, !.mine = @ \cup {n}]
               m == [name |-> n, body |-> c.files[n]]
    <2>1. run' = [run EXCEPT ![p] = d] /\ d \in CommandState BY <2>0, SendRun
    <2>2. d.pc = "wait" /\ d.left = c.left \ {n} /\ d.mine = c.mine \cup {n} /\ d.files = c.files /\ d.well = c.well
      BY <1>0 DEF CommandState
    <2> HIDE DEF d
    <2>3. run'[p] = d BY <2>1, ReplacedRun
    <2>4. m \in Migration /\ req' = [req EXCEPT ![p] = Sent(m)] /\ db' = db BY <2>0, SendShape DEF SendBatch
    <2>5. c.pc = "next" /\ Done(c, {}, db.rows) /\ ~c.well /\ c.left \subseteq Files(c.files)
      BY <1>0, <2>0 DEF SendBatch, CommandOK
    <2>6. req'[p].m.name = n /\ req'[p].m.body = c.files[n] /\ req'[p].state = "working"
      BY <1>0, <2>4, SentShape DEF Inv, ServerInv
    <2>7. Done(d, {n}, db.rows) BY <2>2, <2>5 DEF Done
    <2> QED BY <2>2, <2>3, <2>4, <2>5, <2>6, <2>7 DEF CommandOK
  <1>6. CASE Answered(p)
    <2>1. run'[p] = [c EXCEPT !.pc = "next"] /\ c.pc = "wait" /\ req[p].state = "well" BY <1>0, <1>6, GoesType DEF Answered
    <2>2. run'[p].pc = "next" /\ run'[p].left = c.left /\ run'[p].mine = c.mine /\ run'[p].files = c.files /\ run'[p].well = c.well
      BY <1>0, <2>1 DEF CommandState
    <2>3. Done(c, {}, db'.rows) /\ ~c.well /\ c.left \subseteq Files(c.files) BY <1>0, <2>1, DoneGrows DEF CommandOK
    <2>4. Done(run'[p], {}, db'.rows) BY <2>2, <2>3 DEF Done
    <2> QED BY <2>2, <2>3, <2>4 DEF CommandOK
  <1>7. CASE Failed(p) \/ Dies(p)
    <2>1. run'[p] = Idle BY <1>0, <1>7, EndsType DEF Failed, Dies
    <2> QED BY <2>1, IdleOK
  <1>8. CASE AllApplied(p)
    <2>1. run'[p] = [c EXCEPT !.pc = "idle", !.left = {}, !.well = TRUE] /\ c.pc = "next" /\ c.left = {}
      BY <1>0, <1>8, EndsType DEF AllApplied
    <2>2. run'[p].pc = "idle" /\ run'[p].left = {} /\ run'[p].mine = c.mine /\ run'[p].files = c.files
      BY <1>0, <2>1 DEF CommandState
    <2>3. Done(c, {}, db'.rows) BY <1>0, <2>1, DoneGrows DEF CommandOK
    <2>4. Done(run'[p], {}, db'.rows) BY <2>1, <2>2, <2>3 DEF Done
    <2> QED BY <2>2, <2>4 DEF CommandOK
  <1> QED BY <1>1, <1>2, <1>3, <1>4, <1>5, <1>6, <1>7, <1>8 DEF Command

LEMMA CommandAlone ==
  ASSUME Inv, NEW p \in Proc, Start(p) \/ TemplateStart(p) \/ Command(p) \/ Dies(p)
  PROVE  \A q \in Proc \ {p} : run'[q] = run[q] /\ req'[q] = req[q]
  <1>0. /\ run \in [Proc -> CommandState]
        /\ req \in [Proc -> Request \cup [state : {"none", "well", "failed"}]]
    BY DEF Inv, OthersTypeOK, ServerInv, ServerTypeOK
  <1>1. ASSUME NEW c, run' = [run EXCEPT ![p] = c] PROVE \A q \in Proc \ {p} : run'[q] = run[q] BY <1>0, <1>1
  <1>2. ASSUME NEW r, req' = [req EXCEPT ![p] = r] PROVE \A q \in Proc \ {p} : req'[q] = req[q] BY <1>0, <1>2
  <1>3. CASE Start(p) \/ TemplateStart(p) BY <1>1, <1>3 DEF Start, TemplateStart
  <1>4. CASE \E drift \in BOOLEAN : ReadHistory(p, drift)
    BY <1>0, <1>4 DEF ReadHistory, Ends
  <1>5. CASE \E n \in Name, b \in Body : WriteTemplate(p, n, b)
    BY <1>0, <1>5 DEF WriteTemplate
  <1>6. CASE EnsureTable(p) BY <1>0, <1>6 DEF EnsureTable, Goes
  <1>7. CASE \E n \in Name : SendBatch(p, n) BY <1>0, <1>7 DEF SendBatch
  <1>8. CASE Answered(p) BY <1>0, <1>8 DEF Answered, Goes
  <1>9. CASE Failed(p) \/ AllApplied(p) \/ Dies(p) BY <1>0, <1>9 DEF Failed, AllApplied, Dies, Ends
  <1> QED BY <1>3, <1>4, <1>5, <1>6, <1>7, <1>8, <1>9 DEF Command

LEMMA CommandsStep ==
  ASSUME Inv, Next
  PROVE  CommandsOK'
  <1> SUFFICES ASSUME NEW q \in Proc PROVE CommandOK(run'[q], req'[q], db'.rows)
    BY DEF CommandsOK
  <1>1. ASSUME NEW p \in Proc, Server(p) PROVE CommandOK(run'[q], req'[q], db'.rows)
    <2>1. CASE q = p BY <1>1, <2>1, ServerKeepsRun
    <2>2. CASE q # p BY <1>1, <2>2, ServerRequest, OtherRunKeeps DEF Server
    <2> QED BY <2>1, <2>2
  <1>2. ASSUME NEW p \in Proc, Start(p) \/ TemplateStart(p) \/ Command(p) \/ Dies(p)
        PROVE CommandOK(run'[q], req'[q], db'.rows)
    <2>1. CASE q = p BY <1>2, <2>1, CommandKeepsRun
    <2>2. CASE q # p BY <1>2, <2>2, CommandAlone, OtherRunKeeps
    <2> QED BY <2>1, <2>2
  <1>3. ASSUME NEW n \in Name, NEW b \in Body \cup {None}, EditFile(n, b)
        PROVE CommandOK(run'[q], req'[q], db'.rows)
    BY <1>3, OtherRunKeeps DEF EditFile
  <1> QED BY <1>1, <1>2, <1>3 DEF Next

LEMMA InitInv ==
  Init => Inv
  <1> SUFFICES ASSUME Init PROVE Inv OBVIOUS
  <1>1. OthersTypeOK
    <2>1. Idle \in CommandState BY DEF Idle, CommandState
    <2> QED BY <2>1 DEF Init, OthersTypeOK
  <1>2. db \in [table : BOOLEAN, rows : Seq(Migration), done : Seq(Step)] BY DEF Init
  <1>3. ServerTypeOK /\ \A p \in Proc : req[p].state = "none"
    BY <1>2 DEF Init, ServerTypeOK, NoRequest
  <1>4. ServerInv BY <1>3 DEF ServerInv, BatchesOK, OneTransaction, InTransaction, Working
  <1>5. CommandsOK BY IdleOK DEF Init, CommandsOK
  <1> QED BY <1>1, <1>4, <1>5 DEF Inv

LEMMA StepInv ==
  Inv /\ [Next]_vars => Inv'
  <1>1. ASSUME Inv, Next PROVE Inv'
    BY <1>1, OthersTypeStep, ServerInvStep, CommandsStep DEF Inv
  <1>2. ASSUME Inv, UNCHANGED vars PROVE Inv'
    BY <1>2 DEF vars, Inv, OthersTypeOK, ServerInv, ServerTypeOK, BatchesOK, OneTransaction, InTransaction, Working, CommandsOK
  <1> QED BY <1>1, <1>2

LEMMA Invariant ==
  Spec => []Inv
  BY InitInv, StepInv, PTL DEF Spec

(* Every variable keeps its type, for any number of commands, files and statements. *)
THEOREM MigrationsTypeCorrect ==
  Spec => []MigrationsTypeOK
  <1>1. Inv => MigrationsTypeOK
    BY DEF Inv, OthersTypeOK, ServerInv, ServerTypeOK, MigrationsTypeOK, Step
  <1> QED BY <1>1, Invariant, PTL

(* A run that reports success left every file it saw recorded, and what it applied as it read it. *)
THEOREM SuccessfulApply ==
  Spec => []SuccessIsApplied
  <1>1. Inv => SuccessIsApplied
    BY DEF Inv, CommandsOK, CommandOK, Done, RowOf, SuccessIsApplied
  <1> QED BY <1>1, Invariant, PTL

(* The batches implement the abstract history: a migration lands whole with its row, and once. *)
THEOREM ImplementsHistory ==
  Spec => LandsWhole
  <1>1. Init => H!Init BY DEF Init, H!Init
  <1>2. ASSUME Inv, Next PROVE [H!Next]_<<db.rows, db.done>>
    <2>1. CASE db'.rows = db.rows /\ db'.done = db.done BY <2>1
    <2>2. ASSUME NEW p \in Proc, Landed(req[p].m) PROVE H!Next
      <3> DEFINE m == req[p].m
      <3>1. m \in [name : Name, body : Body] /\ m.name \notin H!Recorded(db.rows)
        BY <2>2 DEF Landed, Migration, Recorded, H!Recorded
      <3>2. db'.rows = Append(db.rows, m) /\ db'.done = db.done \o H!Effects(m, Statements[m.body])
        BY <1>2, <2>2, LandedRows DEF Effects, H!Effects
      <3> HIDE DEF m
      <3> QED BY <3>1, <3>2 DEF H!Next, H!Land
    <2> QED BY <1>2, <2>1, <2>2, Landing
  <1>3. ASSUME UNCHANGED vars PROVE [H!Next]_<<db.rows, db.done>>
    BY <1>3 DEF vars
  <1>4. Inv /\ [Next]_vars => [H!Next]_<<db.rows, db.done>>
    BY <1>2, <1>3
  <1> QED BY <1>1, <1>4, Invariant, PTL DEF Spec, LandsWhole, H!Spec

-------------------------------------------------------------------------------
(* A directory that only grows at its end: every run works on the first files of it, in order. *)

(* The directory d has a file n with body b, and every file before it is in S. *)
InTurn(n, b, d, S) == n \in Files(d) /\ d[n] = b /\ \A k \in Files(d) : k < n => k \in S

RowsTidy ==
  /\ \A i, j \in DOMAIN db.rows : i < j => db.rows[i].name < db.rows[j].name
  /\ \A i \in DOMAIN db.rows : InTurn(db.rows[i].name, db.rows[i].body, dir, Recorded(db.rows))

BatchesTidy == \A p \in Proc : Working(p) => InTurn(req[p].m.name, req[p].m.body, dir, Recorded(db.rows))

RunsTidy ==
  \A p \in Proc : \A n \in Files(run[p].files) : InTurn(n, run[p].files[n], dir, Files(run[p].files))

TidyInv == tidy => RowsTidy /\ BatchesTidy /\ RunsTidy

LEMMA InTurnGrows ==
  ASSUME NEW n, NEW b, NEW d, NEW S, NEW T, S \subseteq T, InTurn(n, b, d, S)
  PROVE  InTurn(n, b, d, T)
  BY DEF InTurn

(* A file added at the end comes after every file in turn. *)
LEMMA InTurnExtends ==
  ASSUME Inv, NEW n \in Name, NEW b \in Body, dir[n] # b, AtEnd(n), dir' = [dir EXCEPT ![n] = b],
         NEW k, NEW x, NEW S, InTurn(k, x, dir, S)
  PROVE  InTurn(k, x, dir', S)
  <1>1. dir \in [Name -> Body \cup {None}] /\ Name \subseteq Nat BY NamesOrdered DEF Inv, OthersTypeOK
  <1>2. k \in Name /\ k \in Files(dir) /\ k < n /\ k # n BY <1>1 DEF InTurn, AtEnd, Files
  <1>3. \A j \in Files(dir') : j < k => j \in Files(dir) BY <1>1, <1>2 DEF Files
  <1>4. dir'[k] = dir[k] /\ k \in Files(dir') BY <1>1, <1>2 DEF Files
  <1> QED BY <1>3, <1>4 DEF InTurn

LEMMA NobodyInTurn ==
  ASSUME NEW n, NEW b, NEW d, NEW S, Files(d) = {}
  PROVE  ~InTurn(n, b, d, S)
  BY DEF InTurn

LEMMA LandingTidy ==
  ASSUME Inv, RowsTidy, NEW m, Landed(m), InTurn(m.name, m.body, dir, Recorded(db.rows)), dir' = dir
  PROVE  RowsTidy'
  <1>1. m \in Migration /\ m.name \in Name /\ db.rows \in Seq(Migration) /\ m.name \notin Recorded(db.rows)
    BY DEF Landed, Migration, Inv, ServerInv, ServerTypeOK
  <1>2. db'.rows = Append(db.rows, m) /\ Recorded(db'.rows) = Recorded(db.rows) \cup {m.name}
    BY LandedRows
  <1> DEFINE len == Len(db.rows)
  <1>3. len \in Nat /\ DOMAIN db.rows = 1..len /\ DOMAIN db'.rows = 1..len + 1
        /\ db'.rows[len + 1] = m /\ \A i \in 1..len : db'.rows[i] = db.rows[i]
    BY <1>1, <1>2
  <1>4. \A i \in 1..len : db.rows[i] \in Migration /\ db.rows[i].name \in Nat /\ m.name \in Nat
    <2>1. \A i \in 1..len : db.rows[i] \in Migration BY <1>1
    <2> QED BY <1>1, <2>1, NamesOrdered DEF Migration
  <1>5. ASSUME NEW i \in 1..len PROVE db.rows[i].name < m.name
    <2>1. InTurn(db.rows[i].name, db.rows[i].body, dir, Recorded(db.rows)) BY <1>3 DEF RowsTidy
    <2>2. m.name \in Files(dir) BY DEF InTurn
    <2>3. ~(m.name < db.rows[i].name) BY <1>1, <2>1, <2>2 DEF InTurn
    <2>4. db.rows[i].name \in Recorded(db.rows) BY <1>3 DEF Recorded
    <2>5. db.rows[i].name # m.name BY <1>1, <2>4
    <2> HIDE DEF len
    <2> QED BY <1>4, <2>3, <2>5
  <1> HIDE DEF len
  <1>6. \A i, j \in DOMAIN db'.rows : i < j => db'.rows[i].name < db'.rows[j].name
    <2> SUFFICES ASSUME NEW i \in DOMAIN db'.rows, NEW j \in DOMAIN db'.rows, i < j PROVE db'.rows[i].name < db'.rows[j].name
      OBVIOUS
    <2>1. i \in 1..len BY <1>3
    <2>2. CASE j = len + 1 BY <1>3, <1>5, <2>1, <2>2
    <2>3. CASE j # len + 1
      <3>1. j \in 1..len BY <1>3, <2>3
      <3> QED BY <1>3, <2>1, <3>1 DEF RowsTidy
    <2> QED BY <2>2, <2>3
  <1>7. ASSUME NEW i \in DOMAIN db'.rows PROVE InTurn(db'.rows[i].name, db'.rows[i].body, dir', Recorded(db'.rows))
    <2>1. CASE i = len + 1 BY <1>2, <1>3, <2>1, InTurnGrows
    <2>2. CASE i # len + 1
      <3>1. i \in 1..len BY <1>3, <2>2
      <3>2. InTurn(db.rows[i].name, db.rows[i].body, dir, Recorded(db.rows)) BY <1>3, <3>1 DEF RowsTidy
      <3> QED BY <1>2, <1>3, <3>1, <3>2, InTurnGrows
    <2> QED BY <2>1, <2>2
  <1> QED BY <1>6, <1>7 DEF RowsTidy

(* Steps that leave the directory alone, and change rows only by a landing. *)
LEMMA TidyKept ==
  ASSUME Inv, Next, RowsTidy, BatchesTidy, dir' = dir
  PROVE  /\ RowsTidy'
         /\ \A n, b : InTurn(n, b, dir, Recorded(db.rows)) => InTurn(n, b, dir', Recorded(db'.rows))
  <1>1. \A n, b : InTurn(n, b, dir, Recorded(db.rows)) => InTurn(n, b, dir', Recorded(db'.rows))
    BY RowsGrow, InTurnGrows
  <1>2. CASE db'.rows = db.rows BY <1>2 DEF RowsTidy
  <1>3. CASE \E p \in Proc : Working(p) /\ Landed(req[p].m)
    <2>1. PICK p \in Proc : Working(p) /\ Landed(req[p].m) BY <1>3
    <2> DEFINE m == req[p].m
    <2>2. Landed(m) /\ InTurn(m.name, m.body, dir, Recorded(db.rows)) BY <2>1 DEF BatchesTidy
    <2> HIDE DEF m
    <2> QED BY <1>1, <2>2, LandingTidy
  <1> QED BY <1>1, <1>2, <1>3, Landing

LEMMA TidyStep ==
  ASSUME Inv, Next, TidyInv
  PROVE  TidyInv'
  <1> SUFFICES ASSUME tidy' PROVE (RowsTidy /\ BatchesTidy /\ RunsTidy)'
    BY DEF TidyInv
  <1>0. /\ OthersTypeOK /\ run \in [Proc -> CommandState] /\ dir \in [Name -> Body \cup {None}]
        /\ req \in [Proc -> Request \cup [state : {"none", "well", "failed"}]]
        /\ ServerTypeOK
    BY DEF Inv, OthersTypeOK, ServerInv, ServerTypeOK
  <1>1. ASSUME NEW p \in Proc, Server(p) PROVE (RowsTidy /\ BatchesTidy /\ RunsTidy)'
    <2>1. tidy /\ dir' = dir /\ run' = run BY <1>1 DEF Server
    <2>2. RowsTidy /\ BatchesTidy /\ RunsTidy BY <2>1 DEF TidyInv
    <2>3. RowsTidy' /\ RunsTidy' BY <2>1, <2>2, TidyKept DEF RunsTidy
    <2>4. \A q \in Proc : Working(q)' => Working(q) /\ req'[q].m = req[q].m
      <3>1. \A q \in Proc \ {p} : req'[q] = req[q] BY <1>1, ServerRequest
      <3>2. Working(p) /\ (~EndRequest(p) => req'[p].m = req[p].m) BY <1>1, ServerRequest
      <3>3. EndRequest(p) => ~Working(p)' BY <1>0 DEF EndRequest, Working, NoRequest
      <3> QED BY <3>1, <3>2, <3>3 DEF Working
    <2>5. BatchesTidy' BY <2>1, <2>2, <2>4, TidyKept DEF BatchesTidy
    <2> QED BY <2>3, <2>5
  <1>2. ASSUME tidy, dir' = dir, \A q \in Proc : Working(q)' => Working(q) /\ req'[q].m = req[q].m,
               \A q \in Proc : run'[q].files = run[q].files \/ Files(run'[q].files) = {} \/ run'[q].files = dir
        PROVE (RowsTidy /\ BatchesTidy /\ RunsTidy)'
    <2>1. RowsTidy /\ BatchesTidy /\ RunsTidy BY <1>2 DEF TidyInv
    <2>2. RowsTidy' BY <1>2, <2>1, TidyKept
    <2>3. BatchesTidy' BY <1>2, <2>1, TidyKept DEF BatchesTidy
    <2>4. RunsTidy' BY <1>2, <2>1 DEF RunsTidy, InTurn
    <2> QED BY <2>2, <2>3, <2>4
  <1>3. ASSUME NEW p \in Proc, NEW r, req' = [req EXCEPT ![p] = r], r.state # "working"
        PROVE \A q \in Proc : Working(q)' => Working(q) /\ req'[q].m = req[q].m
    BY <1>0, <1>3 DEF Working
  <1>4. ASSUME NEW p \in Proc, NEW well \in BOOLEAN, Ends(p, well)
        PROVE \A q \in Proc : run'[q].files = run[q].files \/ Files(run'[q].files) = {}
    <2>1. Files(Idle.files) = {} BY DEF Idle, Files
    <2>2. \A q \in Proc \ {p} : run'[q] = run[q] BY <1>0, <1>4, EndsType
    <2>3. CASE well
      <3>1. run'[p] = [run[p] EXCEPT !.pc = "idle", !.left = {}, !.well = TRUE] BY <1>0, <1>4, <2>3, EndsType
      <3>2. run'[p].files = run[p].files BY <1>0, <3>1 DEF CommandState
      <3> QED BY <2>2, <3>2
    <2>4. CASE ~well
      <3>1. run'[p] = Idle BY <1>0, <1>4, <2>4, EndsType
      <3> QED BY <2>1, <2>2, <3>1
    <2> QED BY <2>3, <2>4
  <1>5. NoRequest.state # "working" BY DEF NoRequest
  <1>6. ASSUME NEW p \in Proc, Start(p) PROVE (RowsTidy /\ BatchesTidy /\ RunsTidy)'
    <2>1. tidy /\ dir' = dir /\ req' = req BY <1>6 DEF Start
    <2>2. \A q \in Proc : run'[q].files = run[q].files \/ run'[q].files = dir BY <1>0, <1>6 DEF Start, Idle
    <2> QED BY <1>2, <2>1, <2>2 DEF Working
  <1>7. ASSUME NEW p \in Proc, TemplateStart(p) PROVE (RowsTidy /\ BatchesTidy /\ RunsTidy)'
    <2>1. tidy /\ dir' = dir /\ req' = req BY <1>7 DEF TemplateStart
    <2>2. \A q \in Proc : run'[q].files = run[q].files \/ Files(run'[q].files) = {}
      BY <1>0, <1>7 DEF TemplateStart, Idle, Files
    <2> QED BY <1>2, <2>1, <2>2 DEF Working
  <1>8. ASSUME NEW p \in Proc, NEW drift \in BOOLEAN, ReadHistory(p, drift) PROVE (RowsTidy /\ BatchesTidy /\ RunsTidy)'
    <2>1. tidy /\ dir' = dir /\ req' = req BY <1>8 DEF ReadHistory
    <2>2. \A q \in Proc : run'[q].files = run[q].files \/ Files(run'[q].files) = {}
      <3>1. ASSUME NEW left, run' = [run EXCEPT ![p].pc = "ensure", ![p].left = left]
            PROVE \A q \in Proc : run'[q].files = run[q].files
        BY <1>0, <3>1 DEF CommandState
      <3> QED BY <1>4, <1>8, <3>1 DEF ReadHistory
    <2> QED BY <1>2, <2>1, <2>2 DEF Working
  <1>9. ASSUME NEW p \in Proc, NEW n \in Name, NEW b \in Body, WriteTemplate(p, n, b)
        PROVE (RowsTidy /\ BatchesTidy /\ RunsTidy)'
    <2>1. tidy /\ Files(dir) = {} /\ db' = db /\ req' = req /\ dir' = [dir EXCEPT ![n] = b]
      BY <1>9 DEF WriteTemplate
    <2>2. RowsTidy /\ BatchesTidy /\ RunsTidy BY <2>1 DEF TidyInv
    <2>3. DOMAIN db.rows = {} BY <2>1, <2>2, NobodyInTurn DEF RowsTidy
    <2>4. RowsTidy' BY <2>1, <2>3 DEF RowsTidy
    <2>5. BatchesTidy' BY <2>1, <2>2, NobodyInTurn DEF BatchesTidy, Working
    <2>6. PICK c \in CommandState : run' = [run EXCEPT ![p] = c] /\ Files(c.files) = {n} /\ c.files[n] = b
      <3>1. \E c \in CommandState :
              /\ run' = [run EXCEPT ![p] = c]
              /\ c.pc = "ensure" /\ c.left = {n} /\ c.mine = run[p].mine /\ c.well = run[p].well
              /\ c.files \in [Name -> Body \cup {None}] /\ Files(c.files) = {n} /\ c.files[n] = b
        BY <1>9, WriteRun
      <3> QED BY <3>1
    <2>7. dir'[n] = b /\ Files(dir') = {n}
      BY <1>0, <2>1, NoneIsNoBody DEF Files
    <2>8. InTurn(n, b, dir', {n}) BY <2>7, NamesOrdered DEF InTurn
    <2>9. ASSUME NEW q \in Proc, q # p PROVE Files(run'[q].files) = {}
      <3>1. run'[q] = run[q] BY <1>0, <2>6, <2>9
      <3> QED BY <2>1, <2>2, <3>1, NobodyInTurn DEF RunsTidy
    <2>10. run'[p] = c BY <1>0, <2>6
    <2>11. RunsTidy' BY <2>6, <2>8, <2>9, <2>10 DEF RunsTidy
    <2> QED BY <2>4, <2>5, <2>11
  <1>10. ASSUME NEW p \in Proc, EnsureTable(p) PROVE (RowsTidy /\ BatchesTidy /\ RunsTidy)'
    <2>1. tidy /\ dir' = dir /\ req' = req BY <1>10 DEF EnsureTable
    <2>2. \A q \in Proc : run'[q].files = run[q].files BY <1>0, <1>10 DEF EnsureTable, Goes, CommandState
    <2> QED BY <1>2, <2>1, <2>2 DEF Working
  <1>11. ASSUME NEW p \in Proc, NEW n \in Name, SendBatch(p, n) PROVE (RowsTidy /\ BatchesTidy /\ RunsTidy)'
    <2> DEFINE m == [name |-> n, body |-> run[p].files[n]]
               f == run[p].files
    <2>1. tidy /\ dir' = dir /\ db' = db /\ n \in run[p].left /\ run[p].pc = "next" /\ \A k \in run[p].left : n <= k
      BY <1>11 DEF SendBatch
    <2>2. RowsTidy /\ BatchesTidy /\ RunsTidy BY <2>1 DEF TidyInv
    <2>3. m \in Migration /\ req' = [req EXCEPT ![p] = Sent(m)] BY <1>11, SendShape
    <2>4. Sent(m).m = m BY <1>0, <2>3, SentShape
    <2>5. \A q \in Proc : run'[q].files = run[q].files BY <1>0, <1>11 DEF SendBatch, CommandState
    <2>6. Done(run[p], {}, db.rows) /\ n \in Files(f) BY <2>1 DEF Inv, CommandsOK, CommandOK
    <2>7. InTurn(n, f[n], dir, Files(f)) BY <2>2, <2>6 DEF RunsTidy
    <2>8. ASSUME NEW k \in Files(dir), k < n PROVE k \in Recorded(db.rows)
      <3>1. k \in Files(f) BY <2>7, <2>8 DEF InTurn
      <3>2. k \in Nat /\ n \in Nat BY NamesOrdered DEF Files
      <3>3. k \notin run[p].left BY <2>1, <2>8, <3>2
      <3> QED BY <2>6, <3>1, <3>3 DEF Done
    <2>9. InTurn(m.name, m.body, dir, Recorded(db.rows)) BY <2>7, <2>8 DEF InTurn
    <2> HIDE DEF m
    <2>10. ASSUME NEW q \in Proc, Working(q)' PROVE InTurn(req'[q].m.name, req'[q].m.body, dir', Recorded(db'.rows))
      <3>1. CASE q = p BY <1>0, <2>1, <2>3, <2>4, <2>9, <3>1
      <3>2. CASE q # p BY <1>0, <2>1, <2>2, <2>3, <2>10, <3>2 DEF Working, BatchesTidy
      <3> QED BY <3>1, <3>2
    <2>11. BatchesTidy' BY <2>10 DEF BatchesTidy
    <2>12. RowsTidy' BY <2>1, <2>2 DEF RowsTidy
    <2>13. RunsTidy' BY <2>1, <2>2, <2>5 DEF RunsTidy
    <2> QED BY <2>11, <2>12, <2>13
  <1>12. ASSUME NEW p \in Proc, Answered(p) PROVE (RowsTidy /\ BatchesTidy /\ RunsTidy)'
    <2>1. tidy /\ dir' = dir /\ req' = [req EXCEPT ![p] = NoRequest] BY <1>12 DEF Answered
    <2>2. \A q \in Proc : run'[q].files = run[q].files BY <1>0, <1>12 DEF Answered, Goes, CommandState
    <2> QED BY <1>2, <1>3, <1>5, <2>1, <2>2
  <1>13. ASSUME NEW p \in Proc, Failed(p) PROVE (RowsTidy /\ BatchesTidy /\ RunsTidy)'
    <2>1. tidy /\ dir' = dir /\ req' = [req EXCEPT ![p] = NoRequest] /\ Ends(p, FALSE) BY <1>13 DEF Failed
    <2> QED BY <1>2, <1>3, <1>4, <1>5, <2>1
  <1>14. ASSUME NEW p \in Proc, AllApplied(p) PROVE (RowsTidy /\ BatchesTidy /\ RunsTidy)'
    <2>1. tidy /\ dir' = dir /\ req' = req /\ Ends(p, TRUE) BY <1>14 DEF AllApplied
    <2> QED BY <1>2, <1>4, <2>1 DEF Working
  <1>15. ASSUME NEW p \in Proc, Dies(p) PROVE (RowsTidy /\ BatchesTidy /\ RunsTidy)'
    <2>1. tidy /\ dir' = dir /\ Ends(p, FALSE) BY <1>15 DEF Dies
    <2>2. \A q \in Proc : Working(q)' => Working(q) /\ req'[q].m = req[q].m
      <3>1. CASE Working(p) BY <1>0, <1>15, <3>1 DEF Dies, Working
      <3>2. CASE ~Working(p) BY <1>3, <1>5, <1>15, <3>2 DEF Dies
      <3> QED BY <3>1, <3>2
    <2> QED BY <1>2, <1>4, <2>1, <2>2
  <1>16. ASSUME NEW n \in Name, NEW b \in Body \cup {None}, EditFile(n, b) PROVE (RowsTidy /\ BatchesTidy /\ RunsTidy)'
    <2>1. tidy /\ b \in Body /\ AtEnd(n) /\ dir[n] # b /\ dir' = [dir EXCEPT ![n] = b] /\ UNCHANGED <<db, req, run>>
      BY <1>16 DEF EditFile
    <2>2. RowsTidy /\ BatchesTidy /\ RunsTidy BY <2>1 DEF TidyInv
    <2>3. \A k, x, S : InTurn(k, x, dir, S) => InTurn(k, x, dir', S) BY <2>1, InTurnExtends
    <2> QED BY <2>1, <2>2, <2>3 DEF RowsTidy, BatchesTidy, RunsTidy, Working
  <1> QED BY <1>1, <1>6, <1>7, <1>8, <1>9, <1>10, <1>11, <1>12, <1>13, <1>14, <1>15, <1>16 DEF Next, Command

(* While files are only added at the end, the rows are the first files of the directory in order, whoever applied them. *)
THEOREM HistoryInOrder ==
  Spec => []HistoryIsPrefix
  <1>1. Init => TidyInv
    <2>1. Init => Files(dir) = {} /\ db.rows = <<>> /\ \A p \in Proc : ~Working(p) /\ Files(run[p].files) = {}
      BY DEF Init, Files, Idle, Working, NoRequest
    <2> QED BY <2>1 DEF TidyInv, RowsTidy, BatchesTidy, RunsTidy
  <1>2. Inv /\ TidyInv /\ [Next]_vars => TidyInv'
    <2>1. ASSUME TidyInv, UNCHANGED vars PROVE TidyInv'
      BY <2>1 DEF vars, TidyInv, RowsTidy, BatchesTidy, RunsTidy, Working
    <2> QED BY <2>1, TidyStep
  <1>3. TidyInv => HistoryIsPrefix BY DEF TidyInv, RowsTidy, InTurn, HistoryIsPrefix
  <1> QED BY <1>1, <1>2, <1>3, Invariant, PTL DEF Spec
===============================================================================
