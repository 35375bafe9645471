------------------------- MODULE RefundRecoveryProofs -------------------------
(***************************************************************************)
(* What holds of RefundRecovery for any number of rows, charges, passes    *)
(* and attempts: every safety property that its run checks.                *)
(***************************************************************************)
EXTENDS RefundRecovery, FiniteSetTheorems, TLAPS

-----------------------------------------------------------------------------
(* Types. *)

RowRecord == [charge : Charges \cup {NoCharge}, attempts : 0..MaxAttempts, resolved : BOOLEAN]

PassRecord == [at : {"idle", "batch", "answer", "sweep", "close"}, batch : SUBSET Refunds,
               row : Refunds \cup {NoRefund}, ok : BOOLEAN]

\* All of RefundTypeOK but the number of calls, whose bound rests on Credit.
TablesTypeOK ==
  /\ row \in [Refunds -> RowRecord]
  /\ returned \in SUBSET Charges
  /\ lease \in BOOLEAN
  /\ pass \in [Passes -> PassRecord]
  /\ compensation \in [Charges -> {"none", "call", "log", "persist", "done", "dropped"}]
  /\ recorder \in [Recorders -> Charges \cup {NoCharge}]
  /\ calls \in [Refunds -> Nat]
  /\ accepted \in SUBSET Refunds
  /\ compensated \in SUBSET Charges
  /\ handedOver \in SUBSET Refunds
  /\ disturbed \in SUBSET Refunds
  /\ \A p \in Passes : pass[p].at \in {"answer", "close"} => pass[p].row \in Refunds

\* A row that does not exist is as it was at the beginning.
Unused == \A r \in Refunds : ~Exists(r) => row[r].attempts = 0 /\ ~row[r].resolved

\* Whatever a pass holds is a row.
HeldRowsExist ==
  \A p \in Passes :
    /\ pass[p].row \notin pass[p].batch
    /\ \A r \in pass[p].batch : Exists(r)
    /\ pass[p].at \in {"answer", "close"} => Exists(pass[p].row)

RowsInv == Unused /\ HeldRowsExist

LEMMA PassMoves ==
  ASSUME TablesTypeOK, NEW p \in Passes,
         NEW a \in {"idle", "batch", "answer", "sweep", "close"}, NEW B \in SUBSET Refunds,
         NEW r \in Refunds \cup {NoRefund}, NEW ok \in BOOLEAN,
         pass' = [pass EXCEPT ![p] = Doing(a, B, r, ok)],
         a \in {"answer", "close"} => r \in Refunds
  PROVE  /\ pass' \in [Passes -> PassRecord]
         /\ \A q \in Passes : pass'[q].at \in {"answer", "close"} => pass'[q].row \in Refunds
<1>1. Doing(a, B, r, ok) \in PassRecord BY DEF Doing, PassRecord
<1>2. Doing(a, B, r, ok).at = a /\ Doing(a, B, r, ok).row = r BY DEF Doing
<1>3. QED BY <1>1, <1>2 DEF TablesTypeOK

LEMMA PassesBatches ==
  ASSUME TablesTypeOK, NEW p \in Passes
  PROVE  pass[p].batch \in SUBSET Refunds /\ pass[p].row \in Refunds \cup {NoRefund}
BY DEF TablesTypeOK, PassRecord

LEMMA TypesInitially == RefundInit => TablesTypeOK
<1> SUFFICES ASSUME RefundInit PROVE TablesTypeOK OBVIOUS
<1>1. Resting \in PassRecord /\ Resting.at = "idle" BY DEF Resting, Doing, PassRecord
<1>2. Owing(NoCharge) \in RowRecord BY MaxAttemptsAssumption DEF Owing, RowRecord
<1>3. pass \in [Passes -> PassRecord] /\ \A p \in Passes : pass[p].at = "idle"
  BY <1>1 DEF RefundInit
<1>4. row \in [Refunds -> RowRecord] BY <1>2 DEF RefundInit
<1>5. \A p \in Passes : pass[p].at \notin {"answer", "close"} BY <1>3
<1>6. /\ returned \in SUBSET Charges
      /\ compensation \in [Charges -> {"none", "call", "log", "persist", "done", "dropped"}]
      /\ recorder \in [Recorders -> Charges \cup {NoCharge}]
      /\ calls \in [Refunds -> Nat]
  BY DEF RefundInit
<1>7. lease \in BOOLEAN /\ accepted = {} /\ compensated = {} /\ handedOver = {} /\ disturbed = {}
  BY DEF RefundInit
<1>8. QED BY <1>3, <1>4, <1>5, <1>6, <1>7 DEF TablesTypeOK

LEMMA CreateRowTypes ==
  ASSUME TablesTypeOK, NEW r \in Refunds, NEW c \in Charges, CreateRow(r, c)
  PROVE  row' \in [Refunds -> RowRecord]
BY MaxAttemptsAssumption DEF TablesTypeOK, CreateRow, Owing, RowRecord

LEMMA OweKeepsTypes == TablesTypeOK /\ Owe => TablesTypeOK'
<1> SUFFICES ASSUME TablesTypeOK, Owe PROVE TablesTypeOK' OBVIOUS
<1> USE DEF TablesTypeOK, historyVars
<1>1. ASSUME NEW c \in Charges, NEW k \in Recorders, Look(k, c) PROVE TablesTypeOK'
  BY <1>1 DEF Look
<1>2. ASSUME NEW c \in Charges, Compensate(c) PROVE TablesTypeOK'
  BY <1>2 DEF Compensate, Proceed
<1>3. ASSUME NEW c \in Charges, CompensationCall(c) PROVE TablesTypeOK'
  BY <1>3 DEF CompensationCall, Proceed, PayBack
<1>4. ASSUME NEW c \in Charges, CompensationLog(c) PROVE TablesTypeOK'
  BY <1>4 DEF CompensationLog, Proceed
<1>5. ASSUME NEW c \in Charges, CompensationDropped(c) PROVE TablesTypeOK'
  BY <1>5 DEF CompensationDropped, Proceed
<1>6. ASSUME NEW c \in Charges, NEW r \in Refunds, Persist(c, r) PROVE TablesTypeOK'
  <2>1. row' \in [Refunds -> RowRecord] BY <1>6, CreateRowTypes DEF Persist
  <2>2. QED BY <1>6, <2>1 DEF Persist, Proceed
<1>7. ASSUME NEW k \in Recorders, NEW r \in Refunds, Record(k, r) PROVE TablesTypeOK'
  <2>1. recorder[k] \in Charges BY <1>7 DEF Record
  <2>2. row' \in [Refunds -> RowRecord] BY <1>7, <2>1, CreateRowTypes DEF Record
  <2>3. QED BY <1>7, <2>2 DEF Record
<1>8. QED BY <1>1, <1>2, <1>3, <1>4, <1>5, <1>6, <1>7 DEF Owe

LEMMA ResolvedTypes ==
  ASSUME TablesTypeOK, NEW r \in Refunds, row' = [row EXCEPT ![r].resolved = TRUE]
  PROVE  row' \in [Refunds -> RowRecord]
BY DEF TablesTypeOK, RowRecord

LEMMA RecoverKeepsTypes == TablesTypeOK /\ RowsInv /\ Recover => TablesTypeOK'
<1> SUFFICES ASSUME TablesTypeOK, RowsInv, Recover PROVE TablesTypeOK' OBVIOUS
<1> USE DEF historyVars
<1> DEFINE Typed == /\ pass' \in [Passes -> PassRecord]
                    /\ \A q \in Passes :
                         pass'[q].at \in {"answer", "close"} => pass'[q].row \in Refunds
<1>1. CASE LeaseExpires BY <1>1 DEF LeaseExpires, TablesTypeOK
<1>2. ASSUME NEW p \in Passes, Claim(p) PROVE TablesTypeOK'
  <2> DEFINE S == {r \in Refunds : Open(r) /\ row[r].attempts < MaxAttempts}
  <2>1. row' \in [Refunds -> RowRecord]
    <3>1. ASSUME NEW r \in S PROVE [row[r] EXCEPT !.attempts = @ + 1] \in RowRecord
      BY MaxAttemptsAssumption DEF RowRecord, TablesTypeOK
    <3>2. QED BY <1>2, <3>1 DEF Claim, TablesTypeOK
  <2>2. pass' = [pass EXCEPT ![p] = Doing("batch", S, NoRefund, FALSE)] BY <1>2 DEF Claim
  <2>3. Typed BY <2>2, PassMoves
  <2>4. QED BY <1>2, <2>1, <2>3 DEF Claim, TablesTypeOK
<1>3. ASSUME NEW p \in Passes, Write(p) PROVE TablesTypeOK'
  <2>1. row' \in [Refunds -> RowRecord] BY <1>3, ResolvedTypes DEF Write, TablesTypeOK
  <2>2. pass' = [pass EXCEPT ![p] = Doing("batch", pass[p].batch, NoRefund, FALSE)]
    BY <1>3 DEF Write
  <2>3. Typed BY <2>2, PassMoves, PassesBatches
  <2>4. QED BY <1>3, <2>1, <2>3 DEF Write, TablesTypeOK
<1>4. ASSUME NEW p \in Passes, WriteFails(p) PROVE TablesTypeOK'
  <2>1. \/ pass' = [pass EXCEPT ![p] = Doing("idle", {}, NoRefund, FALSE)]
        \/ pass' = [pass EXCEPT ![p] = Doing("batch", pass[p].batch, NoRefund, FALSE)]
    BY <1>4 DEF WriteFails, Resting
  <2>2. Typed BY <2>1, PassMoves, PassesBatches
  <2>3. InHand(p) \cup {pass[p].row} \subseteq Refunds
    BY <1>4, PassesBatches DEF WriteFails, InHand, TablesTypeOK
  <2>4. disturbed' \in SUBSET Refunds BY <1>4, <2>3 DEF WriteFails, TablesTypeOK
  <2>5. UNCHANGED <<row, returned, lease, compensation, recorder,
                   calls, accepted, compensated, handedOver>>
    BY <1>4 DEF WriteFails
  <2>6. QED BY <2>2, <2>4, <2>5 DEF TablesTypeOK
<1>5. ASSUME NEW p \in Passes, Sweep(p) PROVE TablesTypeOK'
  <2> DEFINE S == {r \in Refunds : Open(r) /\ row[r].attempts >= MaxAttempts}
  <2>1. pass' = [pass EXCEPT ![p] = Doing("sweep", S, NoRefund, FALSE)] BY <1>5 DEF Sweep
  <2>2. Typed BY <2>1, PassMoves
  <2>3. QED BY <1>5, <2>2 DEF Sweep, TablesTypeOK
<1>6. ASSUME NEW p \in Passes, Close(p) PROVE TablesTypeOK'
  <2>1. row' \in [Refunds -> RowRecord] BY <1>6, ResolvedTypes DEF Close, TablesTypeOK
  <2>2. pass' = [pass EXCEPT ![p] = Doing("sweep", pass[p].batch, NoRefund, FALSE)]
    BY <1>6 DEF Close
  <2>3. Typed BY <2>2, PassMoves, PassesBatches
  <2>4. QED BY <1>6, <2>1, <2>3 DEF Close, TablesTypeOK
<1>7. ASSUME NEW p \in Passes, EndPass(p) PROVE TablesTypeOK'
  <2>1. pass' = [pass EXCEPT ![p] = Doing("idle", {}, NoRefund, FALSE)]
    BY <1>7 DEF EndPass, Resting
  <2>2. Typed BY <2>1, PassMoves
  <2>3. QED BY <1>7, <2>2 DEF EndPass, TablesTypeOK
<1>8. ASSUME NEW p \in Passes, PassDies(p) PROVE TablesTypeOK'
  <2>1. InHand(p) \subseteq Refunds BY PassesBatches DEF InHand
  <2>2. pass' = [pass EXCEPT ![p] = Doing("idle", {}, NoRefund, FALSE)]
    BY <1>8 DEF PassDies, Resting
  <2>3. Typed BY <2>2, PassMoves
  <2>4. QED BY <1>8, <2>1, <2>3 DEF PassDies, TablesTypeOK
<1>9. ASSUME NEW p \in Passes, NEW r \in Refunds, Call(p, r) PROVE TablesTypeOK'
  <2>1. PICK moved \in BOOLEAN, ok \in BOOLEAN :
          /\ IF moved THEN PayBack(row[r].charge) ELSE UNCHANGED returned
          /\ accepted' = IF moved THEN accepted \cup {r} ELSE accepted
          /\ disturbed' = IF moved /\ ~ok THEN disturbed \cup {r} ELSE disturbed
          /\ pass' = [pass EXCEPT ![p] = Doing("answer", pass[p].batch \ {r}, r, ok)]
    BY <1>9 DEF Call
  <2>2. returned' \in SUBSET Charges
    <3>1. r \in Refunds /\ row[r].charge \in Charges
      BY <1>9 DEF Call, RowsInv, HeldRowsExist, Exists, TablesTypeOK, RowRecord
    <3>2. QED BY <2>1, <3>1 DEF PayBack, TablesTypeOK
  <2>3. Typed BY <2>1, PassMoves, PassesBatches
  <2>4. calls' \in [Refunds -> Nat] BY <1>9 DEF Call, TablesTypeOK
  <2>5. QED BY <1>9, <2>1, <2>2, <2>3, <2>4 DEF Call, TablesTypeOK
<1>10. ASSUME NEW p \in Passes, NEW r \in Refunds, HandOver(p, r) PROVE TablesTypeOK'
  <2>1. pass' = [pass EXCEPT ![p] = Doing("close", pass[p].batch \ {r}, r, FALSE)]
    BY <1>10 DEF HandOver
  <2>2. Typed BY <2>1, PassMoves, PassesBatches
  <2>3. QED BY <1>10, <2>2 DEF HandOver, TablesTypeOK
<1>11. QED
  BY <1>1, <1>2, <1>3, <1>4, <1>5, <1>6, <1>7, <1>8, <1>9, <1>10 DEF Recover

-----------------------------------------------------------------------------
(* Calls are made within the attempts. *)

\* The passes that have claimed a row and not called for it yet.
Claimers(r) == {p \in Passes : pass[p].at \in {"batch", "answer"} /\ r \in pass[p].batch}

Credit == \A r \in Refunds : calls[r] + Cardinality(Claimers(r)) <= row[r].attempts

LEMMA ClaimersFinite ==
  ASSUME NEW r
  PROVE  IsFiniteSet(Claimers(r)) /\ Cardinality(Claimers(r)) \in Nat
<1>1. Claimers(r) \in SUBSET Passes BY DEF Claimers
<1>2. IsFiniteSet(Claimers(r)) BY <1>1, PassesAssumption, FS_Subset
<1>3. QED BY <1>2, FS_CardinalityType

LEMMA ClaimersShrink ==
  ASSUME TablesTypeOK, Credit, NEW r \in Refunds, Claimers(r)' \subseteq Claimers(r),
         calls'[r] = calls[r], row'[r].attempts = row[r].attempts
  PROVE  calls'[r] + Cardinality(Claimers(r)') <= row'[r].attempts
<1>1. /\ IsFiniteSet(Claimers(r)') /\ Cardinality(Claimers(r)') \in Nat
      /\ Cardinality(Claimers(r)') <= Cardinality(Claimers(r))
  BY ClaimersFinite, FS_Subset, FS_CardinalityType
<1>2. calls[r] + Cardinality(Claimers(r)) <= row[r].attempts BY DEF Credit
<1>3. calls[r] \in Nat /\ row[r].attempts \in Nat
  BY MaxAttemptsAssumption DEF TablesTypeOK, RowRecord
<1>4. QED BY <1>1, <1>2, <1>3, ClaimersFinite

LEMMA RowsInitially == RefundInit => RowsInv
BY NoneAssumption DEF RefundInit, RowsInv, Unused, HeldRowsExist, Exists, Owing, Resting, Doing

LEMMA CreateRowKeepsRows ==
  ASSUME TablesTypeOK, RowsInv, NEW r \in Refunds, NEW c \in Charges, CreateRow(r, c)
  PROVE  /\ Unused'
         /\ \A s \in Refunds : Exists(s) => Exists(s)' /\ row'[s] = row[s]
         /\ \A s \in Refunds : row'[s].attempts = row[s].attempts
                             /\ row'[s].resolved = row[s].resolved
<1>1. /\ row'[r].charge = c /\ row'[r].attempts = 0 /\ row'[r].resolved = FALSE
      /\ \A s \in Refunds : s # r => row'[s] = row[s]
  BY DEF CreateRow, Owing, TablesTypeOK
<1>2. c # NoCharge /\ row[r].charge = NoCharge BY NoneAssumption DEF CreateRow, Exists
<1>3. row[r].attempts = 0 /\ row[r].resolved = FALSE
  BY <1>2 DEF TablesTypeOK, RowsInv, Unused, Exists, RowRecord
<1>4. QED BY <1>1, <1>2, <1>3 DEF RowsInv, Unused, Exists

\* Neither a claim nor closing a row changes which rows there are.
LEMMA ExistingRows ==
  ASSUME \A r \in Refunds : row'[r].charge = row[r].charge
  PROVE  \A r \in Refunds : Exists(r)' = Exists(r)
BY DEF Exists

LEMMA ResolvingKeepsRows ==
  ASSUME TablesTypeOK, RowsInv, NEW r \in Refunds, Exists(r),
         row' = [row EXCEPT ![r].resolved = TRUE]
  PROVE  /\ Unused'
         /\ \A s \in Refunds : Exists(s)' = Exists(s)
         /\ \A s \in Refunds : row'[s].charge = row[s].charge
                             /\ row'[s].attempts = row[s].attempts
         /\ \A s \in Refunds : s # r => row'[s] = row[s]
         /\ row'[r].resolved
BY DEF TablesTypeOK, RowsInv, Unused, Exists, RowRecord

\* What Claim does to the rows.
LEMMA ClaimedRows ==
  ASSUME TablesTypeOK, NEW p \in Passes, Claim(p), NEW r \in Refunds
  PROVE  /\ row'[r].charge = row[r].charge /\ row'[r].resolved = row[r].resolved
         /\ row'[r].attempts = IF r \in pass'[p].batch THEN row[r].attempts + 1
                               ELSE row[r].attempts
         /\ r \in pass'[p].batch => Open(r)
BY DEF Claim, TablesTypeOK, RowRecord, Doing

\* The moves of the passes, action by action.
LEMMA ClaimMove ==
  ASSUME TablesTypeOK, NEW p \in Passes, Claim(p)
  PROVE  /\ pass[p].at = "idle"
         /\ pass'[p].at = "batch" /\ pass'[p].row = NoRefund
         /\ \A r \in pass'[p].batch : r \in Refunds /\ Open(r) /\ row[r].attempts < MaxAttempts
         /\ \A q \in Passes : q # p => pass'[q] = pass[q]
<1> DEFINE S == {r \in Refunds : Open(r) /\ row[r].attempts < MaxAttempts}
<1>1. pass' = [pass EXCEPT ![p] = Doing("batch", S, NoRefund, FALSE)] BY DEF Claim
<1>2. QED BY <1>1 DEF Doing, TablesTypeOK, Claim

LEMMA CallMove ==
  ASSUME TablesTypeOK, NEW p \in Passes, NEW r \in Refunds, Call(p, r)
  PROVE  /\ pass[p].at = "batch" /\ r \in pass[p].batch
         /\ pass'[p].at = "answer" /\ pass'[p].row = r
         /\ pass'[p].batch = pass[p].batch \ {r}
         /\ \A q \in Passes : q # p => pass'[q] = pass[q]
<1>1. PICK ok \in BOOLEAN :
        pass' = [pass EXCEPT ![p] = Doing("answer", pass[p].batch \ {r}, r, ok)]
  BY DEF Call
<1>2. QED BY <1>1 DEF Doing, TablesTypeOK, Call

LEMMA WriteMove ==
  ASSUME TablesTypeOK, NEW p \in Passes, Write(p)
  PROVE  /\ pass[p].at = "answer"
         /\ pass'[p].at = "batch" /\ pass'[p].row = NoRefund /\ pass'[p].batch = pass[p].batch
         /\ \A q \in Passes : q # p => pass'[q] = pass[q]
<1>1. pass' = [pass EXCEPT ![p] = Doing("batch", pass[p].batch, NoRefund, FALSE)] BY DEF Write
<1>2. QED BY <1>1 DEF Doing, TablesTypeOK, Write

LEMMA WriteFailsMove ==
  ASSUME TablesTypeOK, NEW p \in Passes, WriteFails(p)
  PROVE  /\ pass[p].at = "answer"
         /\ pass'[p].at \in {"idle", "batch"} /\ pass'[p].row = NoRefund
         /\ pass'[p].batch \subseteq pass[p].batch
         /\ \A q \in Passes : q # p => pass'[q] = pass[q]
<1>1. \/ pass' = [pass EXCEPT ![p] = Doing("idle", {}, NoRefund, FALSE)]
      \/ pass' = [pass EXCEPT ![p] = Doing("batch", pass[p].batch, NoRefund, FALSE)]
  BY DEF WriteFails, Resting
<1>2. CASE pass' = [pass EXCEPT ![p] = Doing("idle", {}, NoRefund, FALSE)]
  <2>1. /\ pass'[p].at = "idle" /\ pass'[p].batch = {} /\ pass'[p].row = NoRefund
        /\ \A q \in Passes : q # p => pass'[q] = pass[q]
    BY <1>2 DEF Doing, TablesTypeOK
  <2>2. QED BY <2>1 DEF WriteFails
<1>3. CASE pass' = [pass EXCEPT ![p] = Doing("batch", pass[p].batch, NoRefund, FALSE)]
  <2>1. /\ pass'[p].at = "batch" /\ pass'[p].batch = pass[p].batch /\ pass'[p].row = NoRefund
        /\ \A q \in Passes : q # p => pass'[q] = pass[q]
    BY <1>3 DEF Doing, TablesTypeOK
  <2>2. QED BY <2>1 DEF WriteFails
<1>4. QED BY <1>1, <1>2, <1>3

LEMMA SweepMove ==
  ASSUME TablesTypeOK, NEW p \in Passes, Sweep(p)
  PROVE  /\ pass[p].at = "batch"
         /\ pass'[p].at = "sweep" /\ pass'[p].row = NoRefund
         /\ \A r \in pass'[p].batch : r \in Refunds /\ Open(r)
         /\ \A q \in Passes : q # p => pass'[q] = pass[q]
<1> DEFINE S == {r \in Refunds : Open(r) /\ row[r].attempts >= MaxAttempts}
<1>1. pass' = [pass EXCEPT ![p] = Doing("sweep", S, NoRefund, FALSE)] BY DEF Sweep
<1>2. QED BY <1>1 DEF Doing, TablesTypeOK, Sweep

LEMMA HandOverMove ==
  ASSUME TablesTypeOK, NEW p \in Passes, NEW r \in Refunds, HandOver(p, r)
  PROVE  /\ pass[p].at = "sweep" /\ r \in pass[p].batch
         /\ pass'[p].at = "close" /\ pass'[p].row = r
         /\ pass'[p].batch = pass[p].batch \ {r}
         /\ \A q \in Passes : q # p => pass'[q] = pass[q]
<1>1. pass' = [pass EXCEPT ![p] = Doing("close", pass[p].batch \ {r}, r, FALSE)] BY DEF HandOver
<1>2. QED BY <1>1 DEF Doing, TablesTypeOK, HandOver

LEMMA CloseMove ==
  ASSUME TablesTypeOK, NEW p \in Passes, Close(p)
  PROVE  /\ pass[p].at = "close"
         /\ pass'[p].at = "sweep" /\ pass'[p].row = NoRefund /\ pass'[p].batch = pass[p].batch
         /\ \A q \in Passes : q # p => pass'[q] = pass[q]
<1>1. pass' = [pass EXCEPT ![p] = Doing("sweep", pass[p].batch, NoRefund, FALSE)] BY DEF Close
<1>2. QED BY <1>1 DEF Doing, TablesTypeOK, Close

LEMMA EndMove ==
  ASSUME TablesTypeOK, NEW p \in Passes, EndPass(p) \/ PassDies(p)
  PROVE  /\ pass'[p].at = "idle" /\ pass'[p].row = NoRefund /\ pass'[p].batch = {}
         /\ \A q \in Passes : q # p => pass'[q] = pass[q]
<1>1. pass' = [pass EXCEPT ![p] = Doing("idle", {}, NoRefund, FALSE)]
  BY DEF EndPass, PassDies, Resting
<1>2. QED BY <1>1 DEF Doing, TablesTypeOK

\* An action of the requests leaves the passes alone and creates a row at most.
LEMMA OweEffect ==
  ASSUME TablesTypeOK, Owe
  PROVE  /\ UNCHANGED <<lease, pass, calls, accepted, handedOver, disturbed>>
         /\ UNCHANGED row \/ \E r \in Refunds, c \in Charges : CreateRow(r, c)
BY DEF Owe, Look, Compensate, CompensationCall, CompensationLog, CompensationDropped,
       Persist, Record, historyVars, TablesTypeOK

LEMMA OweKeepsRows ==
  ASSUME TablesTypeOK, RowsInv, Owe
  PROVE  /\ RowsInv'
         /\ \A r \in Refunds : Exists(r) => Exists(r)' /\ row'[r] = row[r]
         /\ \A r \in Refunds : row'[r].attempts = row[r].attempts
                             /\ row'[r].resolved = row[r].resolved
<1>1. CASE UNCHANGED row BY <1>1, OweEffect DEF RowsInv, Unused, HeldRowsExist, Exists
<1>2. ASSUME NEW r \in Refunds, NEW c \in Charges, CreateRow(r, c)
      PROVE  /\ RowsInv'
             /\ \A s \in Refunds : Exists(s) => Exists(s)' /\ row'[s] = row[s]
             /\ \A s \in Refunds : row'[s].attempts = row[s].attempts
                                 /\ row'[s].resolved = row[s].resolved
  <2>1. /\ Unused'
        /\ \A s \in Refunds : Exists(s) => Exists(s)' /\ row'[s] = row[s]
        /\ \A s \in Refunds : row'[s].attempts = row[s].attempts
                            /\ row'[s].resolved = row[s].resolved
    BY <1>2, CreateRowKeepsRows
  <2>2. pass' = pass BY OweEffect
  <2>3. HeldRowsExist' BY <2>1, <2>2, PassesBatches DEF HeldRowsExist, RowsInv, TablesTypeOK
  <2>4. QED BY <2>1, <2>3 DEF RowsInv
<1>3. QED BY <1>1, <1>2, OweEffect

LEMMA RecoverKeepsRows == TablesTypeOK /\ RowsInv /\ Recover => RowsInv'
<1> SUFFICES ASSUME TablesTypeOK, RowsInv, Recover PROVE RowsInv' OBVIOUS
<1> USE DEF RowsInv
<1>1. CASE LeaseExpires
  BY <1>1 DEF LeaseExpires, Unused, HeldRowsExist, Exists
<1>2. ASSUME NEW p \in Passes, Claim(p) PROVE RowsInv'
  <2>1. \A r \in Refunds : Exists(r)' = Exists(r) BY <1>2, ClaimedRows DEF Exists
  <2>2. Unused' BY <1>2, <2>1, ClaimMove, ClaimedRows DEF Unused, Open
  <2>3. HeldRowsExist'
    BY <1>2, <2>1, ClaimMove, NoneAssumption, PassesBatches DEF HeldRowsExist, Open, TablesTypeOK
  <2>4. QED BY <2>2, <2>3
<1>3. ASSUME NEW p \in Passes, Write(p) PROVE RowsInv'
  <2>1. pass[p].row \in Refunds /\ Exists(pass[p].row)
    BY <1>3 DEF Write, TablesTypeOK, HeldRowsExist
  <2>2. Unused' /\ \A r \in Refunds : Exists(r)' = Exists(r)
    BY <1>3, <2>1, ResolvingKeepsRows DEF Write, Unused, Exists
  <2>3. HeldRowsExist'
    BY <1>3, <2>2, WriteMove, NoneAssumption, PassesBatches DEF HeldRowsExist, TablesTypeOK
  <2>4. QED BY <2>2, <2>3
<1>4. ASSUME NEW p \in Passes, WriteFails(p) PROVE RowsInv'
  <2>1. row' = row BY <1>4 DEF WriteFails
  <2>2. QED
    BY <1>4, <2>1, WriteFailsMove, NoneAssumption, PassesBatches
    DEF Unused, HeldRowsExist, Exists, TablesTypeOK
<1>5. ASSUME NEW p \in Passes, Sweep(p) PROVE RowsInv'
  <2>1. row' = row BY <1>5 DEF Sweep
  <2>2. QED
    BY <1>5, <2>1, SweepMove, NoneAssumption, PassesBatches
    DEF Unused, HeldRowsExist, Exists, Open, TablesTypeOK
<1>6. ASSUME NEW p \in Passes, Close(p) PROVE RowsInv'
  <2>1. pass[p].row \in Refunds /\ Exists(pass[p].row)
    BY <1>6 DEF Close, TablesTypeOK, HeldRowsExist
  <2>2. Unused' /\ \A r \in Refunds : Exists(r)' = Exists(r)
    BY <1>6, <2>1, ResolvingKeepsRows DEF Close, Unused, Exists
  <2>3. HeldRowsExist'
    BY <1>6, <2>2, CloseMove, NoneAssumption, PassesBatches DEF HeldRowsExist, TablesTypeOK
  <2>4. QED BY <2>2, <2>3
<1>7. ASSUME NEW p \in Passes, EndPass(p) \/ PassDies(p) PROVE RowsInv'
  <2>1. row' = row BY <1>7 DEF EndPass, PassDies
  <2>2. QED
    BY <1>7, <2>1, EndMove, PassesBatches DEF Unused, HeldRowsExist, Exists, TablesTypeOK
<1>8. ASSUME NEW p \in Passes, NEW r \in Refunds, Call(p, r) PROVE RowsInv'
  <2>1. row' = row BY <1>8 DEF Call
  <2>2. QED
    BY <1>8, <2>1, CallMove, PassesBatches DEF Unused, HeldRowsExist, Exists, TablesTypeOK
<1>9. ASSUME NEW p \in Passes, NEW r \in Refunds, HandOver(p, r) PROVE RowsInv'
  <2>1. row' = row BY <1>9 DEF HandOver
  <2>2. QED
    BY <1>9, <2>1, HandOverMove, PassesBatches DEF Unused, HeldRowsExist, Exists, TablesTypeOK
<1>10. QED
  BY <1>1, <1>2, <1>3, <1>4, <1>5, <1>6, <1>7, <1>8, <1>9 DEF Recover

-----------------------------------------------------------------------------
(* Calls are within the attempts. *)

LEMMA CreditInitially == RefundInit => Credit
<1> SUFFICES ASSUME RefundInit, NEW r \in Refunds
             PROVE  calls[r] + Cardinality(Claimers(r)) <= row[r].attempts
  BY DEF Credit
<1>1. Claimers(r) = {} BY DEF RefundInit, Claimers, Resting, Doing
<1>2. calls[r] = 0 /\ row[r].attempts = 0 BY DEF RefundInit, Owing
<1>3. QED BY <1>1, <1>2, FS_EmptySet

LEMMA OweKeepsCredit == TablesTypeOK /\ RowsInv /\ Credit /\ Owe => Credit'
<1> SUFFICES ASSUME TablesTypeOK, RowsInv, Credit, Owe, NEW r \in Refunds
             PROVE  calls'[r] + Cardinality(Claimers(r)') <= row'[r].attempts
  BY DEF Credit
<1>1. Claimers(r)' \subseteq Claimers(r) /\ calls'[r] = calls[r]
  BY OweEffect DEF Claimers
<1>2. row'[r].attempts = row[r].attempts BY OweKeepsRows
<1>3. QED BY <1>1, <1>2, ClaimersShrink

LEMMA RecoverKeepsCredit == TablesTypeOK /\ RowsInv /\ Credit /\ Recover => Credit'
<1> SUFFICES ASSUME TablesTypeOK, RowsInv, Credit, Recover, NEW r \in Refunds
             PROVE  calls'[r] + Cardinality(Claimers(r)') <= row'[r].attempts
  BY DEF Credit
<1> DEFINE Kept == /\ Claimers(r)' \subseteq Claimers(r)
                   /\ calls'[r] = calls[r] /\ row'[r].attempts = row[r].attempts
<1>a. calls[r] + Cardinality(Claimers(r)) <= row[r].attempts BY DEF Credit
<1>b. calls[r] \in Nat /\ row[r].attempts \in Nat
  BY MaxAttemptsAssumption DEF TablesTypeOK, RowRecord
<1>1. CASE LeaseExpires
  <2>1. Kept BY <1>1 DEF LeaseExpires, Claimers
  <2>2. QED BY <2>1, ClaimersShrink
<1>2. ASSUME NEW p \in Passes, Claim(p)
      PROVE  calls'[r] + Cardinality(Claimers(r)') <= row'[r].attempts
  <2>1. calls' = calls BY <1>2 DEF Claim, historyVars
  <2>2. CASE r \in pass'[p].batch
    <3>1. Claimers(r)' = Claimers(r) \cup {p} /\ p \notin Claimers(r)
      BY <1>2, <2>2, ClaimMove DEF Claimers
    <3>2. Cardinality(Claimers(r)') = Cardinality(Claimers(r)) + 1
      BY <3>1, ClaimersFinite, FS_AddElement
    <3>3. row'[r].attempts = row[r].attempts + 1 BY <1>2, <2>2, ClaimedRows
    <3>4. QED BY <1>a, <1>b, <2>1, <3>2, <3>3, ClaimersFinite
  <2>3. CASE r \notin pass'[p].batch
    <3>1. Claimers(r)' \subseteq Claimers(r) BY <1>2, <2>3, ClaimMove DEF Claimers
    <3>2. row'[r].attempts = row[r].attempts BY <1>2, <2>3, ClaimedRows
    <3>3. QED BY <2>1, <3>1, <3>2, ClaimersShrink
  <2>4. QED BY <2>2, <2>3
<1>3. ASSUME NEW p \in Passes, NEW s \in Refunds, Call(p, s)
      PROVE  calls'[r] + Cardinality(Claimers(r)') <= row'[r].attempts
  <2>1. row' = row BY <1>3 DEF Call
  <2>2. CASE r = s
    <3>1. Claimers(r)' = Claimers(r) \ {p} /\ p \in Claimers(r)
      BY <1>3, <2>2, CallMove DEF Claimers
    <3>2. Cardinality(Claimers(r)') = Cardinality(Claimers(r)) - 1
      BY <3>1, ClaimersFinite, FS_RemoveElement
    <3>3. calls'[r] = calls[r] + 1 BY <1>3, <2>2 DEF Call, TablesTypeOK
    <3>4. QED BY <1>a, <1>b, <2>1, <3>2, <3>3, ClaimersFinite
  <2>3. CASE r # s
    <3>1. Claimers(r)' \subseteq Claimers(r) BY <1>3, <2>3, CallMove DEF Claimers
    <3>2. calls'[r] = calls[r] BY <1>3, <2>3 DEF Call, TablesTypeOK
    <3>3. QED BY <2>1, <3>1, <3>2, ClaimersShrink
  <2>4. QED BY <2>2, <2>3
<1>4. ASSUME NEW p \in Passes, Write(p) \/ Close(p)
      PROVE  calls'[r] + Cardinality(Claimers(r)') <= row'[r].attempts
  <2>1. Claimers(r)' \subseteq Claimers(r) BY <1>4, WriteMove, CloseMove DEF Claimers
  <2>2. calls'[r] = calls[r] BY <1>4 DEF Write, Close, historyVars
  <2>3. pass[p].row \in Refunds /\ Exists(pass[p].row)
    BY <1>4 DEF Write, Close, TablesTypeOK, RowsInv, HeldRowsExist
  <2>4. row'[r].attempts = row[r].attempts
    BY <1>4, <2>3, ResolvingKeepsRows DEF Write, Close
  <2>5. QED BY <2>1, <2>2, <2>4, ClaimersShrink
<1>5. ASSUME NEW p \in Passes,
             WriteFails(p) \/ Sweep(p) \/ EndPass(p) \/ PassDies(p)
               \/ \E s \in Refunds : HandOver(p, s)
      PROVE  calls'[r] + Cardinality(Claimers(r)') <= row'[r].attempts
  <2>1. Claimers(r)' \subseteq Claimers(r)
    BY <1>5, WriteFailsMove, SweepMove, EndMove, HandOverMove DEF Claimers
  <2>2. calls' = calls /\ row' = row
    BY <1>5 DEF WriteFails, Sweep, EndPass, PassDies, HandOver, historyVars
  <2>3. QED BY <2>1, <2>2, ClaimersShrink
<1>6. QED BY <1>1, <1>2, <1>3, <1>4, <1>5 DEF Recover

-----------------------------------------------------------------------------
(* What is owed is accounted for. *)

\* A pass that heard of a success, or that closes a row, has the reason for it;
\* so has a compensation that logs its success.
ReasonsHold ==
  /\ \A p \in Passes :
       /\ pass[p].at = "answer" /\ pass[p].ok => row[pass[p].row].charge \in returned
       /\ pass[p].at = "close" => pass[p].row \in handedOver
  /\ \A c \in Charges : compensation[c] = "log" => c \in returned

AccountsInv == ReasonsHold /\ RefundsAccountedFor

LEMMA AccountsInitially == RefundInit => AccountsInv
BY DEF RefundInit, AccountsInv, ReasonsHold, RefundsAccountedFor, Resting, Doing, Owing

LEMMA ChargeOfRow ==
  ASSUME TablesTypeOK, NEW r \in Refunds, Exists(r)
  PROVE  row[r].charge \in Charges
BY DEF TablesTypeOK, RowRecord, Exists

\* Money that went back stays back.
LEMMA ReturnsGrow == RefundNext => returned \subseteq returned'
<1>1. Owe => returned \subseteq returned'
  BY DEF Owe, Look, Compensate, CompensationCall, CompensationLog, CompensationDropped,
         Persist, Record, PayBack
<1>2. Recover => returned \subseteq returned'
  BY DEF Recover, LeaseExpires, Claim, Call, Write, WriteFails, Sweep, HandOver, Close,
         EndPass, PassDies, PayBack
<1>3. QED BY <1>1, <1>2 DEF RefundNext

LEMMA OweKeepsAccounts == TablesTypeOK /\ RowsInv /\ AccountsInv /\ Owe => AccountsInv'
<1> SUFFICES ASSUME TablesTypeOK, RowsInv, AccountsInv, Owe PROVE AccountsInv' OBVIOUS
<1>1. returned \subseteq returned' BY ReturnsGrow DEF RefundNext
<1>2. pass' = pass /\ handedOver' = handedOver BY OweEffect
<1>3. /\ \A r \in Refunds : Exists(r) => Exists(r)' /\ row'[r] = row[r]
      /\ \A r \in Refunds : row'[r].resolved = row[r].resolved
  BY OweKeepsRows
<1>4. \A r \in Refunds : row'[r].resolved => row'[r].charge \in returned' \/ r \in handedOver'
  BY <1>1, <1>2, <1>3, ChargeOfRow DEF AccountsInv, RefundsAccountedFor, RowsInv, Unused
<1>5. \A p \in Passes :
        /\ pass'[p].at = "answer" /\ pass'[p].ok => row'[pass'[p].row].charge \in returned'
        /\ pass'[p].at = "close" => pass'[p].row \in handedOver'
  BY <1>1, <1>2, <1>3, ChargeOfRow
  DEF AccountsInv, ReasonsHold, RowsInv, HeldRowsExist, TablesTypeOK
<1> DEFINE Owed(c) == c \in returned \/ \E r \in Refunds : row[r].charge = c
<1>6. \A c \in Charges : Owed(c) => Owed(c)' BY <1>1, <1>3, NoneAssumption DEF Exists
<1>7. \A c \in Charges : /\ compensation'[c] = "log" => c \in returned'
                         /\ compensation'[c] = "done" => Owed(c)'
  <2> USE DEF AccountsInv, ReasonsHold, RefundsAccountedFor, TablesTypeOK, Proceed
  <2>1. ASSUME NEW c \in Charges, NEW k \in Recorders, Look(k, c) PROVE <1>7!:
    BY <2>1, <1>1, <1>6 DEF Look
  <2>2. ASSUME NEW c \in Charges, Compensate(c) \/ CompensationDropped(c) PROVE <1>7!:
    BY <2>2, <1>1, <1>6 DEF Compensate, CompensationDropped
  <2>3. ASSUME NEW c \in Charges, CompensationCall(c) PROVE <1>7!:
    BY <2>3, <1>1, <1>6 DEF CompensationCall, PayBack
  <2>4. ASSUME NEW c \in Charges, CompensationLog(c) PROVE <1>7!:
    BY <2>4, <1>1, <1>6 DEF CompensationLog
  <2>5. ASSUME NEW c \in Charges, NEW r \in Refunds, Persist(c, r) PROVE <1>7!:
    <3>1. row'[r].charge = c BY <2>5 DEF Persist, CreateRow, Owing
    <3>2. QED BY <2>5, <3>1, <1>1, <1>6 DEF Persist
  <2>6. ASSUME NEW k \in Recorders, NEW r \in Refunds, Record(k, r) PROVE <1>7!:
    BY <2>6, <1>1, <1>6 DEF Record
  <2>7. QED BY <2>1, <2>2, <2>3, <2>4, <2>5, <2>6 DEF Owe
<1>8. QED BY <1>1, <1>4, <1>5, <1>7 DEF AccountsInv, ReasonsHold, RefundsAccountedFor

\* The passes do not change which charge a row is for.
LEMMA RecoverKeepsCharges ==
  ASSUME TablesTypeOK, RowsInv, Recover
  PROVE  \A r \in Refunds : row'[r].charge = row[r].charge
<1> DEFINE Same == \A r \in Refunds : row'[r].charge = row[r].charge
<1>1. ASSUME NEW p \in Passes, Write(p) \/ Close(p) PROVE Same
  <2>1. pass[p].row \in Refunds /\ Exists(pass[p].row)
    BY <1>1 DEF Write, Close, TablesTypeOK, RowsInv, HeldRowsExist
  <2>2. QED BY <1>1, <2>1, ResolvingKeepsRows DEF Write, Close
<1>2. ASSUME NEW p \in Passes, Claim(p) PROVE Same BY <1>2, ClaimedRows
<1>3. QED
  BY <1>1, <1>2 DEF Recover, LeaseExpires, Call, WriteFails, Sweep, HandOver, EndPass, PassDies

LEMMA RecoverKeepsAccounts == TablesTypeOK /\ RowsInv /\ AccountsInv /\ Recover => AccountsInv'
<1> SUFFICES ASSUME TablesTypeOK, RowsInv, AccountsInv, Recover PROVE AccountsInv' OBVIOUS
<1>1. returned \subseteq returned' BY ReturnsGrow DEF RefundNext
<1>2. compensation' = compensation
  BY DEF Recover, LeaseExpires, Claim, Call, Write, WriteFails, Sweep, HandOver, Close,
         EndPass, PassDies, historyVars
<1>3. \A r \in Refunds : row'[r].charge = row[r].charge BY RecoverKeepsCharges
<1>4. handedOver \subseteq handedOver'
  BY DEF Recover, LeaseExpires, Claim, Call, Write, WriteFails, Sweep, HandOver, Close,
         EndPass, PassDies, historyVars
<1>5. \A p \in Passes :
        /\ pass'[p].at = "answer" /\ pass'[p].ok => row'[pass'[p].row].charge \in returned'
        /\ pass'[p].at = "close" => pass'[p].row \in handedOver'
  <2> SUFFICES ASSUME NEW p \in Passes PROVE <1>5!(p) OBVIOUS
  <2>1. CASE pass'[p] = pass[p]
    BY <2>1, <1>1, <1>3, <1>4, ChargeOfRow
    DEF AccountsInv, ReasonsHold, RowsInv, HeldRowsExist, TablesTypeOK
  <2>2. ASSUME NEW r \in Refunds, Call(p, r) PROVE <1>5!(p)
    <3>1. PICK moved \in BOOLEAN, ok \in BOOLEAN :
            /\ ok => moved
            /\ IF moved THEN PayBack(row[r].charge) ELSE UNCHANGED returned
            /\ pass' = [pass EXCEPT ![p] = Doing("answer", pass[p].batch \ {r}, r, ok)]
      BY <2>2 DEF Call
    <3>2. pass'[p].ok = ok /\ pass'[p].row = r /\ pass'[p].at = "answer"
      BY <3>1 DEF Doing, TablesTypeOK
    <3>4. ok => row[r].charge \in returned' BY <3>1 DEF PayBack
    <3>5. QED BY <3>2, <3>4, <1>3
  <2>3. ASSUME NEW r \in Refunds, HandOver(p, r) PROVE <1>5!(p)
    <3>1. pass'[p].at = "close" /\ pass'[p].row = r BY <2>3, HandOverMove
    <3>2. r \in handedOver' BY <2>3 DEF HandOver
    <3>3. QED BY <3>1, <3>2
  <2>4. CASE pass'[p].at \in {"idle", "batch", "sweep"} BY <2>4
  <2> DEFINE Follows == \/ pass'[p] = pass[p]
                        \/ pass'[p].at \in {"idle", "batch", "sweep"}
                        \/ \E r \in Refunds : Call(p, r) \/ HandOver(p, r)
  <2>5. ASSUME NEW q \in Passes, NEW r \in Refunds, Call(q, r) \/ HandOver(q, r) PROVE Follows
    BY <2>5, CallMove, HandOverMove
  <2>6. ASSUME NEW q \in Passes, Claim(q) \/ Write(q) \/ Sweep(q) \/ Close(q) PROVE Follows
    BY <2>6, ClaimMove, WriteMove, SweepMove, CloseMove
  <2>7. ASSUME NEW q \in Passes, WriteFails(q) \/ EndPass(q) \/ PassDies(q) PROVE Follows
    BY <2>7, WriteFailsMove, EndMove
  <2>8. Follows BY <2>5, <2>6, <2>7 DEF Recover, LeaseExpires
  <2>9. QED BY <2>1, <2>2, <2>3, <2>4, <2>8
<1>6. \A r \in Refunds : row'[r].resolved => row'[r].charge \in returned' \/ r \in handedOver'
  <2> SUFFICES ASSUME NEW r \in Refunds, row'[r].resolved
               PROVE  row[r].charge \in returned' \/ r \in handedOver'
    BY <1>3
  <2>1. CASE row[r].resolved
    BY <2>1, <1>1, <1>4, ChargeOfRow DEF AccountsInv, RefundsAccountedFor, RowsInv, Unused
  <2>2. ASSUME NEW p \in Passes, Write(p), ~row[r].resolved
        PROVE  row[r].charge \in returned'
    <3>1. pass[p].ok /\ pass[p].row = r
      BY <2>2, ResolvingKeepsRows DEF Write, TablesTypeOK, RowsInv, HeldRowsExist
    <3>2. row[r].charge \in returned BY <2>2, <3>1 DEF Write, AccountsInv, ReasonsHold
    <3>3. QED BY <2>2, <3>2 DEF Write
  <2>3. ASSUME NEW p \in Passes, Close(p), ~row[r].resolved PROVE r \in handedOver'
    <3>1. pass[p].row = r
      BY <2>3, ResolvingKeepsRows DEF Close, TablesTypeOK, RowsInv, HeldRowsExist
    <3>2. QED BY <2>3, <3>1, <1>4 DEF Close, AccountsInv, ReasonsHold
  <2>4. ASSUME NEW p \in Passes, Claim(p) PROVE row[r].resolved BY <2>4, ClaimedRows
  <2>5. QED
    BY <2>1, <2>2, <2>3, <2>4
    DEF Recover, LeaseExpires, Call, WriteFails, Sweep, HandOver, EndPass, PassDies
<1>7. \A c \in Charges : /\ compensation'[c] = "log" => c \in returned'
                         /\ compensation'[c] = "done"
                              => c \in returned' \/ \E r \in Refunds : row'[r].charge = c
  BY <1>1, <1>2, <1>3 DEF AccountsInv, ReasonsHold, RefundsAccountedFor
<1>8. QED BY <1>1, <1>5, <1>6, <1>7 DEF AccountsInv, ReasonsHold, RefundsAccountedFor

-----------------------------------------------------------------------------
(* A row without a fault is handed over with none of its calls accepted. *)

Active(p) == pass[p].at # "idle"

\* While some row has met no fault, passes do not overlap, and what happened to
\* that row shows in the pass that holds it.
HandoffInv ==
  \A r \in Refunds \ disturbed :
    /\ \A p \in Passes : Active(p) => lease
    /\ \A p, q \in Passes : Active(p) /\ Active(q) => p = q
    /\ r \in accepted =>
         row[r].resolved \/ \E p \in Passes : pass[p].at = "answer" /\ pass[p].row = r /\ pass[p].ok
    /\ r \in handedOver =>
         /\ r \notin accepted
         /\ row[r].resolved \/ \E p \in Passes : pass[p].at = "close" /\ pass[p].row = r
    /\ \A p \in Passes :
         /\ r \in pass[p].batch => Active(p) /\ ~row[r].resolved
         /\ r \in pass[p].batch /\ pass[p].at \in {"sweep", "close"} => r \notin accepted

LEMMA HandoffInitially == RefundInit => HandoffInv
BY DEF RefundInit, HandoffInv, Active, Resting, Doing

LEMMA OweKeepsHandoff == TablesTypeOK /\ RowsInv /\ HandoffInv /\ Owe => HandoffInv'
<1> SUFFICES ASSUME TablesTypeOK, RowsInv, HandoffInv, Owe PROVE HandoffInv' OBVIOUS
<1>1. UNCHANGED <<lease, pass, accepted, handedOver, disturbed>> BY OweEffect
<1>2. \A r \in Refunds : row'[r].resolved = row[r].resolved BY OweKeepsRows
<1>3. QED BY <1>1, <1>2 DEF HandoffInv, Active

LEMMA ClaimKeepsHandoff ==
  ASSUME TablesTypeOK, RowsInv, HandoffInv, NEW p \in Passes, Claim(p)
  PROVE  HandoffInv'
<1> SUFFICES ASSUME NEW r \in Refunds, r \notin disturbed PROVE HandoffInv!(r)'
  BY DEF HandoffInv, Claim, historyVars
<1>1. \A q \in Passes : ~Active(q) BY DEF HandoffInv, Claim
<1>2. UNCHANGED <<accepted, handedOver, disturbed>> /\ lease' BY DEF Claim, historyVars
<1>3. QED BY <1>1, <1>2, ClaimMove, ClaimedRows DEF HandoffInv, Active, Open

LEMMA CallKeepsHandoff ==
  ASSUME TablesTypeOK, RowsInv, HandoffInv, NEW p \in Passes, NEW s \in Refunds, Call(p, s)
  PROVE  HandoffInv'
<1>1. PICK moved \in BOOLEAN, ok \in BOOLEAN :
        /\ ok => moved
        /\ accepted' = IF moved THEN accepted \cup {s} ELSE accepted
        /\ disturbed' = IF moved /\ ~ok THEN disturbed \cup {s} ELSE disturbed
        /\ pass' = [pass EXCEPT ![p] = Doing("answer", pass[p].batch \ {s}, s, ok)]
  BY DEF Call
<1>2. pass'[p].ok = ok BY <1>1 DEF Doing, TablesTypeOK
<1> SUFFICES ASSUME NEW r \in Refunds, r \notin disturbed' PROVE HandoffInv!(r)'
  BY DEF HandoffInv
<1>3. r \notin disturbed BY <1>1
<1>4. UNCHANGED <<row, lease, handedOver>> BY DEF Call
<1>5. /\ pass[p].at = "batch" /\ pass'[p].at = "answer" /\ pass'[p].row = s
      /\ s \in pass[p].batch /\ pass'[p].batch = pass[p].batch \ {s}
      /\ \A q \in Passes : q # p => pass'[q] = pass[q]
  BY CallMove
<1>6. \A q \in Passes : q # p => ~Active(q) BY <1>3, <1>5 DEF HandoffInv, Active
<1>7. CASE r = s
  <2>1. r \notin handedOver BY <1>3, <1>5, <1>6, <1>7 DEF HandoffInv, Active
  <2>2. r \in accepted' => pass'[p].ok BY <1>1, <1>2, <1>3, <1>5, <1>6, <1>7 DEF HandoffInv, Active
  <2>3. QED BY <1>3, <1>4, <1>5, <1>6, <1>7, <2>1, <2>2 DEF HandoffInv, Active
<1>8. CASE r # s
  <2>1. r \in accepted' <=> r \in accepted BY <1>1, <1>8
  <2>2. QED BY <1>3, <1>4, <1>5, <1>6, <1>8, <2>1 DEF HandoffInv, Active
<1>9. QED BY <1>7, <1>8

LEMMA WriteKeepsHandoff ==
  ASSUME TablesTypeOK, RowsInv, HandoffInv, NEW p \in Passes, Write(p)
  PROVE  HandoffInv'
<1> SUFFICES ASSUME NEW r \in Refunds, r \notin disturbed PROVE HandoffInv!(r)'
  BY DEF HandoffInv, Write, historyVars
<1>1. UNCHANGED <<lease, accepted, handedOver, disturbed>> BY DEF Write, historyVars
<1>2. pass[p].row \in Refunds /\ Exists(pass[p].row) /\ pass[p].row \notin pass[p].batch
  BY DEF Write, TablesTypeOK, RowsInv, HeldRowsExist
<1>3. \A s \in Refunds : /\ row[s].resolved => row'[s].resolved
                         /\ s # pass[p].row => row'[s].resolved = row[s].resolved
  BY <1>2, ResolvingKeepsRows DEF Write
<1>4. pass[p].ok => row'[pass[p].row].resolved BY <1>2, ResolvingKeepsRows DEF Write
<1>5. \A q \in Passes : q # p => ~Active(q) BY WriteMove DEF HandoffInv, Active
<1>6. QED BY <1>1, <1>2, <1>3, <1>4, <1>5, WriteMove DEF HandoffInv, Active

LEMMA CloseKeepsHandoff ==
  ASSUME TablesTypeOK, RowsInv, HandoffInv, NEW p \in Passes, Close(p)
  PROVE  HandoffInv'
<1> SUFFICES ASSUME NEW r \in Refunds, r \notin disturbed PROVE HandoffInv!(r)'
  BY DEF HandoffInv, Close, historyVars
<1>1. UNCHANGED <<lease, accepted, handedOver, disturbed>> BY DEF Close, historyVars
<1>2. pass[p].row \in Refunds /\ Exists(pass[p].row) /\ pass[p].row \notin pass[p].batch
  BY DEF Close, TablesTypeOK, RowsInv, HeldRowsExist
<1>3. \A s \in Refunds : /\ row[s].resolved => row'[s].resolved
                         /\ s # pass[p].row => row'[s].resolved = row[s].resolved
  BY <1>2, ResolvingKeepsRows DEF Close
<1>4. row'[pass[p].row].resolved BY <1>2, ResolvingKeepsRows DEF Close
<1>5. \A q \in Passes : q # p => ~Active(q) BY CloseMove DEF HandoffInv, Active
<1>6. QED BY <1>1, <1>2, <1>3, <1>4, <1>5, CloseMove DEF HandoffInv, Active

LEMMA WriteFailsKeepsHandoff ==
  ASSUME TablesTypeOK, RowsInv, HandoffInv, NEW p \in Passes, WriteFails(p)
  PROVE  HandoffInv'
<1>1. /\ UNCHANGED <<row, lease, accepted, handedOver>>
      /\ disturbed \cup {pass[p].row} \subseteq disturbed'
  <2>1. pass[p].row \in Refunds BY DEF WriteFails, TablesTypeOK
  <2>2. QED BY <2>1 DEF WriteFails, InHand
<1> SUFFICES ASSUME NEW r \in Refunds, r \notin disturbed, r # pass[p].row PROVE HandoffInv!(r)'
  BY <1>1 DEF HandoffInv
<1>2. \A q \in Passes : q # p => ~Active(q) BY WriteFailsMove DEF HandoffInv, Active
<1>3. pass'[p].at = "idle" => pass'[p].batch = {}
  BY DEF WriteFails, Resting, Doing, TablesTypeOK
<1>4. QED BY <1>1, <1>2, <1>3, WriteFailsMove DEF HandoffInv, Active

LEMMA SweepKeepsHandoff ==
  ASSUME TablesTypeOK, RowsInv, HandoffInv, NEW p \in Passes, Sweep(p)
  PROVE  HandoffInv'
<1> SUFFICES ASSUME NEW r \in Refunds, r \notin disturbed PROVE HandoffInv!(r)'
  BY DEF HandoffInv, Sweep, historyVars
<1>1. UNCHANGED <<row, lease, accepted, handedOver, disturbed>> BY DEF Sweep, historyVars
<1>2. \A q \in Passes : q # p => ~Active(q) BY SweepMove DEF HandoffInv, Active
<1>3. r \in pass'[p].batch => ~row[r].resolved BY SweepMove DEF Open
<1>4. r \in accepted => row[r].resolved BY <1>2, SweepMove DEF HandoffInv, Active
<1>5. QED BY <1>1, <1>2, <1>3, <1>4, SweepMove DEF HandoffInv, Active

LEMMA HandOverKeepsHandoff ==
  ASSUME TablesTypeOK, RowsInv, HandoffInv, NEW p \in Passes, NEW s \in Refunds, HandOver(p, s)
  PROVE  HandoffInv'
<1>1. /\ UNCHANGED <<row, lease, accepted, disturbed>> /\ handedOver' = handedOver \cup {s}
  BY DEF HandOver
<1> SUFFICES ASSUME NEW r \in Refunds, r \notin disturbed PROVE HandoffInv!(r)'
  BY <1>1 DEF HandoffInv
<1>2. \A q \in Passes : q # p => ~Active(q) BY HandOverMove DEF HandoffInv, Active
<1>3. r = s => r \notin accepted BY HandOverMove DEF HandoffInv
<1>4. QED BY <1>1, <1>2, <1>3, HandOverMove DEF HandoffInv, Active

LEMMA EndKeepsHandoff ==
  ASSUME TablesTypeOK, RowsInv, HandoffInv, NEW p \in Passes, EndPass(p) \/ PassDies(p)
  PROVE  HandoffInv'
<1>1. /\ UNCHANGED <<row, lease, accepted, handedOver>>
      /\ disturbed \subseteq disturbed'
      /\ \/ pass[p].at = "sweep"
         \/ InHand(p) \subseteq disturbed'
  BY DEF EndPass, PassDies, historyVars
<1> SUFFICES ASSUME NEW r \in Refunds, r \notin disturbed' PROVE HandoffInv!(r)'
  BY DEF HandoffInv
<1>2. r \notin disturbed BY <1>1
<1>3. pass[p].at \in {"answer", "close"} => pass[p].row # r BY <1>1 DEF InHand
<1>4. QED BY <1>1, <1>2, <1>3, EndMove DEF HandoffInv, Active

LEMMA RecoverKeepsHandoff == TablesTypeOK /\ RowsInv /\ HandoffInv /\ Recover => HandoffInv'
<1> SUFFICES ASSUME TablesTypeOK, RowsInv, HandoffInv, Recover PROVE HandoffInv' OBVIOUS
<1>1. CASE LeaseExpires
  <2>1. CASE \E p \in Passes : Active(p)
    BY <1>1, <2>1 DEF LeaseExpires, HandoffInv, Active
  <2>2. CASE ~\E p \in Passes : Active(p)
    BY <1>1, <2>2 DEF LeaseExpires, HandoffInv, Active
  <2>3. QED BY <2>1, <2>2
<1>2. QED
  BY <1>1, ClaimKeepsHandoff, CallKeepsHandoff, WriteKeepsHandoff, CloseKeepsHandoff,
     WriteFailsKeepsHandoff, SweepKeepsHandoff, HandOverKeepsHandoff, EndKeepsHandoff
  DEF Recover

-----------------------------------------------------------------------------
(* What moved the money. *)

\* Money goes back by the compensation of its charge or by a call for a row.
MovedInv ==
  \A c \in returned : c \in compensated \/ \E s \in accepted : row[s].charge = c

LEMMA OweKeepsMoved == TablesTypeOK /\ RowsInv /\ MovedInv /\ Owe => MovedInv'
<1> SUFFICES ASSUME TablesTypeOK, RowsInv, MovedInv, Owe PROVE MovedInv' OBVIOUS
<1>1. accepted' = accepted BY OweEffect
<1>2. \A s \in accepted : row[s].charge \in Charges => row'[s].charge = row[s].charge
  BY OweKeepsRows, NoneAssumption DEF TablesTypeOK, Exists
<1>3. /\ compensated \subseteq compensated'
      /\ \A c \in returned' : c \in returned \/ c \in compensated'
  BY DEF Owe, Look, Compensate, CompensationCall, CompensationLog, CompensationDropped,
         Persist, Record, PayBack, historyVars
<1>4. returned \subseteq Charges BY DEF TablesTypeOK
<1>5. QED BY <1>1, <1>2, <1>3, <1>4 DEF MovedInv

LEMMA RecoverKeepsMoved == TablesTypeOK /\ RowsInv /\ MovedInv /\ Recover => MovedInv'
<1> SUFFICES ASSUME TablesTypeOK, RowsInv, MovedInv, Recover PROVE MovedInv' OBVIOUS
<1>1. \A r \in Refunds : row'[r].charge = row[r].charge BY RecoverKeepsCharges
<1>2. compensated' = compensated /\ accepted \subseteq accepted'
  BY DEF Recover, LeaseExpires, Claim, Call, Write, WriteFails, Sweep, HandOver, Close,
         EndPass, PassDies, historyVars
<1>3. \A c \in returned' : c \in returned \/ \E s \in accepted' : row[s].charge = c
  <2>1. ASSUME NEW p \in Passes, NEW r \in Refunds, Call(p, r) PROVE <1>3
    <3>1. PICK moved \in BOOLEAN :
            /\ IF moved THEN PayBack(row[r].charge) ELSE UNCHANGED returned
            /\ accepted' = IF moved THEN accepted \cup {r} ELSE accepted
      BY <2>1 DEF Call
    <3>2. CASE moved
      BY <3>1, <3>2 DEF PayBack
    <3>3. CASE ~moved BY <3>1, <3>3
    <3>4. QED BY <3>2, <3>3
  <2>2. UNCHANGED returned \/ \E p \in Passes, r \in Refunds : Call(p, r)
    BY DEF Recover, LeaseExpires, Claim, Write, WriteFails, Sweep, HandOver, Close,
           EndPass, PassDies, historyVars
  <2>3. QED BY <2>1, <2>2
<1>4. accepted' \subseteq Refunds BY RecoverKeepsTypes DEF TablesTypeOK
<1>5. accepted \subseteq Refunds BY DEF TablesTypeOK
<1>6. QED BY <1>1, <1>2, <1>3, <1>4, <1>5 DEF MovedInv

-----------------------------------------------------------------------------
(* A row without a fault is handed over when its attempts are spent. *)

\* Of a row that met no fault, only a pass that has it in its batch has an
\* attempt in hand; a sweep reads it when there is none.
SpentInv ==
  \A r \in Refunds \ disturbed :
    /\ row[r].attempts = calls[r] + (IF Claimers(r) = {} THEN 0 ELSE 1)
    /\ \A p \in Passes :
         pass[p].at \in {"sweep", "close"} /\ r \in pass[p].batch => calls[r] >= MaxAttempts
    /\ r \in handedOver => calls[r] >= MaxAttempts

LEMMA SpentInitially == RefundInit => SpentInv
BY DEF RefundInit, SpentInv, Claimers, Resting, Doing, Owing

\* Nothing is called for or claimed, and no sweep read.
LEMMA SpentKept ==
  ASSUME TablesTypeOK, SpentInv, NEW r \in Refunds \ disturbed,
         Claimers(r)' = Claimers(r), calls'[r] = calls[r],
         row'[r].attempts = row[r].attempts,
         \A p \in Passes : pass'[p].at \in {"sweep", "close"} /\ r \in pass'[p].batch
                           => pass[p].at \in {"sweep", "close"} /\ r \in pass[p].batch,
         r \in handedOver' => r \in handedOver
  PROVE  SpentInv!(r)'
BY DEF SpentInv

LEMMA OweKeepsSpent == TablesTypeOK /\ RowsInv /\ SpentInv /\ Owe => SpentInv'
<1> SUFFICES ASSUME TablesTypeOK, RowsInv, SpentInv, Owe, NEW r \in Refunds \ disturbed
             PROVE  SpentInv!(r)'
  BY OweEffect DEF SpentInv
<1>1. row'[r].attempts = row[r].attempts BY OweKeepsRows
<1>2. Claimers(r)' = Claimers(r) BY OweEffect DEF Claimers
<1>3. QED BY <1>1, <1>2, OweEffect, SpentKept

\* What met a fault is not forgotten.
LEMMA DisturbedGrows == TablesTypeOK /\ Recover => disturbed \subseteq disturbed'
<1> SUFFICES ASSUME TablesTypeOK, Recover PROVE disturbed \subseteq disturbed' OBVIOUS
<1> DEFINE Grows == disturbed \subseteq disturbed'
<1>1. CASE LeaseExpires
  <2>1. disturbed' = disturbed \/ disturbed' = Refunds BY <1>1 DEF LeaseExpires
  <2>2. disturbed \subseteq Refunds BY DEF TablesTypeOK
  <2>3. QED BY <2>1, <2>2
<1>2. ASSUME NEW p \in Passes, NEW s \in Refunds, Call(p, s) PROVE Grows
  BY <1>2 DEF Call
<1>3. ASSUME NEW p \in Passes, WriteFails(p) \/ PassDies(p) PROVE Grows
  BY <1>3 DEF WriteFails, PassDies
<1>4. ASSUME NEW p \in Passes,
             Claim(p) \/ Write(p) \/ Sweep(p) \/ Close(p) \/ EndPass(p)
               \/ \E s \in Refunds : HandOver(p, s)
      PROVE  Grows
  BY <1>4 DEF Claim, Write, Sweep, HandOver, Close, EndPass, historyVars
<1>5. QED BY <1>1, <1>2, <1>3, <1>4 DEF Recover

LEMMA RecoverKeepsSpent ==
  TablesTypeOK /\ RowsInv /\ HandoffInv /\ SpentInv /\ Recover => SpentInv'
<1> SUFFICES ASSUME TablesTypeOK, RowsInv, HandoffInv, SpentInv, Recover,
                    NEW r \in Refunds \ disturbed, r \notin disturbed'
             PROVE  SpentInv!(r)'
  BY DisturbedGrows DEF SpentInv
<1>a. calls[r] \in Nat /\ row[r].attempts \in Nat
  BY MaxAttemptsAssumption DEF TablesTypeOK, RowRecord
<1>b. /\ row[r].attempts = calls[r] + (IF Claimers(r) = {} THEN 0 ELSE 1)
      /\ \A p \in Passes :
           pass[p].at \in {"sweep", "close"} /\ r \in pass[p].batch => calls[r] >= MaxAttempts
      /\ r \in handedOver => calls[r] >= MaxAttempts
  BY DEF SpentInv
<1>c. \A p, q \in Passes : Active(p) /\ Active(q) => p = q BY DEF HandoffInv
<1>1. CASE LeaseExpires
  <2>1. UNCHANGED <<row, pass, calls, handedOver>> BY <1>1 DEF LeaseExpires
  <2>2. QED BY <2>1, SpentKept DEF Claimers
<1>2. ASSUME NEW p \in Passes, Claim(p) PROVE SpentInv!(r)'
  <2>1. UNCHANGED <<calls, handedOver>> BY <1>2 DEF Claim, historyVars
  <2>2. \A q \in Passes : pass[q].at = "idle" BY <1>2 DEF HandoffInv, Active, Claim
  <2>3. Claimers(r) = {} BY <2>2 DEF Claimers
  <2>4. Claimers(r)' = IF r \in pass'[p].batch THEN {p} ELSE {}
    BY <1>2, <2>2, ClaimMove DEF Claimers
  <2>5. row'[r].attempts = calls'[r] + (IF Claimers(r)' = {} THEN 0 ELSE 1)
    BY <1>2, <1>a, <1>b, <2>1, <2>3, <2>4, ClaimedRows
  <2>6. \A q \in Passes : pass'[q].at \notin {"sweep", "close"} BY <1>2, <2>2, ClaimMove
  <2>7. QED BY <1>b, <2>1, <2>5, <2>6
<1>3. ASSUME NEW p \in Passes, NEW s \in Refunds, Call(p, s) PROVE SpentInv!(r)'
  <2>1. UNCHANGED <<row, handedOver>> BY <1>3 DEF Call
  <2>2. \A q \in Passes : q # p => pass[q].at = "idle" BY <1>3, <1>c, CallMove DEF Active
  <2>3. CASE r = s
    <3>1. Claimers(r) = {p} /\ Claimers(r)' = {}
      BY <1>3, <2>2, <2>3, CallMove DEF Claimers
    <3>2. calls'[r] = calls[r] + 1 BY <1>3, <2>3 DEF Call, TablesTypeOK
    <3>3. \A q \in Passes : pass'[q].at \notin {"sweep", "close"} BY <1>3, <2>2, CallMove
    <3>4. r \in handedOver' => calls'[r] >= MaxAttempts
      BY <1>a, <1>b, <2>1, <3>2, MaxAttemptsAssumption
    <3>5. row'[r].attempts = calls'[r] + (IF Claimers(r)' = {} THEN 0 ELSE 1)
      BY <1>a, <1>b, <2>1, <3>1, <3>2
    <3>6. QED BY <3>3, <3>4, <3>5
  <2>4. CASE r # s
    <3>1. Claimers(r)' = Claimers(r) BY <1>3, <2>4, CallMove DEF Claimers
    <3>2. calls'[r] = calls[r] BY <1>3, <2>4 DEF Call, TablesTypeOK
    <3>3. \A q \in Passes : pass'[q].at \in {"sweep", "close"} => pass'[q] = pass[q]
      BY <1>3, CallMove
    <3>4. QED BY <2>1, <3>1, <3>2, <3>3, SpentKept
  <2>5. QED BY <2>3, <2>4
<1>4. ASSUME NEW p \in Passes, Write(p) \/ Close(p) PROVE SpentInv!(r)'
  <2>1. UNCHANGED <<calls, handedOver>> BY <1>4 DEF Write, Close, historyVars
  <2>2. pass[p].row \in Refunds /\ Exists(pass[p].row)
    BY <1>4 DEF Write, Close, TablesTypeOK, RowsInv, HeldRowsExist
  <2>3. row'[r].attempts = row[r].attempts
    BY <1>4, <2>2, ResolvingKeepsRows DEF Write, Close
  <2>4. Claimers(r)' = Claimers(r) BY <1>4, WriteMove, CloseMove DEF Claimers
  <2>5. \A q \in Passes : pass'[q].at \in {"sweep", "close"} /\ r \in pass'[q].batch
                          => pass[q].at \in {"sweep", "close"} /\ r \in pass[q].batch
    BY <1>4, WriteMove, CloseMove
  <2>6. QED BY <2>1, <2>3, <2>4, <2>5, SpentKept
<1>5. ASSUME NEW p \in Passes, WriteFails(p) PROVE SpentInv!(r)'
  <2>1. UNCHANGED <<row, calls, handedOver>> BY <1>5 DEF WriteFails
  <2>2. Claimers(r)' = Claimers(r)
    <3>1. CASE pass' = [pass EXCEPT ![p] = Resting] /\ disturbed' = disturbed \cup InHand(p)
      BY <3>1, <1>5, WriteFailsMove DEF Claimers, InHand
    <3>2. CASE pass' = [pass EXCEPT ![p] = Doing("batch", pass[p].batch, NoRefund, FALSE)]
      BY <3>2, <1>5, WriteFailsMove DEF Claimers, Doing, TablesTypeOK
    <3>3. QED BY <1>5, <3>1, <3>2 DEF WriteFails
  <2>3. \A q \in Passes : pass'[q].at \in {"sweep", "close"} => pass'[q] = pass[q]
    BY <1>5, WriteFailsMove
  <2>4. QED BY <2>1, <2>2, <2>3, SpentKept
<1>6. ASSUME NEW p \in Passes, Sweep(p) PROVE SpentInv!(r)'
  <2>1. UNCHANGED <<row, calls, handedOver>> BY <1>6 DEF Sweep, historyVars
  <2>2. \A q \in Passes : q # p => pass[q].at = "idle" BY <1>6, <1>c, SweepMove DEF Active
  <2>3. Claimers(r) = {} /\ Claimers(r)' = {} BY <1>6, <2>2, SweepMove DEF Claimers, Sweep
  <2>4. r \in pass'[p].batch => calls[r] >= MaxAttempts
    <3> DEFINE S == {s \in Refunds : Open(s) /\ row[s].attempts >= MaxAttempts}
    <3>1. pass' = [pass EXCEPT ![p] = Doing("sweep", S, NoRefund, FALSE)] BY <1>6 DEF Sweep
    <3>2. pass'[p].batch = S BY <3>1 DEF Doing, TablesTypeOK
    <3>3. row[r].attempts = calls[r] BY <1>a, <1>b, <2>3
    <3>4. QED BY <3>2, <3>3
  <2>5. \A q \in Passes : q # p => pass'[q].at = "idle" BY <1>6, <2>2, SweepMove
  <2>6. QED BY <1>b, <2>1, <2>3, <2>4, <2>5
<1>7. ASSUME NEW p \in Passes, NEW s \in Refunds, HandOver(p, s) PROVE SpentInv!(r)'
  <2>1. UNCHANGED <<row, calls>> /\ handedOver' = handedOver \cup {s} BY <1>7 DEF HandOver
  <2>2. Claimers(r)' = Claimers(r) BY <1>7, HandOverMove DEF Claimers
  <2>3. \A q \in Passes : pass'[q].at \in {"sweep", "close"} /\ r \in pass'[q].batch
                          => pass[q].at \in {"sweep", "close"} /\ r \in pass[q].batch
    BY <1>7, HandOverMove
  <2>4. r \in handedOver' => calls[r] >= MaxAttempts BY <1>7, <1>b, <2>1, HandOverMove
  <2>5. QED BY <1>b, <2>1, <2>2, <2>3, <2>4
<1>8. ASSUME NEW p \in Passes, EndPass(p) \/ PassDies(p) PROVE SpentInv!(r)'
  <2>1. UNCHANGED <<row, calls, handedOver>> BY <1>8 DEF EndPass, PassDies, historyVars
  <2>2. Claimers(r)' = Claimers(r)
    <3>1. pass[p].at = "sweep" \/ r \notin pass[p].batch
      BY <1>8 DEF EndPass, PassDies, InHand
    <3>2. QED BY <1>8, <3>1, EndMove DEF Claimers
  <2>3. \A q \in Passes : pass'[q].at \in {"sweep", "close"} => pass'[q] = pass[q]
    BY <1>8, EndMove
  <2>4. QED BY <2>1, <2>2, <2>3, SpentKept
<1>9. QED
  BY <1>1, <1>2, <1>3, <1>4, <1>5, <1>6, <1>7, <1>8 DEF Recover

-----------------------------------------------------------------------------
(* The theorems. *)

RefundInv ==
  TablesTypeOK /\ RowsInv /\ Credit /\ AccountsInv /\ HandoffInv /\ MovedInv /\ SpentInv

\* What RefundInv says of the rows, the gateway, the passes and the history
\* holds in every reachable state.
THEOREM RefundInvariance == RefundSpec => []RefundInv
<1>1. RefundInit => RefundInv
  <2>1. RefundInit => MovedInv BY DEF RefundInit, MovedInv
  <2>2. QED
    BY <2>1, TypesInitially, RowsInitially, CreditInitially, AccountsInitially,
       HandoffInitially, SpentInitially
    DEF RefundInv
<1>2. RefundInv /\ [RefundNext]_refundVars => RefundInv'
  <2> SUFFICES ASSUME RefundInv, [RefundNext]_refundVars PROVE RefundInv' OBVIOUS
  <2>1. CASE Owe
    BY <2>1, OweKeepsTypes, OweKeepsRows, OweKeepsCredit, OweKeepsAccounts, OweKeepsHandoff,
       OweKeepsMoved, OweKeepsSpent
    DEF RefundInv
  <2>2. CASE Recover
    BY <2>2, RecoverKeepsTypes, RecoverKeepsRows, RecoverKeepsCredit, RecoverKeepsAccounts,
       RecoverKeepsHandoff, RecoverKeepsMoved, RecoverKeepsSpent
    DEF RefundInv
  <2>3. CASE UNCHANGED refundVars
    BY <2>3
    DEF refundVars, historyVars, RefundInv, TablesTypeOK, RowsInv, Unused, HeldRowsExist, Exists,
        Credit, Claimers, AccountsInv, ReasonsHold, RefundsAccountedFor,
        HandoffInv, Active, MovedInv, SpentInv
  <2>4. QED BY <2>1, <2>2, <2>3 DEF RefundNext
<1>3. QED BY <1>1, <1>2, PTL DEF RefundSpec

\* claimBatch counts an attempt before it is made, so that neither an overlap
\* of passes nor a crash makes a call beyond MAX_RETRY_ATTEMPTS.
THEOREM CallsBounded == RefundSpec => []CallsWithinAttempts
<1>1. RefundInv => CallsWithinAttempts
  <2> SUFFICES ASSUME RefundInv, NEW r \in Refunds
               PROVE  calls[r] <= row[r].attempts /\ row[r].attempts <= MaxAttempts
    BY DEF CallsWithinAttempts
  <2>1. calls[r] + Cardinality(Claimers(r)) <= row[r].attempts BY DEF RefundInv, Credit
  <2>2. calls[r] \in Nat /\ row[r].attempts \in 0..MaxAttempts
    BY DEF RefundInv, TablesTypeOK, RowRecord
  <2>3. QED BY <2>1, <2>2, ClaimersFinite, MaxAttemptsAssumption
<1>2. QED BY <1>1, RefundInvariance, PTL

\* Types, with the bound on the calls that Credit gives.
THEOREM RefundTypeCorrect == RefundSpec => []RefundTypeOK
<1>1. RefundInv /\ CallsWithinAttempts => RefundTypeOK
  <2> SUFFICES ASSUME RefundInv, CallsWithinAttempts PROVE RefundTypeOK OBVIOUS
  <2>1. calls \in [Refunds -> 0..MaxAttempts]
    BY MaxAttemptsAssumption DEF RefundInv, TablesTypeOK, RowRecord, CallsWithinAttempts
  <2>2. QED BY <2>1 DEF RefundInv, TablesTypeOK, RowRecord, PassRecord, RefundTypeOK
<1>2. QED BY <1>1, RefundInvariance, CallsBounded, PTL

\* A row is closed with the money back or the office told, and a compensation
\* that finished has paid back or left a row.
THEOREM NothingOwedIsForgotten == RefundSpec => []RefundsAccountedFor
<1>1. RefundInv => RefundsAccountedFor BY DEF RefundInv, AccountsInv
<1>2. QED BY <1>1, RefundInvariance, PTL

\* escalateExhausted says that the money has not moved.  Of a row that met no
\* lost answer, failed update, crash or overrun lease it is wrong only by the
\* compensation of the charge or a call for another of its rows.
THEOREM HandoffIsTrue == RefundSpec => []HandedOverUnpaid
<1>1. RefundInv => HandedOverUnpaid
  <2> SUFFICES ASSUME RefundInv, NEW r \in handedOver \ disturbed, row[r].charge \in returned,
                      row[r].charge \notin compensated
               PROVE  \E s \in accepted \ {r} : row[s].charge = row[r].charge
    BY DEF HandedOverUnpaid
  <2>1. r \in Refunds \ disturbed BY DEF RefundInv, TablesTypeOK
  <2>2. r \notin accepted BY <2>1 DEF RefundInv, HandoffInv
  <2>3. PICK s \in accepted : row[s].charge = row[r].charge BY DEF RefundInv, MovedInv
  <2>4. QED BY <2>2, <2>3
<1>2. QED BY <1>1, RefundInvariance, PTL

\* claimBatch counts attempts ahead of the calls, and escalateExhausted reads
\* that count: under the lease it still means calls that were made.
THEOREM HandoffIsLast == RefundSpec => []HandedOverSpent
<1>1. RefundInv /\ CallsWithinAttempts => HandedOverSpent
  <2> SUFFICES ASSUME RefundInv, CallsWithinAttempts, NEW r \in handedOver \ disturbed
               PROVE  calls[r] = MaxAttempts
    BY DEF HandedOverSpent
  <2>1. r \in Refunds \ disturbed BY DEF RefundInv, TablesTypeOK
  <2>2. calls[r] >= MaxAttempts BY <2>1 DEF RefundInv, SpentInv
  <2>3. calls[r] <= row[r].attempts /\ row[r].attempts <= MaxAttempts
    BY <2>1 DEF CallsWithinAttempts
  <2>4. calls[r] \in Nat /\ row[r].attempts \in 0..MaxAttempts
    BY <2>1 DEF RefundInv, TablesTypeOK, RowRecord
  <2>5. QED BY <2>2, <2>3, <2>4, MaxAttemptsAssumption
<1>2. QED BY <1>1, RefundInvariance, CallsBounded, PTL

-----------------------------------------------------------------------------
(* RefundRecovery implements Sale. *)

SaleMoney == [c \in Charges |-> MoneyOf(c)]

Pending(c) == \E r \in Refunds : Open(r) /\ row[r].charge = c

Reported(c) == \E r \in handedOver : row[r].charge = c

LEMMA MoneyCases ==
  ASSUME NEW c
  PROVE  MoneyOf(c) = IF c \in returned THEN "returned"
                      ELSE IF Pending(c) THEN "owed"
                      ELSE IF Reported(c) THEN "told" ELSE "taken"
BY DEF MoneyOf, Pending, Reported

\* What a step may do to the money of the charges.
Unmoved(D) == \A d \in D : MoneyOf(d)' = MoneyOf(d)

Moves(c) ==
  /\ Unmoved(Charges \ {c})
  /\ \/ MoneyOf(c)' = MoneyOf(c)
     \/ MoneyOf(c)' = "returned"
     \/ MoneyOf(c) \in {"taken", "told"} /\ MoneyOf(c)' = "owed"
     \/ MoneyOf(c) = "owed" /\ MoneyOf(c)' = "told"

LEMMA UnmovedIf ==
  ASSUME NEW c, c \in returned' <=> c \in returned, Pending(c)' <=> Pending(c),
         Reported(c)' <=> Reported(c)
  PROVE  MoneyOf(c)' = MoneyOf(c)
<1>1. MoneyOf(c)' = IF c \in returned' THEN "returned"
                    ELSE IF Pending(c)' THEN "owed"
                    ELSE IF Reported(c)' THEN "told" ELSE "taken"
  BY DEF MoneyOf, Pending, Reported
<1>2. QED BY <1>1, MoneyCases

\* Each such move is one of Sale.
LEMMA MovesMap ==
  ASSUME NEW c \in Charges, Moves(c)
  PROVE  [Promised!Next]_Promised!saleVars
<1>1. MoneyOf(c) \in {"taken", "owed", "told", "returned"} BY MoneyCases
<1>2. SaleMoney' = [SaleMoney EXCEPT ![c] = MoneyOf(c)'] /\ SaleMoney[c] = MoneyOf(c)
  BY DEF SaleMoney, Moves, Unmoved
<1>3. CASE MoneyOf(c)' = MoneyOf(c)
  <2>1. Unmoved(Charges) BY <1>3 DEF Moves, Unmoved
  <2>2. QED BY <2>1 DEF Promised!saleVars, Unmoved
<1>4. CASE MoneyOf(c)' # MoneyOf(c)
  <2>1. \/ MoneyOf(c) # "returned" /\ MoneyOf(c)' = "returned"
        \/ MoneyOf(c) \in {"taken", "told"} /\ MoneyOf(c)' = "owed"
        \/ MoneyOf(c) = "owed" /\ MoneyOf(c)' = "told"
    BY <1>4 DEF Moves
  <2>2. Promised!Return(c) \/ Promised!Owe(c) \/ Promised!Tell(c)
    BY <1>1, <1>2, <2>1 DEF Promised!Return, Promised!Owe, Promised!Tell, SaleMoney
  <2>3. QED BY <2>2 DEF Promised!Next
<1>5. QED BY <1>3, <1>4

\* A charge paid back.
LEMMA PayBackMoves ==
  ASSUME NEW c \in Charges, PayBack(c), UNCHANGED <<row, handedOver>>
  PROVE  Moves(c)
<1>1. \A d : (Pending(d)' <=> Pending(d)) /\ (Reported(d)' <=> Reported(d))
  BY DEF Pending, Reported, Open, Exists
<1>2. \A d \in Charges \ {c} : d \in returned' <=> d \in returned BY DEF PayBack
<1>3. Unmoved(Charges \ {c}) BY <1>1, <1>2, UnmovedIf DEF Unmoved
<1>4. MoneyOf(c)' = "returned" BY DEF PayBack, MoneyOf
<1>5. QED BY <1>3, <1>4 DEF Moves

\* A row created: the debt stands, and stands anew if the office had been told.
LEMMA CreateRowMoves ==
  ASSUME TablesTypeOK, NEW r \in Refunds, NEW c \in Charges, CreateRow(r, c),
         UNCHANGED <<returned, handedOver>>
  PROVE  Moves(c)
<1>1. /\ row'[r].charge = c /\ ~row'[r].resolved /\ row[r].charge = NoCharge
      /\ \A s \in Refunds \ {r} : row'[s] = row[s]
  BY DEF CreateRow, Owing, Exists, TablesTypeOK
<1>2. c # NoCharge /\ \A d \in Charges : d # NoCharge BY NoneAssumption
<1>3. handedOver \subseteq Refunds BY DEF TablesTypeOK
<1>4. \A d \in Charges \ {c} : (Pending(d)' <=> Pending(d)) /\ (Reported(d)' <=> Reported(d))
  BY <1>1, <1>2, <1>3 DEF Pending, Reported, Open, Exists
<1>5. Unmoved(Charges \ {c}) BY <1>4, UnmovedIf DEF Unmoved
<1>6. Pending(c)' BY <1>1, <1>2 DEF Pending, Open, Exists
<1>7. MoneyOf(c)' = IF c \in returned THEN "returned" ELSE "owed"
  BY <1>6 DEF MoneyOf, Pending
<1>8. QED BY <1>5, <1>7, MoneyCases DEF Moves

\* A row closed, for the reason there was: the money is back or the office told.
LEMMA ClosingMoves ==
  ASSUME TablesTypeOK, NEW r \in Refunds, Exists(r),
         row[r].charge \in returned \/ r \in handedOver,
         row' = [row EXCEPT ![r].resolved = TRUE], UNCHANGED <<returned, handedOver>>
  PROVE  Moves(row[r].charge)
<1> DEFINE c == row[r].charge
<1>1. /\ \A s \in Refunds : row'[s].charge = row[s].charge
      /\ \A s \in Refunds \ {r} : row'[s] = row[s]
      /\ row'[r].resolved
  BY DEF TablesTypeOK, RowRecord
<1>2. handedOver \subseteq Refunds BY DEF TablesTypeOK
<1>3. \A d : Reported(d)' <=> Reported(d) BY <1>1, <1>2 DEF Reported
<1>4. \A d \in Charges \ {c} : Pending(d)' <=> Pending(d)
  BY <1>1 DEF Pending, Open, Exists
<1>5. Unmoved(Charges \ {c}) BY <1>3, <1>4, UnmovedIf DEF Unmoved
<1>6. Pending(c)' => Pending(c) BY <1>1 DEF Pending, Open, Exists
<1>7. c \in returned \/ Reported(c) BY DEF Reported
<1>8. MoneyOf(c)' = IF c \in returned THEN "returned"
                    ELSE IF Pending(c)' THEN "owed"
                    ELSE IF Reported(c)' THEN "told" ELSE "taken"
  BY DEF MoneyOf, Pending, Reported
<1>9. \/ MoneyOf(c)' = MoneyOf(c)
      \/ MoneyOf(c) = "owed" /\ MoneyOf(c)' = "told"
  BY <1>3, <1>6, <1>7, <1>8, MoneyCases
<1>10. QED BY <1>5, <1>9 DEF Moves

\* The office told: the row is still open, or was closed for a reason before.
LEMMA HandOverMoves ==
  ASSUME TablesTypeOK, AccountsInv, NEW r \in Refunds, Exists(r),
         handedOver' = handedOver \cup {r}, UNCHANGED <<row, returned>>
  PROVE  Unmoved(Charges)
<1>1. \A d : /\ Pending(d)' <=> Pending(d)
             /\ Reported(d)' <=> Reported(d) \/ d = row[r].charge
  BY DEF Pending, Reported, Open, Exists
<1>2. ASSUME NEW d \in Charges, d # row[r].charge PROVE MoneyOf(d)' = MoneyOf(d)
  BY <1>1, <1>2, UnmovedIf
<1>3. ASSUME NEW d \in Charges, d = row[r].charge PROVE MoneyOf(d)' = MoneyOf(d)
  <2>1. d \in returned \/ Pending(d) \/ Reported(d)
    BY <1>3 DEF AccountsInv, RefundsAccountedFor, Pending, Reported, Open
  <2>2. MoneyOf(d)' = IF d \in returned THEN "returned"
                      ELSE IF Pending(d)' THEN "owed"
                      ELSE IF Reported(d)' THEN "told" ELSE "taken"
    BY DEF MoneyOf, Pending, Reported
  <2>3. QED BY <1>1, <2>1, <2>2, MoneyCases
<1>4. QED BY <1>2, <1>3 DEF Unmoved

\* A claim changes neither which rows are open nor whose they are.
LEMMA ClaimMoves ==
  ASSUME TablesTypeOK, NEW p \in Passes, Claim(p)
  PROVE  Unmoved(Charges)
<1>1. UNCHANGED <<returned, handedOver>> BY DEF Claim, historyVars
<1>2. \A r \in Refunds : row'[r].charge = row[r].charge /\ row'[r].resolved = row[r].resolved
  BY ClaimedRows
<1>3. handedOver \subseteq Refunds BY DEF TablesTypeOK
<1>4. \A d : (Pending(d)' <=> Pending(d)) /\ (Reported(d)' <=> Reported(d))
  BY <1>1, <1>2, <1>3 DEF Pending, Reported, Open, Exists
<1>5. QED BY <1>1, <1>4, UnmovedIf DEF Unmoved

LEMMA StillUnmoved ==
  ASSUME UNCHANGED <<row, returned, handedOver>>
  PROVE  Unmoved(Charges)
BY DEF Unmoved, MoneyOf, Open, Exists

\* Every step is one of these.
LEMMA MoneyMaps ==
  ASSUME RefundInv, [RefundNext]_refundVars
  PROVE  [Promised!Next]_Promised!saleVars
<1> USE DEF RefundInv
<1> DEFINE Mapped == Unmoved(Charges) \/ \E c \in Charges : Moves(c)
<1>1. UNCHANGED <<row, returned, handedOver>> => Mapped BY StillUnmoved
<1>2. ASSUME Owe PROVE Mapped
  <2>1. ASSUME NEW c \in Charges, CompensationCall(c) PROVE Mapped
    <3>1. UNCHANGED <<row, handedOver>> BY <2>1 DEF CompensationCall
    <3>2. PayBack(c) \/ UNCHANGED returned BY <2>1 DEF CompensationCall
    <3>3. QED BY <3>1, <3>2, PayBackMoves, StillUnmoved
  <2>2. ASSUME NEW c \in Charges, NEW r \in Refunds, Persist(c, r) PROVE Mapped
    BY <2>2, CreateRowMoves DEF Persist, historyVars
  <2>3. ASSUME NEW k \in Recorders, NEW r \in Refunds, Record(k, r) PROVE Mapped
    <3>1. recorder[k] \in Charges BY <2>3 DEF Record, TablesTypeOK
    <3>2. QED BY <2>3, <3>1, CreateRowMoves DEF Record, historyVars
  <2>4. QED
    BY <1>2, <2>1, <2>2, <2>3, StillUnmoved
    DEF Owe, Look, Compensate, CompensationLog, CompensationDropped, historyVars
<1>3. ASSUME Recover PROVE Mapped
  <2>1. ASSUME NEW p \in Passes, Claim(p) PROVE Mapped BY <2>1, ClaimMoves
  <2>2. ASSUME NEW p \in Passes, NEW r \in Refunds, Call(p, r) PROVE Mapped
    <3>1. row[r].charge \in Charges BY <2>2, CallMove, ChargeOfRow DEF RowsInv, HeldRowsExist
    <3>2. UNCHANGED <<row, handedOver>> BY <2>2 DEF Call
    <3>3. PayBack(row[r].charge) \/ UNCHANGED returned BY <2>2 DEF Call
    <3>4. QED BY <3>1, <3>2, <3>3, PayBackMoves, StillUnmoved
  <2>3. ASSUME NEW p \in Passes, Write(p) \/ Close(p) PROVE Mapped
    <3>1. UNCHANGED <<returned, handedOver>> BY <2>3 DEF Write, Close, historyVars
    <3>2. pass[p].row \in Refunds /\ Exists(pass[p].row)
      BY <2>3 DEF Write, Close, TablesTypeOK, RowsInv, HeldRowsExist
    <3>3. row[pass[p].row].charge \in Charges BY <3>2, ChargeOfRow
    <3>4. CASE row' = [row EXCEPT ![pass[p].row].resolved = TRUE]
      <4>1. row[pass[p].row].charge \in returned \/ pass[p].row \in handedOver
        <5>1. CASE Close(p) BY <5>1 DEF Close, AccountsInv, ReasonsHold
        <5>2. CASE Write(p) /\ pass[p].ok BY <5>2 DEF Write, AccountsInv, ReasonsHold
        <5>3. CASE Write(p) /\ ~pass[p].ok
          <6>1. row[pass[p].row].resolved
            BY <5>3, <3>2, <3>4 DEF Write, TablesTypeOK, RowRecord
          <6>2. QED BY <6>1, <3>2 DEF AccountsInv, RefundsAccountedFor
        <5>4. QED BY <2>3, <5>1, <5>2, <5>3
      <4>2. QED BY <3>1, <3>2, <3>3, <3>4, <4>1, ClosingMoves
    <3>5. QED BY <2>3, <3>1, <3>4, StillUnmoved DEF Write, Close
  <2>4. ASSUME NEW p \in Passes, NEW r \in Refunds, HandOver(p, r) PROVE Mapped
    <3>1. Exists(r) BY <2>4, HandOverMove DEF RowsInv, HeldRowsExist
    <3>2. QED BY <2>4, <3>1, HandOverMoves DEF HandOver
  <2>5. QED
    BY <1>3, <2>1, <2>2, <2>3, <2>4, StillUnmoved
    DEF Recover, LeaseExpires, WriteFails, Sweep, EndPass, PassDies, historyVars
<1>4. Mapped BY <1>1, <1>2, <1>3, StillUnmoved DEF RefundNext, refundVars, historyVars
<1>5. ASSUME Unmoved(Charges) PROVE UNCHANGED Promised!saleVars
  BY <1>5 DEF Unmoved, Promised!saleVars
<1>6. QED BY <1>4, <1>5, MovesMap

\* Rows, passes, retries and crashes implement what the sale promises of money
\* that is owed: the debt stands until the money is back or the office is told.
THEOREM RefundsImplementSale == RefundSpec => RefundsFollowSale
<1>1. RefundInit => Promised!Init
  <2> SUFFICES ASSUME RefundInit PROVE Promised!Init
    OBVIOUS
  <2>1. \A c \in Charges : MoneyOf(c) = "taken"
    BY NoneAssumption DEF RefundInit, MoneyOf, Owing, Open, Exists
  <2> QED
    BY <2>1 DEF Promised!Init
<1>2. RefundInv /\ [RefundNext]_refundVars => [Promised!Next]_Promised!saleVars
  BY MoneyMaps
<1> QED
  BY <1>1, <1>2, RefundInvariance, PTL DEF RefundSpec, RefundsFollowSale, Promised!Spec
===============================================================================
