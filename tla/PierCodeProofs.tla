--------------------------- MODULE PierCodeProofs ---------------------------
(***************************************************************************)
(* What PierCode keeps for any campaigns, assignments, programs and        *)
(* operators: code has no effect the operator did not allow, no            *)
(* override leads outside the assignment it is used for, and no message    *)
(* the agent remembers having given out waits for another run.             *)
(*                                                                         *)
(* Between the gate and the last record carried out the handler holds one  *)
(* assignment, and what the operator's file allowed at the gate holds all  *)
(* its grants (Gated); before the gate there is nothing to carry out, and  *)
(* a run that was refused leaves only an error behind.                     *)
(***************************************************************************)
EXTENDS PierCode, WellFoundedInduction, TLAPS

Phases == {"idle", "captured", "fetching", "forked", "approved", "running", "ended"}
Records == Asked \cup {Record("done"), Record("error")}
Overrides == [exposure : Nat \cup {None}, filter : Filters \cup {None}, by : Campaigns]

Types ==
    /\ phase \in Phases
    /\ phase # "idle" => assign \in Assignments
    /\ phase = "idle" => shot = None /\ applied = {}
    /\ out \in Seq(Records)
    /\ DOMAIN pendingCapture = Campaigns

(* The assignment's grants were all allowed at the gate, and its bytes are *)
(* the ones that ran.                                                      *)
Consented == EffectivePierCodeGrants(assign) \subseteq checked
Loaded == Consented /\ loaded = "good"

Gated ==
    /\ phase \in {"idle", "captured", "fetching", "forked", "approved"} => out = << >>
    /\ phase # "ended" => applied = {}
    /\ phase = "approved" => Consented
    /\ phase = "running" => Loaded
    /\ phase = "ended" =>
          \/ Loaded /\ applied \subseteq EffectivePierCodeGrants(assign)
          \/ applied = {} /\ \A i \in 1 .. Len(out) : out[i].action = "error"

(* An override waits for the campaign whose code has asked for it.         *)
Waiting ==
    \A c \in Campaigns :
        pendingCapture[c] # None => pendingCapture[c] \in Overrides /\ pendingCapture[c].by = c

CodeInv == Types /\ Gated /\ Waiting /\ ShotIsBounded

LEMMA ReturnInv ==
    ASSUME CodeInv, Return, DOMAIN pendingCapture' = Campaigns, Waiting'
    PROVE  CodeInv'
<1>1. Types'
  BY DEF CodeInv, Types, Return, Phases
<1>2. Gated'
  BY DEF Return, Gated
<1>3. ShotIsBounded'
  BY DEF Return, ShotIsBounded
<1> QED
  BY <1>1, <1>2, <1>3 DEF CodeInv

LEMMA RecordTypes ==
    /\ Record("error") \in Records /\ Record("done") \in Records
    /\ Record("error").action = "error" /\ Record("done").action = "done"
BY DEF Records, Record

(* What happens around the agent leaves the frame in hand alone.           *)
LEMMA AroundInv ==
    ASSUME CodeInv, UNCHANGED <<pendingCapture, phase, frame, runner>>
    PROVE  CodeInv'
<1> USE DEF frame, runner
<1>1. Types' /\ Gated'
  BY DEF CodeInv, Types, Gated, Loaded, Consented
<1>2. Waiting' /\ ShotIsBounded'
  BY DEF CodeInv, Waiting, ShotIsBounded
<1> QED
  BY <1>1, <1>2 DEF CodeInv

LEMMA OperatorInv == CodeInv /\ Operator => CodeInv'
BY AroundInv DEF Operator, Approve, Revoke

LEMMA BoardInv == CodeInv /\ Board => CodeInv'
BY AroundInv DEF Board, onBoardMessage, ClearRetained, files, frame, runner

(* The exposure of an assignment, with the override of its campaign or     *)
(* without.                                                                *)
LEMMA ShotOf ==
    ASSUME NEW a \in Assignments, NEW p,
           p # None => p \in Overrides /\ p.by = a.campaign /\ ValidateNextCapture(a, p)
                       /\ nextCaptureAllowed(a)
    PROVE  LET s == Shot(a, p)
           IN  /\ s.exposure \in 1 .. MaxExposure(a)
               /\ s.filter \in InSeq(a.filters) \cup {None}
               /\ s.by # None => /\ s.by = a.campaign /\ ~a.disabled
                                 /\ GrantAllows(a, "next_capture")
<1> DEFINE s == Shot(a, p)
<1>1. IsAssignment(a)
  BY AssignmentsAssumption
<1>2. MaxExposure(a) \in Nat \ {0}
  BY <1>1, BoundsAssumption DEF IsAssignment, MaxExposure
<1>3. s.exposure \in 1 .. MaxExposure(a)
  BY <1>2 DEF Shot, Overrides, ValidateNextCapture
<1>4. a.filters # << >> => Head(a.filters) \in InSeq(a.filters)
  BY <1>1 DEF IsAssignment, InSeq
<1>5. s.filter \in InSeq(a.filters) \cup {None}
  BY <1>4 DEF Shot, ValidateNextCapture
<1>6. s.by # None => s.by = a.campaign /\ ~a.disabled /\ GrantAllows(a, "next_capture")
  BY DEF Shot, nextCaptureAllowed
<1> QED
  BY <1>3, <1>5, <1>6

LEMMA ExposeInv ==
    ASSUME CodeInv, NEW a \in Assignments, Expose(a)
    PROVE  CodeInv'
<1>1. /\ phase = "idle" /\ DOMAIN pendingCapture' = Campaigns
      /\ \A c \in Campaigns : pendingCapture'[c] = None \/ pendingCapture'[c] = pendingCapture[c]
  <2>1. takePendingCapture(a) \/ UNCHANGED pendingCapture
    BY DEF Expose
  <2>2. phase = "idle" /\ DOMAIN pendingCapture = Campaigns
    BY DEF CodeInv, Types, Expose
  <2>3. QED
    BY <2>1, <2>2 DEF takePendingCapture
<1>2. Waiting'
  BY <1>1 DEF CodeInv, Waiting
<1>3. CASE Return
  BY <1>1, <1>2, <1>3, ReturnInv
<1>4. CASE /\ Override(a) # None => ValidateNextCapture(a, Override(a))
           /\ assign' = a /\ shot' = Shot(a, Override(a))
           /\ phase' = "captured" /\ UNCHANGED runner
  <2>1. a.campaign \in Campaigns
    BY AssignmentsAssumption DEF IsAssignment
  <2>2. Override(a) # None => /\ Override(a) \in Overrides /\ Override(a).by = a.campaign
                              /\ nextCaptureAllowed(a)
    BY <2>1 DEF Override, CodeInv, Waiting
  <2>3. ShotIsBounded'
    BY <1>4, <2>2, ShotOf DEF ShotIsBounded
  <2>4. out = << >>
    BY <1>1 DEF CodeInv, Gated
  <2>5. Types' /\ Gated'
    BY <1>1, <1>4, <2>4 DEF CodeInv, Types, Gated, runner, Phases
  <2> QED
    BY <1>2, <2>3, <2>5 DEF CodeInv
<1> QED
  BY <1>3, <1>4 DEF Expose

(* Up to the gate the handler has nothing to carry out.                    *)
LEMMA AgentBeforeInv ==
    ASSUME CodeInv, processCapturedTask \/ FetchVerifiedArtifact
    PROVE  CodeInv'
<1>1. UNCHANGED pendingCapture
  BY DEF processCapturedTask, FetchVerifiedArtifact
<1>2. DOMAIN pendingCapture' = Campaigns /\ Waiting'
  BY <1>1 DEF CodeInv, Types, Waiting
<1>3. CASE Return
  BY <1>2, <1>3, ReturnInv
<1>4. CASE /\ phase \in {"captured", "fetching"} /\ phase' \in {"fetching", "forked"}
           /\ UNCHANGED <<frame, runner>>
  BY <1>1, <1>2, <1>4 DEF CodeInv, Types, Gated, ShotIsBounded, frame, runner, Phases
<1> QED
  BY <1>3, <1>4 DEF processCapturedTask, FetchVerifiedArtifact, Go

(* The runner's steps leave the frame and the overrides alone.             *)
LEMMA FrameKept ==
    ASSUME CodeInv, UNCHANGED <<pendingCapture, frame>>, phase # "idle", phase' \in Phases \ {"idle"}
    PROVE  Waiting' /\ ShotIsBounded' /\ DOMAIN pendingCapture' = Campaigns /\ assign' \in Assignments
BY DEF CodeInv, Types, Waiting, ShotIsBounded, frame

LEMMA RunnerInv ==
    ASSUME CodeInv, Runner \/ KillRunner
    PROVE  CodeInv'
<1>1. /\ UNCHANGED <<pendingCapture, frame>> /\ phase # "idle" /\ phase' \in Phases \ {"idle"}
      /\ UNCHANGED applied
  BY DEF Runner, RunnerGate, LoadArtifact, emit, runArtifactEnds, KillRunner, Phases
<1>2. Waiting' /\ ShotIsBounded' /\ DOMAIN pendingCapture' = Campaigns /\ assign' \in Assignments
  BY <1>1, FrameKept
<1>3. SUFFICES out' \in Seq(Records) /\ Gated'
  BY <1>1, <1>2 DEF CodeInv, Types
<1>4. out \in Seq(Records) /\ applied' = {} /\ UNCHANGED assign
  BY <1>1 DEF CodeInv, Types, Gated, Runner, RunnerGate, LoadArtifact, emit, runArtifactEnds,
     KillRunner, frame
<1>5. Append(out, Record("error")) \in Seq(Records) /\ Append(out, Record("done")) \in Seq(Records)
  BY <1>4, RecordTypes
<1>6. out = << >> => \A i \in 1 .. Len(Fail) : Fail[i].action = "error"
  BY RecordTypes DEF Fail
<1>7. CASE RunnerGate
  <2>1. CASE phase' = "approved" /\ UNCHANGED out
    <3>1. Consented'
      BY <1>4, <1>7, <2>1 DEF RunnerGate, checkConsent, Allows, Consented, EffectivePierCodeGrants
    <3> QED
      BY <1>4, <1>7, <2>1, <3>1 DEF RunnerGate, CodeInv, Gated
  <2>2. CASE phase' = "ended" /\ out' = Fail
    <3>1. out = << >>
      BY <1>7 DEF RunnerGate, CodeInv, Gated
    <3> QED
      BY <1>4, <1>5, <1>6, <2>2, <3>1 DEF Gated, Fail
  <2> QED
    BY <1>7, <2>1, <2>2 DEF RunnerGate
<1>8. CASE LoadArtifact
  <2>1. CASE VerifyArtifactBytes(assign.hash) /\ phase' = "running" /\ UNCHANGED out
    BY <1>4, <1>8, <2>1 DEF LoadArtifact, VerifyArtifactBytes, CodeInv, Gated, Loaded, Consented
  <2>2. CASE phase' = "ended" /\ out' = Fail
    <3>1. out = << >>
      BY <1>8 DEF LoadArtifact, CodeInv, Gated
    <3> QED
      BY <1>4, <1>5, <1>6, <2>2, <3>1 DEF Gated, Fail
  <2> QED
    BY <1>8, <2>1, <2>2 DEF LoadArtifact
<1>9. ASSUME NEW rec \in Asked, emit(rec) PROVE out' \in Seq(Records) /\ Gated'
  <2>1. out' \in Seq(Records)
    BY <1>4, <1>9 DEF emit, Records
  <2>2. Gated'
    BY <1>4, <1>9 DEF emit, CodeInv, Gated, Loaded, Consented
  <2> QED
    BY <2>1, <2>2
<1>10. CASE runArtifactEnds
  <2>1. out' \in Seq(Records)
    BY <1>5, <1>10 DEF runArtifactEnds, Fail
  <2>2. Gated'
    BY <1>4, <1>10 DEF runArtifactEnds, CodeInv, Gated, Loaded, Consented
  <2> QED
    BY <2>1, <2>2
<1>11. CASE KillRunner
  <2>0. out' = out \/ out' = << >>
    BY <1>11 DEF KillRunner
  <2>1. out' \in Seq(Records)
    <3>1. << >> \in Seq(Records)
      OBVIOUS
    <3> QED
      BY <1>4, <2>0, <3>1
  <2>2. CASE phase = "running"
    <3>1. Loaded' /\ phase' = "ended"
      BY <1>4, <1>11, <2>2 DEF KillRunner, CodeInv, Gated, Loaded, Consented
    <3> QED
      BY <1>4, <2>1, <3>1 DEF Gated
  <2>3. CASE phase # "running"
    <3>1. out' = << >>
      BY <1>11, <2>3 DEF KillRunner, CodeInv, Gated
    <3> QED
      BY <1>4, <1>11, <3>1 DEF KillRunner, Gated
  <2> QED
    BY <2>1, <2>2, <2>3
<1> QED
  BY <1>7, <1>8, <1>9, <1>10, <1>11 DEF Runner

(* Only a record of the menu that the assignment grants is carried out.    *)
LEMMA ApplyInv ==
    ASSUME CodeInv, apply
    PROVE  CodeInv'
<1>1. CASE out = << >>
  BY <1>1, ReturnInv DEF apply, CodeInv, Types, Waiting
<1>2. CASE out # << >>
  <2>1. /\ phase = "ended" /\ out' = Tail(out)
        /\ UNCHANGED <<phase, assign, shot, checked, loaded>>
        /\ out \in Seq(Records) /\ out' \in Seq(Records) /\ Head(out) \in Records
        /\ assign \in Assignments
    BY <1>2 DEF apply, frame, CodeInv, Types
  <2>2. \A i \in 1 .. Len(out') : out'[i] = out[i + 1] /\ i + 1 \in 1 .. Len(out)
    BY <1>2, <2>1
  <2>3. ShotIsBounded'
    BY <2>1 DEF CodeInv, ShotIsBounded
  <2>4. CASE UNCHANGED <<pendingCapture, applied>>
    <3>1. Types' /\ Waiting'
      BY <2>1, <2>4 DEF CodeInv, Types, Waiting
    <3>2. Gated'
      BY <2>1, <2>2, <2>4 DEF CodeInv, Gated, Loaded, Consented
    <3> QED
      BY <2>3, <3>1, <3>2 DEF CodeInv
  <2>5. CASE /\ Head(out).action \notin {"state", "done", "error"} \cup PullActions
             /\ CheckRecordGrant(assign, Head(out))
             /\ CarryOut(Head(out))
             /\ ~UNCHANGED <<pendingCapture, applied>>
    <3>1. Head(out) = out[1] /\ 1 \in 1 .. Len(out)
      BY <1>2, <2>1
    <3>2. Loaded /\ applied \subseteq EffectivePierCodeGrants(assign)
      BY <2>1, <2>5, <3>1 DEF CodeInv, Gated
    <3>3. Head(out).action \in EffectivePierCodeGrants(assign)
      BY <2>5 DEF CheckRecordGrant, GrantAllows
    <3>4. applied' \subseteq EffectivePierCodeGrants(assign)
      BY <2>5, <3>2, <3>3 DEF CarryOut
    <3>5. Gated'
      BY <2>1, <3>2, <3>4 DEF Gated, Loaded, Consented
    <3>6. Head(out) \in Asked
      BY <2>1, <2>5, RecordTypes DEF Records
    <3>7. NextCapture(Head(out)) \in Overrides /\ NextCapture(Head(out)).by = assign.campaign
      BY <2>1, <3>6, AskedAssumption, AssignmentsAssumption
         DEF NextCapture, Overrides, IsRecord, IsAssignment
    <3>8. DOMAIN pendingCapture' = Campaigns /\ Waiting'
      BY <2>5, <3>7 DEF CarryOut, CodeInv, Types, Waiting
    <3>9. Types'
      BY <2>1, <3>8 DEF CodeInv, Types
    <3> QED
      BY <2>3, <3>5, <3>8, <3>9 DEF CodeInv
  <2> QED
    BY <1>2, <2>4, <2>5 DEF apply
<1> QED
  BY <1>1, <1>2

LEMMA RestartInv ==
    ASSUME CodeInv, Restart
    PROVE  CodeInv'
BY ReturnInv DEF Restart, Waiting

(* The inductive invariant.                                                *)
THEOREM CodeInvariant == Spec => []CodeInv
<1>1. Init => CodeInv
  BY DEF Init, CodeInv, Types, Gated, Waiting, ShotIsBounded, Phases
<1>2. CodeInv /\ [Next]_vars => CodeInv'
  <2> SUFFICES ASSUME CodeInv, [Next]_vars PROVE CodeInv'
    OBVIOUS
  <2>1. CASE UNCHANGED vars
    BY <2>1, AroundInv DEF vars
  <2>2. CASE \E h \in Hashes : Damage(h)
    BY <2>2, AroundInv DEF Damage
  <2>3. CASE Agent
    BY <2>3, ExposeInv, AgentBeforeInv, RunnerInv, ApplyInv DEF Agent
  <2>4. CASE Operator \/ Board \/ Runner \/ Restart
    BY <2>4, OperatorInv, BoardInv, RunnerInv, RestartInv
  <2> QED
    BY <2>1, <2>2, <2>3, <2>4 DEF Next
<1> QED
  BY <1>1, <1>2, PTL DEF Spec

(* A campaign's code has no effect the operator's file did not allow when  *)
(* its run was let in, whatever is revoked, damaged, killed or restarted   *)
(* meanwhile.                                                              *)
THEOREM CodeIsConsented == Spec => []EffectsAreConsented
<1>1. CodeInv => EffectsAreConsented
  BY DEF CodeInv, Types, Gated, Loaded, Consented, EffectsAreConsented
<1> QED
  BY <1>1, CodeInvariant, PTL

(* No exposure leaves the integration time and the filters of its own      *)
(* assignment, whichever assignment an override comes from.                *)
THEOREM CodeShotIsBounded == Spec => []ShotIsBounded
BY CodeInvariant, PTL DEF CodeInv


(***************************************************************************)
(* What Pick and Newest leave of a sequence.  A fact about every length is *)
(* proved by taking the least one for which it fails.                      *)
(***************************************************************************)
LEMMA LeastElement ==
    ASSUME NEW T \in SUBSET Nat, T # {}
    PROVE  \E n \in T : \A m \in T : n <= m
<1>1. PICK n \in T : \A m \in T : ~(<<m, n>> \in OpToRel(<, Nat))
  BY NatLessThanWellFounded, WFMin
<1>2. \A m \in T : ~(m < n)
  BY <1>1 DEF OpToRel
<1>3. QED
  BY <1>2

LEMMA NatInduct ==
    ASSUME NEW P \in SUBSET Nat, 0 \in P, \A n \in P : n + 1 \in P
    PROVE  P = Nat
<1> SUFFICES ASSUME Nat \ P # {} PROVE FALSE
  OBVIOUS
<1>1. PICK n \in Nat \ P : \A m \in Nat \ P : n <= m
  BY LeastElement
<1>2. n \in Nat /\ n # 0 /\ n \notin P
  OBVIOUS
<1>3. n - 1 \in Nat /\ n - 1 < n /\ (n - 1) + 1 = n
  BY <1>2
<1>4. n - 1 \in P
  BY <1>1, <1>3
<1>5. QED
  BY <1>2, <1>3, <1>4

UpTo(s, I, n, p) ==
    p = [m \in 0..n |-> IF m = 0 THEN << >>
                        ELSE IF m \in I THEN Append(p[m - 1], s[m]) ELSE p[m - 1]]

LEMMA UpToExists ==
    ASSUME NEW s, NEW I
    PROVE  \A n \in Nat : \E p : UpTo(s, I, n, p)
<1> DEFINE P == {n \in Nat : \E p : UpTo(s, I, n, p)}
<1>1. 0 \in P
  <2> DEFINE p == [m \in 0..0 |-> << >>]
  <2>1. UpTo(s, I, 0, p)
    BY DEF UpTo
  <2>2. QED
    BY <2>1
<1>2. ASSUME NEW n \in P PROVE n + 1 \in P
  <2>1. PICK g : UpTo(s, I, n, g)
    OBVIOUS
  <2>2. g = [m \in 0..n |-> IF m = 0 THEN << >>
                            ELSE IF m \in I THEN Append(g[m - 1], s[m]) ELSE g[m - 1]]
    BY <2>1 DEF UpTo
  <2> DEFINE h == [m \in 0..(n + 1) |->
                     IF m = 0 THEN << >>
                     ELSE IF m \in I THEN Append(g[m - 1], s[m]) ELSE g[m - 1]]
  <2>3. \A m \in 0..n : h[m] = g[m]
    <3>1. \A m \in 0..n : m \in 0..(n + 1)
      OBVIOUS
    <3>2. QED
      BY <2>2, <3>1
  <2>4. \A m \in 0..(n + 1) : m # 0 => m - 1 \in 0..n
    OBVIOUS
  <2>5. \A m \in 0..(n + 1) : m # 0 => g[m - 1] = h[m - 1]
    BY <2>3, <2>4
  <2>6. h = [m \in 0..(n + 1) |->
                IF m = 0 THEN << >>
                ELSE IF m \in I THEN Append(h[m - 1], s[m]) ELSE h[m - 1]]
    BY <2>5
  <2> HIDE DEF h
  <2>7. UpTo(s, I, n + 1, h)
    BY <2>6 DEF UpTo
  <2>8. QED
    BY <2>7
<1> HIDE DEF P
<1>3. P = Nat
  BY <1>1, <1>2, NatInduct DEF P
<1>4. QED
  BY <1>3 DEF P

(* Pick goes through the places one by one.                                *)
Walks(s, I, p) ==
    /\ Pick(s, I) = p[Len(s)] /\ p[0] = << >>
    /\ \A m \in 1..Len(s) :
          p[m] = IF m \in I THEN Append(p[m - 1], s[m]) ELSE p[m - 1]

LEMMA PickSteps ==
    ASSUME NEW s, Len(s) \in Nat, NEW I
    PROVE  \E p : Walks(s, I, p)
<1>1. PICK q : UpTo(s, I, Len(s), q)
  BY UpToExists
<1> DEFINE p == CHOOSE r : UpTo(s, I, Len(s), r)
<1>2. UpTo(s, I, Len(s), p)
  BY <1>1
<1>3. Pick(s, I) = p[Len(s)]
  BY DEF Pick, UpTo
<1> HIDE DEF p
<1>4. p = [m \in 0..Len(s) |->
             IF m = 0 THEN << >> ELSE IF m \in I THEN Append(p[m - 1], s[m]) ELSE p[m - 1]]
  BY <1>2 DEF UpTo
<1>5. 0 \in 0..Len(s) /\ \A m \in 1..Len(s) : m \in 0..Len(s) /\ m # 0
  OBVIOUS
<1>6. p[0] = << >>
  BY <1>4, <1>5
<1>7. ASSUME NEW m \in 1..Len(s)
      PROVE  p[m] = IF m \in I THEN Append(p[m - 1], s[m]) ELSE p[m - 1]
  BY <1>4, <1>5
<1>8. QED
  BY <1>3, <1>6, <1>7 DEF Walks

(* Every member of what is picked is a member.                             *)
LEMMA PickMembers ==
    ASSUME NEW S, NEW s \in Seq(S), NEW I
    PROVE  Pick(s, I) \in Seq(S) /\ InSeq(Pick(s, I)) \subseteq InSeq(s)
<1>0. Len(s) \in Nat /\ DOMAIN s = 1..Len(s)
  OBVIOUS
<1>w1. PICK p : Walks(s, I, p)
  BY <1>0, PickSteps
<1>1. /\ Pick(s, I) = p[Len(s)] /\ p[0] = << >>
      /\ \A m \in 1..Len(s) :
            p[m] = IF m \in I THEN Append(p[m - 1], s[m]) ELSE p[m - 1]
  BY <1>w1 DEF Walks
<1> DEFINE P == {n \in Nat : n <= Len(s) => p[n] \in Seq(InSeq(s) \cap S)}
<1>a. << >> \in Seq(InSeq(s) \cap S)
  OBVIOUS
<1>b. \A u \in Seq(InSeq(s) \cap S), x \in InSeq(s) \cap S :
         Append(u, x) \in Seq(InSeq(s) \cap S)
  OBVIOUS
<1>2. 0 \in P
  BY <1>1, <1>a
<1>3. ASSUME NEW n \in P PROVE n + 1 \in P
  <2> SUFFICES ASSUME n + 1 <= Len(s) PROVE p[n + 1] \in Seq(InSeq(s) \cap S)
    OBVIOUS
  <2>0. n \in Nat /\ n <= Len(s)
    BY <1>0
  <2>1. n + 1 \in 1..Len(s) /\ (n + 1) - 1 = n /\ p[n] \in Seq(InSeq(s) \cap S)
    BY <1>0, <2>0
  <2>2. s[n + 1] \in InSeq(s) \cap S
    BY <1>0, <2>1 DEF InSeq
  <2>3. p[n + 1] = p[n] \/ p[n + 1] = Append(p[n], s[n + 1])
    BY <1>1, <2>1
  <2>4. QED
    BY <1>b, <2>1, <2>2, <2>3
<1> HIDE DEF P
<1>4. P = Nat
  BY <1>2, <1>3, NatInduct DEF P
<1>5. p[Len(s)] \in Seq(InSeq(s) \cap S)
  BY <1>0, <1>4 DEF P
<1>6. \A q \in Seq(InSeq(s) \cap S) : q \in Seq(S) /\ \A i \in DOMAIN q : q[i] \in InSeq(s)
  OBVIOUS
<1>7. QED
  BY <1>1, <1>5, <1>6 DEF InSeq


(* t is the end of s.                                                      *)
Ends(s, t) == /\ Len(t) <= Len(s)
              /\ \A i \in 1..Len(t) : t[i] = s[(Len(s) - Len(t)) + i]

Regroups(S) == \A x, y \in Seq(S) : \A z \in S : Append(x \o y, z) = x \o Append(y, z)

LEMMA AppendEnds == ASSUME NEW S PROVE Regroups(S)
<1> SUFFICES ASSUME NEW x \in Seq(S), NEW y \in Seq(S), NEW z \in S
             PROVE  Append(x \o y, z) = x \o Append(y, z)
  BY DEF Regroups
<1>1. /\ Append(x \o y, z) \in Seq(S) /\ x \o Append(y, z) \in Seq(S)
      /\ Len(Append(x \o y, z)) = Len(x) + Len(y) + 1
      /\ Len(x \o Append(y, z)) = Len(x) + Len(y) + 1
      /\ Len(x) \in Nat /\ Len(y) \in Nat
  OBVIOUS
<1>2. ASSUME NEW k \in 1..(Len(x) + Len(y) + 1)
      PROVE  Append(x \o y, z)[k] = (x \o Append(y, z))[k]
  <2>1. CASE k <= Len(x)
    BY <1>1, <2>1
  <2>2. CASE k > Len(x) /\ k <= Len(x) + Len(y)
    BY <1>1, <2>2
  <2>3. CASE k = Len(x) + Len(y) + 1
    BY <1>1, <2>3
  <2>4. QED
    BY <1>1, <2>1, <2>2, <2>3
<1>3. \A u, v \in Seq(S) : Len(u) = Len(v) /\ (\A k \in 1..Len(u) : u[k] = v[k]) => u = v
  OBVIOUS
<1>4. QED
  BY <1>1, <1>2, <1>3

Meets(p, q, d, n, S) == q[n] \in Seq(S) /\ p[d + n] = p[d] \o q[n]

LEMMA PickEnds ==
    ASSUME NEW S, NEW s \in Seq(S), NEW t \in Seq(S), NEW d \in Nat, Len(s) = d + Len(t),
           \A i \in 1..Len(t) : s[d + i] = t[i], NEW I, NEW J,
           \A i \in 1..Len(t) : i \in J <=> d + i \in I
    PROVE  Ends(Pick(s, I), Pick(t, J))
<1>0. /\ Len(t) \in Nat /\ Len(s) \in Nat
      /\ \A i \in 1..Len(t) : t[i] \in S
      /\ \A i \in 1..Len(s) : s[i] \in S
  OBVIOUS
<1>a. << >> \in Seq(S) /\ \A u \in Seq(S), x \in S : Append(u, x) \in Seq(S)
  OBVIOUS
<1>w1. PICK p : Walks(s, I, p)
  BY <1>0, PickSteps
<1>1. /\ Pick(s, I) = p[Len(s)] /\ p[0] = << >>
      /\ \A m \in 1..Len(s) :
            p[m] = IF m \in I THEN Append(p[m - 1], s[m]) ELSE p[m - 1]
  BY <1>w1 DEF Walks
<1>w2. PICK q : Walks(t, J, q)
  BY <1>0, PickSteps
<1>2. /\ Pick(t, J) = q[Len(t)] /\ q[0] = << >>
      /\ \A m \in 1..Len(t) :
            q[m] = IF m \in J THEN Append(q[m - 1], t[m]) ELSE q[m - 1]
  BY <1>w2 DEF Walks
<1> DEFINE A == {n \in Nat : n <= d => p[n] \in Seq(S)}
<1>3. p[d] \in Seq(S)
  <2>1. 0 \in A
    BY <1>1, <1>a
  <2>2. ASSUME NEW n \in A PROVE n + 1 \in A
    <3> SUFFICES ASSUME n + 1 <= d PROVE p[n + 1] \in Seq(S)
      OBVIOUS
    <3>1. n + 1 \in 1..Len(s) /\ n + 1 \in 1..d /\ (n + 1) - 1 = n /\ p[n] \in Seq(S)
      BY <1>0
    <3>2. p[n + 1] = p[n] \/ p[n + 1] = Append(p[n], s[n + 1])
      BY <1>1, <3>1
    <3>3. s[n + 1] \in S
      BY <1>0, <3>1
    <3>4. QED
      BY <1>a, <3>1, <3>2, <3>3
  <2> HIDE DEF A
  <2>3. A = Nat
    BY <2>1, <2>2, NatInduct DEF A
  <2>4. QED
    BY <1>0, <2>3 DEF A
<1> DEFINE B == {n \in Nat : n <= Len(t) => Meets(p, q, d, n, S)}
<1>4. q[Len(t)] \in Seq(S) /\ p[Len(s)] = p[d] \o q[Len(t)]
  <2>1. 0 \in B
    <3>1. d + 0 = d /\ p[d] \o << >> = p[d]
      BY <1>3
    <3>2. QED
      BY <1>2, <1>a, <3>1 DEF Meets
  <2>2. ASSUME NEW n \in B PROVE n + 1 \in B
    <3> SUFFICES ASSUME n + 1 <= Len(t)
                 PROVE  Meets(p, q, d, n + 1, S)
      OBVIOUS
    <3>1. /\ n + 1 \in 1..Len(t) /\ (n + 1) - 1 = n /\ q[n] \in Seq(S)
          /\ d + (n + 1) \in 1..Len(s) /\ (d + (n + 1)) - 1 = d + n
          /\ p[d + n] = p[d] \o q[n]
      <4>1. n \in Nat /\ n <= Len(t) /\ Meets(p, q, d, n, S)
        BY <1>0
      <4>2. QED
        BY <1>0, <4>1 DEF Meets
    <3>2. CASE n + 1 \in J
      <4>1. q[n + 1] = Append(q[n], t[n + 1])
        BY <1>2, <3>1, <3>2
      <4>2. p[d + (n + 1)] = Append(p[d] \o q[n], t[n + 1])
        <5>1. d + (n + 1) \in I /\ s[d + (n + 1)] = t[n + 1]
          BY <3>1, <3>2
        <5>2. p[d + (n + 1)] = Append(p[d + n], s[d + (n + 1)])
          BY <1>1, <3>1, <5>1
        <5>3. QED
          BY <3>1, <5>1, <5>2
      <4>3. Append(p[d] \o q[n], t[n + 1]) = p[d] \o Append(q[n], t[n + 1])
        <5>1. p[d] \in Seq(S) /\ q[n] \in Seq(S) /\ t[n + 1] \in S
          BY <1>0, <1>3, <3>1
        <5>2. Regroups(S)
          BY AppendEnds
        <5>3. QED
          BY <5>1, <5>2 DEF Regroups
      <4>4. q[n + 1] \in Seq(S)
        BY <1>0, <1>a, <3>1, <4>1
      <4>5. QED
        BY <4>2, <4>3, <4>1, <4>4 DEF Meets
    <3>3. CASE n + 1 \notin J
      <4>1. q[n + 1] = q[n]
        BY <1>2, <3>1, <3>3
      <4>2. p[d + (n + 1)] = p[d] \o q[n]
        BY <1>0, <1>1, <3>1, <3>3
      <4>3. QED
        BY <3>1, <4>1, <4>2 DEF Meets
    <3>4. QED
      BY <3>2, <3>3
  <2> HIDE DEF B
  <2>3. B = Nat
    BY <2>1, <2>2, NatInduct DEF B
  <2>4. Len(t) \in B /\ Len(t) <= Len(t)
    BY <1>0, <2>3
  <2>5. Meets(p, q, d, Len(t), S)
    BY <2>4 DEF B
  <2>6. QED
    BY <2>5 DEF Meets
<1>5. \A x, y \in Seq(S) : Ends(x \o y, y)
  <2> SUFFICES ASSUME NEW x \in Seq(S), NEW y \in Seq(S) PROVE Ends(x \o y, y)
    OBVIOUS
  <2>1. /\ Len(x \o y) = Len(x) + Len(y) /\ Len(x) \in Nat /\ Len(y) \in Nat
        /\ \A i \in 1..Len(y) : (x \o y)[Len(x) + i] = y[i]
    OBVIOUS
  <2>2. Len(x \o y) - Len(y) = Len(x)
    BY <2>1
  <2>3. QED
    BY <2>1, <2>2 DEF Ends
<1>6. QED
  BY <1>1, <1>2, <1>3, <1>4, <1>5

LEMMA NewestParts ==
    ASSUME NEW S, NEW s \in Seq(S)
    PROVE  LET n == Newest(s)
           IN  /\ n \in Seq(S)
               /\ Len(n) = IF Len(s) > MaxBoard THEN MaxBoard ELSE Len(s)
               /\ \A i \in 1..Len(n) : n[i] = s[(Len(s) - Len(n)) + i]
               /\ InSeq(n) \subseteq InSeq(s)
<1> DEFINE n == Newest(s)
<1>1. Len(s) \in Nat /\ DOMAIN s = 1..Len(s) /\ MaxBoard \in Nat \ {0}
  BY BoundsAssumption
<1>k. PICK k : k = IF Len(s) > MaxBoard THEN Len(s) - MaxBoard + 1 ELSE 1
  OBVIOUS
<1>l. PICK l : l = Len(s)
  OBVIOUS
<1>m. n = SubSeq(s, k, l) /\ k \in 1..(l + 1) /\ l \in Nat /\ l = Len(s)
  BY <1>1, <1>k, <1>l DEF Newest
<1> HIDE DEF n
<1>n. /\ n \in Seq(S) /\ DOMAIN n = 1..Len(n) /\ Len(n) = (l - k) + 1
      /\ \A i \in 1..Len(n) : n[i] = s[(k + i) - 1]
  BY <1>m
<1>2. n \in Seq(S) /\ DOMAIN n = 1..Len(n)
  BY <1>n
<1>3. Len(n) = IF Len(s) > MaxBoard THEN MaxBoard ELSE Len(s)
  BY <1>1, <1>k, <1>l, <1>n
<1>4. ASSUME NEW i \in 1..Len(n) PROVE n[i] = s[(Len(s) - Len(n)) + i]
  <2>0. i \in Nat /\ Len(n) \in Nat /\ Len(s) - Len(n) = k - 1 /\ k \in Nat
    BY <1>m, <1>n
  <2>1. (k + i) - 1 = (Len(s) - Len(n)) + i
    BY <2>0
  <2>2. QED
    BY <1>n, <2>1
<1>5. ASSUME NEW i \in 1..Len(n) PROVE (Len(s) - Len(n)) + i \in 1..Len(s)
  BY <1>1, <1>3
<1>6. InSeq(n) \subseteq InSeq(s)
  BY <1>1, <1>2, <1>4, <1>5 DEF InSeq
<1>7. QED
  BY <1>2, <1>3, <1>4, <1>6 DEF n

LEMMA NewestEnds ==
    ASSUME NEW S, NEW s \in Seq(S), NEW t \in Seq(S), Ends(s, t)
    PROVE  Ends(Newest(s), Newest(t))
<1> DEFINE a == Newest(s)
           b == Newest(t)
<1>1. Len(s) \in Nat /\ Len(t) \in Nat /\ MaxBoard \in Nat \ {0} /\ Len(t) <= Len(s)
  BY BoundsAssumption DEF Ends
<1>2. /\ Len(a) = IF Len(s) > MaxBoard THEN MaxBoard ELSE Len(s)
      /\ \A i \in 1..Len(a) : a[i] = s[(Len(s) - Len(a)) + i]
  BY NewestParts
<1>3. /\ Len(b) = IF Len(t) > MaxBoard THEN MaxBoard ELSE Len(t)
      /\ \A i \in 1..Len(b) : b[i] = t[(Len(t) - Len(b)) + i]
  BY NewestParts
<1> HIDE DEF a, b
<1>4. Len(b) <= Len(a)
  BY <1>1, <1>2, <1>3
<1>5. ASSUME NEW i \in 1..Len(b) PROVE b[i] = a[(Len(a) - Len(b)) + i]
  <2>0. Len(a) \in Nat /\ Len(b) \in Nat /\ i \in Nat
    BY <1>1, <1>2, <1>3
  <2>a. (Len(t) - Len(b)) + i \in 1..Len(t)
    BY <1>1, <1>3, <2>0
  <2>b. (Len(a) - Len(b)) + i \in 1..Len(a)
    BY <1>4, <2>0
  <2>c. (Len(s) - Len(t)) + ((Len(t) - Len(b)) + i) = (Len(s) - Len(b)) + i
    BY <1>1, <2>0
  <2>d. (Len(s) - Len(a)) + ((Len(a) - Len(b)) + i) = (Len(s) - Len(b)) + i
    BY <1>1, <2>0
  <2>2. b[i] = t[(Len(t) - Len(b)) + i]
    BY <1>3
  <2>3. t[(Len(t) - Len(b)) + i] = s[(Len(s) - Len(t)) + ((Len(t) - Len(b)) + i)]
    BY <2>a DEF Ends
  <2>4. a[(Len(a) - Len(b)) + i] = s[(Len(s) - Len(a)) + ((Len(a) - Len(b)) + i)]
    BY <1>2, <2>b
  <2>5. QED
    BY <2>2, <2>3, <2>4, <2>c, <2>d
<1>6. QED
  BY <1>4, <1>5 DEF Ends, a, b

LEMMA AppendParts ==
    ASSUME NEW S, NEW s \in Seq(S), NEW m \in S
    PROVE  Append(s, m) \in Seq(S) /\ InSeq(Append(s, m)) = InSeq(s) \cup {m}
<1>1. /\ Append(s, m) \in Seq(S)
      /\ DOMAIN s = 1..Len(s) /\ DOMAIN Append(s, m) = 1..(Len(s) + 1)
      /\ Append(s, m)[Len(s) + 1] = m
      /\ \A k \in 1..Len(s) : Append(s, m)[k] = s[k]
      /\ Len(s) \in Nat
  OBVIOUS
<1>2. 1..(Len(s) + 1) = (1..Len(s)) \cup {Len(s) + 1}
  BY <1>1
<1>3. QED
  BY <1>1, <1>2 DEF InSeq

LEMMA AppendKeepsEnds ==
    ASSUME NEW S, NEW s \in Seq(S), NEW t \in Seq(S), Ends(s, t), NEW m \in S
    PROVE  Ends(Append(s, m), Append(t, m))
<1> DEFINE a == Append(s, m)
           b == Append(t, m)
<1>1. /\ Len(s) \in Nat /\ Len(t) \in Nat /\ Len(t) <= Len(s)
      /\ Len(a) = Len(s) + 1 /\ Len(b) = Len(t) + 1
      /\ a[Len(s) + 1] = m /\ b[Len(t) + 1] = m
      /\ \A i \in 1..Len(s) : a[i] = s[i]
      /\ \A i \in 1..Len(t) : b[i] = t[i]
  BY DEF Ends
<1> HIDE DEF a, b
<1>2. ASSUME NEW i \in 1..Len(b) PROVE b[i] = a[(Len(a) - Len(b)) + i]
  <2>1. CASE i = Len(t) + 1
    <3>1. (Len(a) - Len(b)) + i = Len(s) + 1
      BY <1>1, <2>1
    <3>2. QED
      BY <1>1, <2>1, <3>1
  <2>2. CASE i \in 1..Len(t)
    <3>1. /\ (Len(a) - Len(b)) + i = (Len(s) - Len(t)) + i
          /\ (Len(s) - Len(t)) + i \in 1..Len(s)
      BY <1>1, <2>2
    <3>2. t[i] = s[(Len(s) - Len(t)) + i]
      BY <2>2 DEF Ends
    <3>3. QED
      BY <1>1, <2>2, <3>1, <3>2
  <2>3. QED
    BY <1>1, <2>1, <2>2
<1>3. Ends(a, b)
  BY <1>1, <1>2 DEF Ends
<1>4. QED
  BY <1>3 DEF a, b

LEMMA EndsMembers ==
    ASSUME NEW S, NEW s \in Seq(S), NEW t \in Seq(S), Ends(s, t)
    PROVE  InSeq(t) \subseteq InSeq(s)
<1>1. /\ Len(s) \in Nat /\ Len(t) \in Nat /\ Len(t) <= Len(s)
      /\ DOMAIN s = 1..Len(s) /\ DOMAIN t = 1..Len(t)
  BY DEF Ends
<1>2. ASSUME NEW i \in 1..Len(t) PROVE (Len(s) - Len(t)) + i \in 1..Len(s)
  BY <1>1
<1>3. QED
  BY <1>1, <1>2 DEF Ends, InSeq

(* Clearing what a node has said keeps what is pending the end of what is  *)
(* remembered.                                                             *)
LEMMA ExceptEnds ==
    ASSUME NEW S, NEW s \in Seq(S), NEW t \in Seq(S), Ends(s, t), NEW n
    PROVE  /\ Except(s, n) \in Seq(S) /\ InSeq(Except(s, n)) \subseteq InSeq(s)
           /\ Except(t, n) \in Seq(S) /\ InSeq(Except(t, n)) \subseteq InSeq(t)
           /\ Ends(Except(s, n), Except(t, n))
<1>1. PICK I : I = {i \in DOMAIN s : Topic[s[i]].node # n}
  OBVIOUS
<1>2. PICK J : J = {i \in DOMAIN t : Topic[t[i]].node # n}
  OBVIOUS
<1>3. Except(s, n) = Pick(s, I) /\ Except(t, n) = Pick(t, J)
  BY <1>1, <1>2 DEF Except
<1>4. PICK d \in Nat : Len(s) = d + Len(t) /\ d = Len(s) - Len(t)
  <2>1. Len(s) - Len(t) \in Nat /\ Len(s) = (Len(s) - Len(t)) + Len(t)
    BY DEF Ends
  <2>2. QED
    BY <2>1
<1>5. \A i \in 1..Len(t) : s[d + i] = t[i] /\ d + i \in DOMAIN s /\ i \in DOMAIN t
  <2>1. DOMAIN s = 1..Len(s) /\ DOMAIN t = 1..Len(t) /\ Len(t) \in Nat
    OBVIOUS
  <2>2. \A i \in 1..Len(t) : d + i \in 1..Len(s)
    BY <1>4, <2>1
  <2>3. QED
    BY <1>4, <2>1, <2>2 DEF Ends
<1>6. \A i \in 1..Len(t) : i \in J <=> d + i \in I
  BY <1>1, <1>2, <1>5
<1>7. Ends(Pick(s, I), Pick(t, J))
  BY <1>4, <1>5, <1>6, PickEnds
<1>8. /\ Pick(s, I) \in Seq(S) /\ InSeq(Pick(s, I)) \subseteq InSeq(s)
      /\ Pick(t, J) \in Seq(S) /\ InSeq(Pick(t, J)) \subseteq InSeq(t)
  BY PickMembers
<1>9. QED
  BY <1>3, <1>7, <1>8

(***************************************************************************)
(* What waits for a run is the end of what the agent remembers, and of     *)
(* what it remembers nothing that was given out waits again.               *)
(***************************************************************************)
Heard(c) == /\ Ends(notes[c], pending[c]) /\ given[c] \subseteq InSeq(notes[c])
            /\ InSeq(pending[c]) \cap given[c] \subseteq Legacy

Hearing == /\ notes \in [Campaigns -> Seq(Messages)]
           /\ pending \in [Campaigns -> Seq(Messages)]
           /\ DOMAIN given = Campaigns
           /\ \A c \in Campaigns : Heard(c)

LEMMA KeepHears ==
    ASSUME Hearing, NEW c, NEW ns \in Seq(Messages), NEW ps \in Seq(Messages),
           Keep(c, ns, ps), Ends(ns, ps),
           c \in Campaigns => InSeq(ps) \cap given[c] \cap InSeq(ns) \subseteq Legacy
    PROVE  Hearing'
<1>1. /\ notes' \in [Campaigns -> Seq(Messages)]
      /\ pending' \in [Campaigns -> Seq(Messages)]
      /\ DOMAIN given' = Campaigns
  BY DEF Hearing, Keep
<1>2. ASSUME NEW d \in Campaigns PROVE Heard(d)'
  <2>1. CASE d = c
    <3>1. notes'[d] = ns /\ pending'[d] = ps /\ given'[d] = given[d] \cap InSeq(ns)
      BY <2>1 DEF Hearing, Keep
    <3>2. QED
      BY <2>1, <3>1 DEF Heard
  <2>2. CASE d # c
    <3>1. notes'[d] = notes[d] /\ pending'[d] = pending[d] /\ given'[d] = given[d]
      BY <2>2 DEF Hearing, Keep
    <3>2. QED
      BY <3>1 DEF Hearing, Heard
  <2>3. QED
    BY <2>1, <2>2
<1>3. QED
  BY <1>1, <1>2 DEF Hearing

LEMMA MessageHears ==
    ASSUME Hearing, NEW m \in Messages, NEW retained, onBoardMessage(m, retained)
    PROVE  Hearing'
<1>1. PICK c : c = Topic[m].campaign
  OBVIOUS
<1>2. PICK clear \in BOOLEAN : clear <=> (retained /\ m \in Legacy)
  OBVIOUS
<1>3. PICK ns : ns = IF clear THEN Except(notes[c], Topic[m].node) ELSE notes[c]
  OBVIOUS
<1>4. PICK ps : ps = IF clear THEN Except(pending[c], Topic[m].node) ELSE pending[c]
  OBVIOUS
<1>5. IF m \in InSeq(ns) THEN Keep(c, ns, ps)
      ELSE Keep(c, Newest(Append(ns, m)), Newest(Append(ps, m)))
  BY <1>1, <1>2, <1>3, <1>4 DEF onBoardMessage
<1>6. CASE c \notin Campaigns
  <2>1. /\ notes' = [notes EXCEPT ![c] = notes'[c]] /\ pending' = [pending EXCEPT ![c] = pending'[c]]
        /\ DOMAIN given' = Campaigns /\ \A d \in Campaigns : given'[d] = given[d]
    BY <1>5, <1>6 DEF Keep, Hearing
  <2>2. notes' = notes /\ pending' = pending
    BY <1>5, <1>6 DEF Keep, Hearing
  <2>3. QED
    BY <2>1, <2>2 DEF Hearing, Heard
<1>7. CASE c \in Campaigns
  <2>1. /\ notes[c] \in Seq(Messages) /\ pending[c] \in Seq(Messages)
        /\ Ends(notes[c], pending[c]) /\ given[c] \subseteq InSeq(notes[c])
        /\ InSeq(pending[c]) \cap given[c] \subseteq Legacy
    BY <1>7 DEF Hearing, Heard
  <2>2. /\ ns \in Seq(Messages) /\ ps \in Seq(Messages) /\ Ends(ns, ps)
        /\ InSeq(ps) \subseteq InSeq(pending[c])
        /\ ~clear => ns = notes[c]
    <3>1. CASE clear
      BY <1>3, <1>4, <2>1, <3>1, ExceptEnds
    <3>2. CASE ~clear
      BY <1>3, <1>4, <2>1, <3>2
    <3>3. QED
      BY <3>1, <3>2
  <2>3. CASE m \in InSeq(ns)
    BY <1>5, <1>7, <2>1, <2>2, <2>3, KeepHears
  <2>4. CASE m \notin InSeq(ns)
    <3>1. PICK a : a = Append(ns, m)
      OBVIOUS
    <3>2. PICK b : b = Append(ps, m)
      OBVIOUS
    <3>3. /\ a \in Seq(Messages) /\ b \in Seq(Messages) /\ InSeq(b) = InSeq(ps) \cup {m}
      BY <2>2, <3>1, <3>2, AppendParts
    <3>4. Ends(a, b)
      BY <2>2, <3>1, <3>2, AppendKeepsEnds
    <3>5. Newest(a) \in Seq(Messages) /\ Newest(b) \in Seq(Messages)
          /\ InSeq(Newest(b)) \subseteq InSeq(b)
      BY <3>3, NewestParts
    <3>6. Ends(Newest(a), Newest(b))
      BY <3>3, <3>4, NewestEnds
    <3>7. m \in given[c] => m \in Legacy
      BY <1>2, <2>1, <2>2, <2>4
    <3>8. InSeq(Newest(b)) \cap given[c] \cap InSeq(Newest(a)) \subseteq Legacy
      BY <2>1, <2>2, <3>3, <3>5, <3>7
    <3>9. Keep(c, Newest(a), Newest(b))
      BY <1>5, <2>4, <3>1, <3>2
    <3>10. QED
      BY <3>5, <3>6, <3>8, <3>9, KeepHears
  <2>5. QED
    BY <2>3, <2>4
<1>8. QED
  BY <1>6, <1>7

LEMMA ClearHears ==
    ASSUME Hearing, NEW c, NEW n, ClearRetained(c, n)
    PROVE  Hearing'
<1>1. Keep(c, Except(notes[c], n), Except(pending[c], n))
  BY DEF ClearRetained
<1>2. CASE c \notin Campaigns
  <2>1. DOMAIN given' = Campaigns /\ \A d \in Campaigns : given'[d] = given[d]
    BY <1>1, <1>2 DEF Keep, Hearing
  <2>2. notes' = notes /\ pending' = pending
    BY <1>1, <1>2 DEF Keep, Hearing
  <2>3. QED
    BY <2>1, <2>2 DEF Hearing, Heard
<1>3. CASE c \in Campaigns
  <2>1. /\ notes[c] \in Seq(Messages) /\ pending[c] \in Seq(Messages)
        /\ Ends(notes[c], pending[c])
        /\ InSeq(pending[c]) \cap given[c] \subseteq Legacy
    BY <1>3 DEF Hearing, Heard
  <2>2. PICK ns, ps : ns = Except(notes[c], n) /\ ps = Except(pending[c], n)
    OBVIOUS
  <2>3. /\ ns \in Seq(Messages) /\ ps \in Seq(Messages) /\ Ends(ns, ps)
        /\ InSeq(ps) \subseteq InSeq(pending[c])
    BY <2>1, <2>2, ExceptEnds
  <2>4. QED
    BY <1>1, <2>1, <2>2, <2>3, KeepHears
<1>4. QED
  BY <1>2, <1>3

LEMMA NothingEnds ==
    ASSUME NEW S, NEW s \in Seq(S)
    PROVE  << >> \in Seq(S) /\ Ends(s, << >>) /\ InSeq(<< >>) = {}
  BY DEF Ends, InSeq

LEMMA DrainHears ==
    ASSUME Hearing, NEW c, drainBoardSnapshot(c)
    PROVE  Hearing'
<1>1. /\ notes' \in [Campaigns -> Seq(Messages)]
      /\ pending' \in [Campaigns -> Seq(Messages)]
      /\ DOMAIN given' = Campaigns
  <2>1. << >> \in Seq(Messages)
    OBVIOUS
  <2>2. QED
    BY <2>1 DEF Hearing, drainBoardSnapshot
<1>2. ASSUME NEW d \in Campaigns PROVE Heard(d)'
  <2>1. CASE d = c
    <3>1. /\ notes'[d] = notes[d] /\ pending'[d] = << >>
          /\ given'[d] = given[d] \cup InSeq(pending[d])
      BY <2>1 DEF Hearing, drainBoardSnapshot
    <3>2. notes[d] \in Seq(Messages) /\ pending[d] \in Seq(Messages) /\ Ends(notes[d], pending[d])
      BY DEF Hearing, Heard
    <3>3. InSeq(pending[d]) \subseteq InSeq(notes[d])
      BY <3>2, EndsMembers
    <3>4. Ends(notes[d], << >>) /\ InSeq(<< >>) = {}
      BY <3>2, NothingEnds
    <3>5. given[d] \subseteq InSeq(notes[d])
      BY DEF Hearing, Heard
    <3>6. QED
      BY <3>1, <3>3, <3>4, <3>5 DEF Heard
  <2>2. CASE d # c
    <3>1. notes'[d] = notes[d] /\ pending'[d] = pending[d] /\ given'[d] = given[d]
      BY <2>2 DEF Hearing, drainBoardSnapshot
    <3>2. QED
      BY <3>1 DEF Hearing, Heard
  <2>3. QED
    BY <2>1, <2>2
<1>3. QED
  BY <1>1, <1>2 DEF Hearing

LEMMA EmptyHears ==
    ASSUME notes = [c \in Campaigns |-> << >>], pending = notes,
           given = [c \in Campaigns |-> {}]
    PROVE  Hearing
<1>0. << >> \in Seq(Messages)
  OBVIOUS
<1>1. Ends(<< >>, << >>) /\ InSeq(<< >>) = {}
  BY <1>0, NothingEnds
<1>2. QED
  BY <1>0, <1>1 DEF Hearing, Heard

LEMMA RestartHears ==
    ASSUME Restart
    PROVE  Hearing'
<1>0. << >> \in Seq(Messages)
  OBVIOUS
<1>1. Ends(<< >>, << >>) /\ InSeq(<< >>) = {}
  BY <1>0, NothingEnds
<1>2. QED
  BY <1>0, <1>1 DEF Hearing, Heard, Restart

(* Between two restarts, and as long as the bounded history still holds    *)
(* it, a message with an id that a run was given waits for no other run,   *)
(* whatever the broker repeats and however the nodes clear what they have  *)
(* said, for any sizes of board and history.  Nothing is said of a message *)
(* without an id, of one the history has lost, nor of what the broker      *)
(* retained and brings again to an agent that was restarted.               *)
THEOREM CodeSignalOnce == Spec => []SignalOnce
<1>1. Init => Hearing
  BY EmptyHears DEF Init
<1>2. Hearing /\ [Next]_vars => Hearing'
  <2> SUFFICES ASSUME Hearing, [Next]_vars PROVE Hearing'
    OBVIOUS
  <2>1. CASE UNCHANGED board
    BY <2>1 DEF board, Hearing, Heard
  <2>2. CASE Board
    BY <2>2, MessageHears, ClearHears DEF Board
  <2>3. CASE processCapturedTask
    BY <2>1, <2>3, DrainHears DEF processCapturedTask
  <2>4. CASE Restart
    BY <2>4, RestartHears
  <2>5. CASE Operator \/ Runner \/ \E h \in Hashes : Damage(h)
    BY <2>1, <2>5 DEF Operator, Approve, Revoke, Damage, Runner, RunnerGate, LoadArtifact, emit,
       runArtifactEnds
  <2>6. CASE (\E a \in Assignments : Expose(a)) \/ FetchVerifiedArtifact \/ KillRunner \/ apply
    BY <2>1, <2>6 DEF Expose, FetchVerifiedArtifact, KillRunner, apply
  <2>7. CASE UNCHANGED vars
    BY <2>1, <2>7 DEF vars
  <2>8. QED
    BY <2>2, <2>3, <2>4, <2>5, <2>6, <2>7 DEF Next, Agent
<1>3. Hearing => SignalOnce
  BY DEF Hearing, Heard, SignalOnce
<1>4. QED
  BY <1>1, <1>2, <1>3, PTL DEF Spec

=============================================================================
