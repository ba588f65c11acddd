-------------------------- MODULE SharedFile_proofs -------------------------
(***************************************************************************)
(* Two clients over one file.  What each of them does to it is known from  *)
(* MessageDelivery_proofs (SharedStepIsHonest); the other's list and its   *)
(* server notice nothing of it.                                            *)
(***************************************************************************)
EXTENDS SharedFile, TLAPS

PA == INSTANCE MessageDelivery_proofs WITH
        queued <- queuedA, acked <- ackedA, cursor <- cursorA, link <- linkA,
        broken <- brokenA, stream <- streamA, m_PersistentIds <- idsA, open <- openA

PB == INSTANCE MessageDelivery_proofs WITH
        queued <- queuedB, acked <- ackedB, cursor <- cursorB, link <- linkB,
        broken <- brokenB, stream <- streamB, m_PersistentIds <- idsB, open <- openB

SInv == /\ PA!SharedTypeOK /\ PA!Honest(PA!Known)
        /\ PB!SharedTypeOK /\ PB!Honest(PB!Known)

(* The modules speak of the same things. *)
LEMMA SameTypes == (A!TypeOK <=> PA!TypeOK) /\ (B!TypeOK <=> PB!TypeOK)
BY DEF A!TypeOK, PA!TypeOK, B!TypeOK, PB!TypeOK, A!Links, PA!Links, B!Links, PB!Links

LEMMA SameStepsA ==
  ASSUME NextA
  PROVE  \/ (\E m \in Messages : PA!Publish(m)) /\ UNCHANGED openA
         \/ PA!SharedNext
<1>1. ASSUME (\E m \in MessagesA : A!Publish(m)) /\ UNCHANGED openA
      PROVE  (\E m \in Messages : PA!Publish(m)) /\ UNCHANGED openA
  BY <1>1
  DEF A!Publish, A!history, A!bounds, PA!Publish, PA!history, PA!bounds, Messages
<1>2. ASSUME (A!ServerNext \/ A!ConnectionBreaks) /\ UNCHANGED openA
      PROVE  (PA!ServerNext \/ PA!ConnectionBreaks) /\ UNCHANGED openA
  BY <1>2
  DEF A!ServerNext, A!AcceptLogin, A!ReportedIds, A!Answered, A!RejectLogin,
     A!OneMoreTrouble, A!SendNext, A!ConnectionBreaks, A!server, A!history, A!bounds,
     PA!ServerNext, PA!AcceptLogin, PA!ReportedIds, PA!Answered, PA!RejectLogin,
     PA!OneMoreTrouble, PA!SendNext, PA!ConnectionBreaks, PA!server, PA!history, PA!bounds
<1>3. ASSUME A!HandleLoginResponse \/ A!UserNext \/ A!UserStops
      PROVE  PA!HandleLoginResponse \/ PA!UserNext \/ PA!UserStops
  BY <1>3
  DEF A!HandleLoginResponse, A!UserNext, A!StartClient, A!LoadPersistentID, A!UserStopsDeaf,
     A!Deaf, A!UserStops, A!OneMoreTrouble, A!ProcessEnds, A!ReportedIds, A!server,
     A!history, A!bounds, PA!HandleLoginResponse, PA!UserNext, PA!StartClient,
     PA!LoadPersistentID, PA!UserStopsDeaf, PA!Deaf, PA!UserStops, PA!OneMoreTrouble,
     PA!ProcessEnds, PA!ReportedIds, PA!server, PA!history, PA!bounds
<1>4. ASSUME NEW m \in Messages, A!HandleWithoutFile(m)
      PROVE  PA!HandleWithoutFile(m)
  BY <1>4
  DEF A!HandleWithoutFile, A!HandleDataMessage, A!WritePersistentIDToFile, A!EmitMessage,
     A!Count, A!ProcessEnds, A!ReportedIds, A!server, PA!HandleWithoutFile,
     PA!HandleDataMessage, PA!WritePersistentIDToFile, PA!EmitMessage, PA!Count,
     PA!ProcessEnds, PA!ReportedIds, PA!server
<1>5. ASSUME NEW m \in Messages, A!OpenFile(m)
      PROVE  PA!OpenFile(m)
  BY <1>5
  DEF A!OpenFile, A!server, A!history, A!bounds, PA!OpenFile, PA!server, PA!history,
     PA!bounds
<1>6. ASSUME NEW m \in Messages, A!WriteFile(m)
      PROVE  PA!WriteFile(m)
  BY <1>6
  DEF A!WriteFile, A!Overlaid, A!EmitMessage, A!Count, A!server, PA!WriteFile, PA!Overlaid,
     PA!EmitMessage, PA!Count, PA!server
<1>7. ASSUME NEW m \in Messages, A!KilledWhileOpen(m)
      PROVE  PA!KilledWhileOpen(m)
  <2>1. A!ProcessEnds => PA!ProcessEnds
    BY DEF A!ProcessEnds, A!ReportedIds, PA!ProcessEnds, PA!ReportedIds
  <2>2. A!Overlaid(idsA \cup {m}, m) = PA!Overlaid(idsA \cup {m}, m)
    BY DEF A!Overlaid, PA!Overlaid
  <2> QED
    BY <1>7, <2>1, <2>2
    DEF A!KilledWhileOpen, A!OneMoreTrouble, PA!KilledWhileOpen, PA!OneMoreTrouble
<1> QED
  BY <1>1, <1>2, <1>3, <1>4, <1>5, <1>6, <1>7 DEF NextA, Messages, A!SharedNext, PA!SharedNext

(* A step of the client A, or of its server: what it leaves in the file is  *)
(* known to be shown, or lost, and what the client B has in its list and    *)
(* was told of is as it was.                                               *)
LEMMA StepOfA ==
  ASSUME SInv, NextA, UNCHANGED ownB
  PROVE  SInv'
<1>1. \/ (\E m \in Messages : PA!Publish(m)) /\ UNCHANGED openA
      \/ PA!SharedNext
  BY SameStepsA
<1>2. PA!SharedTypeOK' /\ PA!Honest(PA!Known)' /\ PA!Grows
  BY <1>1, PA!SharedStepIsHonest, AccountsAssumption DEF SInv, Messages, A!Kinds, PA!Kinds
<1>3. UNCHANGED <<queuedB, ackedB, cursorB, linkB, brokenB, streamB, idsB, openB>>
  BY DEF ownB
<1>4. PB!SharedTypeOK'
  BY <1>2, <1>3
  DEF SInv, PA!SharedTypeOK, PB!SharedTypeOK, PA!TypeOK, PB!TypeOK, PA!Links, PB!Links
<1>5. PB!Honest(PB!Known)'
  <2>1. ASSUME NEW m \in (ackedB' \cup file' \cup idsB') \ {NoId}, Kind[m] = "good"
        PROVE  shown'[m] > 0 \/ m \in lost'
    <3>1. CASE m \in file'
      BY <1>2, <2>1, <3>1 DEF PA!Honest, PA!Known
    <3>2. CASE m \in ackedB \cup idsB
      <4>1. shown[m] > 0 \/ m \in lost
        BY <2>1, <3>2 DEF SInv, PB!Honest, PB!Known
      <4>2. m \in Messages
        BY <2>1, <3>2 DEF SInv, PB!SharedTypeOK, PB!TypeOK
      <4> QED
        BY <1>2, <4>1, <4>2 DEF PA!Grows
    <3> QED
      BY <1>3, <2>1, <3>1, <3>2
  <2> QED
    BY <2>1 DEF PB!Honest, PB!Known
<1> QED
  BY <1>2, <1>4, <1>5 DEF SInv

LEMMA SameStepsB ==
  ASSUME NextB
  PROVE  \/ (\E m \in Messages : PB!Publish(m)) /\ UNCHANGED openB
         \/ PB!SharedNext
<1>1. ASSUME (\E m \in MessagesB : B!Publish(m)) /\ UNCHANGED openB
      PROVE  (\E m \in Messages : PB!Publish(m)) /\ UNCHANGED openB
  BY <1>1
  DEF B!Publish, B!history, B!bounds, PB!Publish, PB!history, PB!bounds, Messages
<1>2. ASSUME (B!ServerNext \/ B!ConnectionBreaks) /\ UNCHANGED openB
      PROVE  (PB!ServerNext \/ PB!ConnectionBreaks) /\ UNCHANGED openB
  BY <1>2
  DEF B!ServerNext, B!AcceptLogin, B!ReportedIds, B!Answered, B!RejectLogin,
     B!OneMoreTrouble, B!SendNext, B!ConnectionBreaks, B!server, B!history, B!bounds,
     PB!ServerNext, PB!AcceptLogin, PB!ReportedIds, PB!Answered, PB!RejectLogin,
     PB!OneMoreTrouble, PB!SendNext, PB!ConnectionBreaks, PB!server, PB!history, PB!bounds
<1>3. ASSUME B!HandleLoginResponse \/ B!UserNext \/ B!UserStops
      PROVE  PB!HandleLoginResponse \/ PB!UserNext \/ PB!UserStops
  BY <1>3
  DEF B!HandleLoginResponse, B!UserNext, B!StartClient, B!LoadPersistentID, B!UserStopsDeaf,
     B!Deaf, B!UserStops, B!OneMoreTrouble, B!ProcessEnds, B!ReportedIds, B!server,
     B!history, B!bounds, PB!HandleLoginResponse, PB!UserNext, PB!StartClient,
     PB!LoadPersistentID, PB!UserStopsDeaf, PB!Deaf, PB!UserStops, PB!OneMoreTrouble,
     PB!ProcessEnds, PB!ReportedIds, PB!server, PB!history, PB!bounds
<1>4. ASSUME NEW m \in Messages, B!HandleWithoutFile(m)
      PROVE  PB!HandleWithoutFile(m)
  BY <1>4
  DEF B!HandleWithoutFile, B!HandleDataMessage, B!WritePersistentIDToFile, B!EmitMessage,
     B!Count, B!ProcessEnds, B!ReportedIds, B!server, PB!HandleWithoutFile,
     PB!HandleDataMessage, PB!WritePersistentIDToFile, PB!EmitMessage, PB!Count,
     PB!ProcessEnds, PB!ReportedIds, PB!server
<1>5. ASSUME NEW m \in Messages, B!OpenFile(m)
      PROVE  PB!OpenFile(m)
  BY <1>5
  DEF B!OpenFile, B!server, B!history, B!bounds, PB!OpenFile, PB!server, PB!history,
     PB!bounds
<1>6. ASSUME NEW m \in Messages, B!WriteFile(m)
      PROVE  PB!WriteFile(m)
  BY <1>6
  DEF B!WriteFile, B!Overlaid, B!EmitMessage, B!Count, B!server, PB!WriteFile, PB!Overlaid,
     PB!EmitMessage, PB!Count, PB!server
<1>7. ASSUME NEW m \in Messages, B!KilledWhileOpen(m)
      PROVE  PB!KilledWhileOpen(m)
  <2>1. B!ProcessEnds => PB!ProcessEnds
    BY DEF B!ProcessEnds, B!ReportedIds, PB!ProcessEnds, PB!ReportedIds
  <2>2. B!Overlaid(idsB \cup {m}, m) = PB!Overlaid(idsB \cup {m}, m)
    BY DEF B!Overlaid, PB!Overlaid
  <2> QED
    BY <1>7, <2>1, <2>2
    DEF B!KilledWhileOpen, B!OneMoreTrouble, PB!KilledWhileOpen, PB!OneMoreTrouble
<1> QED
  BY <1>1, <1>2, <1>3, <1>4, <1>5, <1>6, <1>7 DEF NextB, Messages, B!SharedNext, PB!SharedNext

(* A step of the client B, or of its server: what it leaves in the file is  *)
(* known to be shown, or lost, and what the client A has in its list and    *)
(* was told of is as it was.                                               *)
LEMMA StepOfB ==
  ASSUME SInv, NextB, UNCHANGED ownA
  PROVE  SInv'
<1>1. \/ (\E m \in Messages : PB!Publish(m)) /\ UNCHANGED openB
      \/ PB!SharedNext
  BY SameStepsB
<1>2. PB!SharedTypeOK' /\ PB!Honest(PB!Known)' /\ PB!Grows
  BY <1>1, PB!SharedStepIsHonest, AccountsAssumption DEF SInv, Messages, A!Kinds, PB!Kinds
<1>3. UNCHANGED <<queuedA, ackedA, cursorA, linkA, brokenA, streamA, idsA, openA>>
  BY DEF ownA
<1>4. PA!SharedTypeOK'
  BY <1>2, <1>3
  DEF SInv, PB!SharedTypeOK, PA!SharedTypeOK, PB!TypeOK, PA!TypeOK, PB!Links, PA!Links
<1>5. PA!Honest(PA!Known)'
  <2>1. ASSUME NEW m \in (ackedA' \cup file' \cup idsA') \ {NoId}, Kind[m] = "good"
        PROVE  shown'[m] > 0 \/ m \in lost'
    <3>1. CASE m \in file'
      BY <1>2, <2>1, <3>1 DEF PB!Honest, PB!Known
    <3>2. CASE m \in ackedA \cup idsA
      <4>1. shown[m] > 0 \/ m \in lost
        BY <2>1, <3>2 DEF SInv, PA!Honest, PA!Known
      <4>2. m \in Messages
        BY <2>1, <3>2 DEF SInv, PA!SharedTypeOK, PA!TypeOK
      <4> QED
        BY <1>2, <4>1, <4>2 DEF PB!Grows
    <3> QED
      BY <1>3, <2>1, <3>1, <3>2
  <2> QED
    BY <2>1 DEF PA!Honest, PA!Known
<1> QED
  BY <1>2, <1>4, <1>5 DEF SInv

LEMMA InitSInv == Init => SInv
<1> SUFFICES ASSUME Init PROVE SInv
  OBVIOUS
<1>1. /\ queuedA = <<>> /\ queuedB = <<>> /\ streamA = <<>> /\ streamB = <<>>
      /\ ackedA = {} /\ ackedB = {} /\ idsA = {} /\ idsB = {} /\ file = {} /\ lost = {}
      /\ cursorA = 0 /\ cursorB = 0 /\ linkA = "down" /\ linkB = "down"
      /\ brokenA = FALSE /\ brokenB = FALSE /\ troubles = 0 /\ writeFaults = 0
      /\ shown = [m \in Messages |-> 0] /\ delivered = [m \in Messages |-> 0]
      /\ openA = {} /\ openB = {}
  BY DEF Init, A!Init, B!Init, Messages
<1>2. PA!SharedTypeOK /\ PB!SharedTypeOK
  <2>1. PA!Init /\ PB!Init
    BY <1>1 DEF PA!Init, PB!Init
  <2>2. PA!DInv /\ PB!DInv
    BY <2>1, PA!InitEstablishes, PB!InitEstablishes, AccountsAssumption
    DEF Messages, A!Kinds, PA!Kinds, PB!Kinds
  <2> QED
    BY <1>1, <2>2 DEF PA!DInv, PB!DInv, PA!SharedTypeOK, PB!SharedTypeOK
<1>3. PA!Honest(PA!Known) /\ PB!Honest(PB!Known)
  BY <1>1 DEF PA!Honest, PB!Honest, PA!Known, PB!Known
<1> QED
  BY <1>2, <1>3 DEF SInv

LEMMA StutterKeeps ==
  ASSUME SInv, UNCHANGED vars
  PROVE  SInv'
<1>1. UNCHANGED ownA /\ UNCHANGED ownB /\ UNCHANGED common
  BY DEF vars
<1>2. PA!SharedTypeOK' /\ PB!SharedTypeOK'
  BY <1>1
  DEF SInv, ownA, ownB, common, PA!SharedTypeOK, PB!SharedTypeOK, PA!TypeOK, PB!TypeOK, PA!Links, PB!Links
<1>3. PA!Honest(PA!Known)' /\ PB!Honest(PB!Known)'
  BY <1>1 DEF SInv, ownA, ownB, common, PA!Honest, PB!Honest, PA!Known, PB!Known
<1> QED
  BY <1>2, <1>3 DEF SInv

THEOREM Inductive == Spec => []SInv
<1>1. SInv /\ [Next]_vars => SInv'
  BY StepOfA, StepOfB, StutterKeeps DEF Next
<1> QED
  BY <1>1, InitSInv, PTL DEF Spec

(* Types, of both accounts and what they share. *)
THEOREM TypeCorrect == Spec => []TypeOK
<1>1. SInv => TypeOK
  BY SameTypes DEF SInv, TypeOK, AtMostOneOf, PA!SharedTypeOK, PB!SharedTypeOK, Messages
<1> QED
  BY <1>1, Inductive, PTL

(* With two clients that overwrite each other's ids in persistent_id.txt,  *)
(* neither server is told of a good message that was not shown, unless the *)
(* program was killed between recording it and showing it.                 *)
THEOREM ForgottenOnlyIfShown == Spec => []ForgottenWasShown
<1>1. SInv => ForgottenWasShown
  <2> SUFFICES ASSUME SInv PROVE ForgottenWasShown
    OBVIOUS
  <2>1. NoId \notin Messages
    BY AccountsAssumption
  <2>2. ackedA \subseteq Messages /\ ackedB \subseteq Messages
    BY DEF SInv, PA!SharedTypeOK, PB!SharedTypeOK, PA!TypeOK, PB!TypeOK
  <2> QED
    BY <2>1, <2>2 DEF SInv, ForgottenWasShown, PA!Honest, PB!Honest, PA!Known, PB!Known
<1> QED
  BY <1>1, Inductive, PTL
=============================================================================
