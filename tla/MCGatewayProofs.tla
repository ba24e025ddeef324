---------------------------- MODULE MCGatewayProofs ----------------------------
(***************************************************************************)
(* Proofs about all the parts of MCGateway in one.                         *)
(***************************************************************************)
EXTENDS MCGateway, GatewayProofs, CloudProofs, ConfigAnswers
-----------------------------------------------------------------------------
(* The parts in one.                                                       *)

GatewayInv ==
    /\ ResInv /\ LifeInv /\ ConnInv /\ MissInv /\ TransferInv
    /\ SessionInv /\ FwInv /\ ConfigInv /\ AnswerInv

LEMMA GatewayBegins == GatewayInit => GatewayInv
<1>1. GatewayInit => /\ ResInit /\ LifeInit /\ ConnectionInit /\ TransferInit
                     /\ FileInit /\ FirmwareInit /\ RciInit
  BY Zenon DEF GatewayInit
<1> QED
  BY <1>1, ResBegins, LifeInitInv, ConnInitially, TransferBegins,
     SessionBegins, Initially, ConfigStarts, AnswersStart, Zenon DEF GatewayInv

\* A step of the gateway is one of a part, and the others stay as they are.
LEMMA PartSteps ==
    ASSUME [GatewayNext]_gatewayVars
    PROVE  /\ [ResNext]_resVars /\ [LifeNext]_lifeVars
           /\ [ConnectionNext]_connectionVars /\ [TransferNext]_transferVars
           /\ [FileNext]_fileVars /\ [FirmwareNext]_fwVars
           /\ [RciNext]_rciVars
<1>1. CASE UNCHANGED gatewayVars
  <2>1. /\ UNCHANGED <<resVars, lifeVars, connectionVars, transferVars>>
        /\ UNCHANGED <<fileVars, fwVars, rciVars>>
    BY <1>1 DEF gatewayVars
  <2> QED
    BY <2>1
<1>2. CASE GatewayNext
  BY <1>2, Zenon DEF GatewayNext
<1> QED
  BY <1>1, <1>2, Zenon

LEMMA GatewayStep == GatewayInv /\ [GatewayNext]_gatewayVars => GatewayInv'
<1> SUFFICES ASSUME GatewayInv, [GatewayNext]_gatewayVars
             PROVE  GatewayInv'
  OBVIOUS
<1>1. /\ [ResNext]_resVars /\ [LifeNext]_lifeVars
      /\ [ConnectionNext]_connectionVars /\ [TransferNext]_transferVars
      /\ [FileNext]_fileVars /\ [FirmwareNext]_fwVars /\ [RciNext]_rciVars
  BY PartSteps, Zenon
<1>2. ResInv' /\ LifeInv'
  BY <1>1, ResStep, LifeInductive, Zenon DEF GatewayInv
<1>3. ConnInv' /\ MissInv'
  BY <1>1, ConnStep, Zenon DEF GatewayInv
<1>4. TransferInv' /\ SessionInv'
  BY <1>1, TransferStep, SessionStep, Zenon DEF GatewayInv
<1>5. FwInv' /\ ConfigInv' /\ AnswerInv'
  BY <1>1, Inductive, ConfigSteps, AnswerSteps, Zenon DEF GatewayInv
<1> QED
  BY <1>2, <1>3, <1>4, <1>5, Zenon DEF GatewayInv

(* Whatever part of the gateway is at work, the variables of all of them   *)
(* keep their types: no length, offset, count, block or index of a table   *)
(* leaves the bounds of what it indexes, for every value of the constants. *)
THEOREM GatewayTypesCorrect == GatewaySpec => []GatewayTypeOK
<1>1. GatewayInv => GatewayTypeOK
  <2> SUFFICES ASSUME GatewayInv PROVE GatewayTypeOK
    OBVIOUS
  <2>1. ResTypeOK /\ LifeTypeOK
    BY Zenon DEF GatewayInv, ResInv, LifeInv
  <2>2. ConnectionTypeOK /\ TransferTypeOK
    BY Zenon DEF GatewayInv, ConnInv, TransferInv
  <2>3. FileTypeOK /\ FirmwareTypeOK
    BY Zenon DEF GatewayInv, SessionInv, FwInv
  <2>4. RciTypeOK
    BY ConfigTypesHold, Zenon DEF GatewayInv
  <2> QED
    BY <2>1, <2>2, <2>3, <2>4, Zenon DEF GatewayTypeOK
<1> QED
  BY <1>1, GatewayBegins, GatewayStep, PTL DEF GatewaySpec

(* What is safe of each part is so of all of them: what the run of         *)
(* MCGateway checks of a small instance.                                   *)
THEOREM GatewayIsSafe ==
    GatewaySpec => [](/\ FileSafe /\ StopSafe /\ HandshakeTrue
                      /\ BufferHasOneOwner /\ TransferSafe /\ SessionSafe
                      /\ DownloadSafe /\ Bracketed /\ Answered)
<1>1. GatewayInv => FileSafe /\ StopSafe
  BY FileSafeNow, LifeInvStopSafe, Zenon DEF GatewayInv
<1>2. GatewayInv => HandshakeTrue /\ BufferHasOneOwner
  BY HandshakeIsTrue, Zenon DEF GatewayInv, ConnInv, BufferInv
<1>3. GatewayInv => TransferSafe /\ SessionSafe
  BY TransferSafeNow, SessionNow, Zenon DEF GatewayInv
<1>4. GatewayInv => DownloadSafe /\ Bracketed /\ Answered
  BY InductiveIsSafe, ConfigBrackets, AnswersAreTold, Zenon DEF GatewayInv
<1> QED
  BY <1>1, <1>2, <1>3, <1>4, GatewayBegins, GatewayStep, PTL DEF GatewaySpec

(* And a put takes the status of its own data, whatever else is at work.   *)
THEOREM GatewayStatusIsItsOwn == GatewaySpec => OwnStatus
<1>1. GatewayInv => [\A s \in Senders :
          GetStatus(s) /\ ~reinit /\ ~timedOut => pipe = <<s>>]_resVars
  BY StatusNow DEF GatewayInv
<1> QED
  BY <1>1, GatewayBegins, GatewayStep, PTL DEF GatewaySpec, OwnStatus
=============================================================================
