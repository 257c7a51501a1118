---------------------------- MODULE SupportServices ----------------------------
(***************************************************************************)
(* Seventeen components that share no state, side by side: the initial     *)
(* state chooses one of them and only that one moves, so that the states   *)
(* of the whole are those of its parts added up, not multiplied.           *)
(***************************************************************************)
EXTENDS SupportGraph, NodeResilience, SocketClient, HumanCustody, ExecutionPipeline,
        StepUp, BrowserRequests, RateLimits, ServiceLevel, StateChannels,
        EventSourceClient, SharedLock, ConversationStream, DigitalTwin, Releases,
        EvaluationGate, KnowledgeVersions

VARIABLE part   \* the component this behaviour is about

partVars ==
  <<part, supportVars, nodeVars, custodyVars, pipelineVars, channelVars, socketVars, lineVars,
    stepUpVars, requestVars, rateVars, slaVars, lockVars, conversationVars, twinVars,
    releaseVars, gateVars, knowledgeVars>>

Init ==
  /\ part \in {"graph", "node", "custody", "pipeline", "channels", "socket", "event source",
               "step up", "requests", "rates", "sla", "lock", "conversation", "twin",
               "releases", "gate", "knowledge"}
  /\ SupportInit /\ NodeInit /\ CustodyInit /\ PipelineInit /\ ChannelInit
  /\ SocketInit /\ LineInit /\ StepUpInit /\ RequestsInit /\ RatesInit /\ LockInit
  /\ ConversationInit /\ TwinInit /\ ReleaseInit /\ GateInit /\ KnowledgeInit
  /\ IF part = "sla" THEN SlaInit
     ELSE opened = 0 /\ minutes = 0 /\ calendar = "business" /\ cursor = 0 /\ remaining = 0

\* The part this behaviour is about takes its steps, the others stay as they are.
Next ==
  /\ UNCHANGED part
  /\ IF part = "graph"        THEN SupportNext      ELSE UNCHANGED supportVars
  /\ IF part = "node"         THEN NodeNext         ELSE UNCHANGED nodeVars
  /\ IF part = "custody"      THEN CustodyNext      ELSE UNCHANGED custodyVars
  /\ IF part = "pipeline"     THEN PipelineNext     ELSE UNCHANGED pipelineVars
  /\ IF part = "channels"     THEN ChannelNext      ELSE UNCHANGED channelVars
  /\ IF part = "socket"       THEN SocketNext       ELSE UNCHANGED socketVars
  /\ IF part = "event source" THEN LineNext         ELSE UNCHANGED lineVars
  /\ IF part = "step up"      THEN StepUpNext       ELSE UNCHANGED stepUpVars
  /\ IF part = "requests"     THEN RequestsNext     ELSE UNCHANGED requestVars
  /\ IF part = "rates"        THEN RatesNext        ELSE UNCHANGED rateVars
  /\ IF part = "sla"          THEN SlaNext          ELSE UNCHANGED slaVars
  /\ IF part = "lock"         THEN LockNext         ELSE UNCHANGED lockVars
  /\ IF part = "conversation" THEN ConversationNext ELSE UNCHANGED conversationVars
  /\ IF part = "twin"         THEN TwinNext         ELSE UNCHANGED twinVars
  /\ IF part = "releases"     THEN ReleaseNext      ELSE UNCHANGED releaseVars
  /\ IF part = "gate"         THEN GateNext         ELSE UNCHANGED gateVars
  /\ IF part = "knowledge"    THEN KnowledgeNext    ELSE UNCHANGED knowledgeVars

Spec == Init /\ [][Next]_partVars

\* The state of each component stays within its type.
PartsTypeOK ==
  /\ SupportTypeOK /\ NodeTypeOK /\ CustodyTypeOK /\ PipelineTypeOK /\ ChannelTypeOK
  /\ SocketTypeOK /\ LineTypeOK /\ StepUpTypeOK /\ RequestsTypeOK /\ RatesTypeOK
  /\ SlaTypeOK /\ LockTypeOK /\ ConversationTypeOK /\ TwinTypeOK /\ ReleaseTypeOK
  /\ GateTypeOK /\ KnowledgeTypeOK

\* A grant pays for one thing only: that of an approval for one change, that of a step-up
\* for one action, each where it was asked for.
GrantsPayOnce == EachChangeItsGrant /\ OneActionPerStepUp

\* A call of the page takes effect once and is answered in its turn.
CallsInTurn == OnceForEachCall /\ AnswersInOrder

\* What the stores keep of their past tells what happened: the conversation's cursors, the
\* twin's journal, the events of a deployment, the run a gate was opened for and the index
\* generations of the knowledge base.
HistoriesTell ==
  /\ ConversationTells /\ JournalExplainsTwin /\ EventsExplainDeployment
  /\ OpenedForItsRun /\ GenerationsTell
===============================================================================
