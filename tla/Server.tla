--------------------------------- MODULE Server ---------------------------------
(***************************************************************************)
(* The parts of the server that share no state with each other: which part *)
(* moves is chosen at the start, the others stand still.  The bucket is     *)
(* kept in memory, one for each of the limits, that know nothing of each    *)
(* other.                                                                   *)
(***************************************************************************)
EXTENDS PatchPipelineProps, AuditTrailProps, SourceKeysProps, AccessProps, LogScanProps,
        IncidentStatusProps, ChannelSettingsProps, TokenBucket

VARIABLE part

Parts == {"pipeline", "audit", "sources", "access", "scan", "status", "edits", "imports",
          "limits"}

Still(vs) == UNCHANGED <<part, vs>>

ServerInit ==
    /\ part \in Parts
    /\ IF part = "pipeline" THEN PipelineInit ELSE PipelineAt("off")
    /\ AuditInit /\ SourceInit /\ AccessInit /\ ScanInit /\ StatusInit /\ ChannelInit
    /\ BucketInit

Pipeline == part = "pipeline" /\ PipelineNext /\
    Still(<<auditVars, sourceVars, accessVars, scanVars, statusVars, channelVars, bucketVars>>)
PipelineMoves == part = "pipeline" /\ PipelineStep /\
    Still(<<auditVars, sourceVars, accessVars, scanVars, statusVars, channelVars, bucketVars>>)
Audit == part = "audit" /\ AuditNext /\
    Still(<<pipelineVars, sourceVars, accessVars, scanVars, statusVars, channelVars, bucketVars>>)
Sources == part = "sources" /\ SourceNext /\
    Still(<<pipelineVars, auditVars, accessVars, scanVars, statusVars, channelVars, bucketVars>>)
Accesses == part = "access" /\ AccessNext /\
    Still(<<pipelineVars, auditVars, sourceVars, scanVars, statusVars, channelVars, bucketVars>>)
Scans == part = "scan" /\ ScanNext /\
    Still(<<pipelineVars, auditVars, sourceVars, accessVars, statusVars, channelVars, bucketVars>>)
Statuses == part = "status" /\ StatusNext /\
    Still(<<pipelineVars, auditVars, sourceVars, accessVars, scanVars, channelVars, bucketVars>>)
Edits == part = "edits" /\ (ChannelTable \/ ChannelEdits) /\
    Still(<<pipelineVars, auditVars, sourceVars, accessVars, scanVars, statusVars, bucketVars>>)
Imports == part = "imports" /\ (ChannelTable \/ ChannelImports) /\
    Still(<<pipelineVars, auditVars, sourceVars, accessVars, scanVars, statusVars, bucketVars>>)
Limits == part = "limits" /\ BucketNext /\
    Still(<<pipelineVars, auditVars, sourceVars, accessVars, scanVars, statusVars, channelVars>>)

ServerNext ==
    \/ Pipeline \/ Audit \/ Sources \/ Accesses \/ Scans \/ Statuses \/ Edits \/ Imports
    \/ Limits

serverVars ==
    <<part, pipelineVars, auditVars, sourceVars, accessVars, scanVars, statusVars, channelVars,
      bucketVars>>

ServerSpec == ServerInit /\ [][ServerNext]_serverVars /\ WF_serverVars(PipelineMoves)

(* The state of every part has its type. *)
ServerTypeOK ==
    /\ part \in Parts
    /\ part = "pipeline" => PipelineTypeOK
    /\ AuditTypeOK /\ SourceTypeOK /\ AccessTypeOK
    /\ ScanTypeOK /\ StatusTypeOK /\ ChannelTypeOK /\ BucketTypeOK
=============================================================================
