---------------------------- MODULE AuditLedger ----------------------------
(***************************************************************************)
(* contracts/AuditLedger.sol: an event log and nothing else.  Anybody may  *)
(* emit either event with any arguments.  The log is kept as a set; what a *)
(* stage event carries besides its request, asset and stage is left out.   *)
(***************************************************************************)
EXTENDS Naturals

CONSTANTS
  StageRecords,    \* the recordAudit arguments outside callers pass
  ForeignRecords   \* the recordSettlement arguments outside callers pass

VARIABLES
  auditLog,   \* SettlementAuditRecorded events
  stageLog,   \* AuditRecorded events
  timestamp   \* block.timestamp, read only here

Init == auditLog = {} /\ stageLog = {}

recordAudit(stageRecord) ==
  /\ stageLog' = stageLog \cup {stageRecord}
  /\ UNCHANGED auditLog

recordSettlement(record) ==
  /\ auditLog' = auditLog \cup {[record |-> record, timestamp |-> timestamp]}
  /\ UNCHANGED stageLog

AuditCall ==
  \/ \E e \in StageRecords : recordAudit(e)
  \/ \E e \in ForeignRecords : recordSettlement(e)
=============================================================================
