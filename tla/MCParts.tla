------------------------------- MODULE MCParts --------------------------------
(***************************************************************************)
(* Small instances for TLC of seven parts that share no state: the         *)
(* recovery store of the kernel and six scripts around the client.  A      *)
(* behaviour is one of one of them, chosen at the beginning, and the       *)
(* others stay where they would begin.                                     *)
(***************************************************************************)
EXTENDS RecoveryStore, CoherenceRecovery, DiffHunks, AgentAudit, VerificationRecord,
        VerifyLadder, AgentCommand

VARIABLE part \* the part whose behaviour this is

OneText == [line |-> CHOOSE l \in Line : TRUE, rest |-> CHOOSE r \in Rest : TRUE]

NoStore == onDisk = [f \in Managed |-> Missing] /\ StoreInit

NoRecovery ==
    /\ disk = [p \in Path |-> OneText]
    /\ tracked = disk /\ step = "hash"
    /\ RecoveryInit

NoDiff ==
    /\ page = [limit |-> DefaultHunks, offset |-> 0, rows |-> DefaultRows, includeLines |-> FALSE]
    /\ DiffInit

NoAudit == tree = Nothing /\ AuditInit

NoRecord == clock = 0 /\ RecordInit

NoLadder == plan = [script |-> "integration", options |-> {}] /\ LadderInit

NoCommand == flags = {} /\ CommandInit

PartsInit ==
    \/ part = "store"
       /\ StoreInit /\ NoRecovery /\ NoDiff /\ NoAudit /\ NoRecord /\ NoLadder /\ NoCommand
    \/ part = "recovery"
       /\ NoStore /\ RecoveryInit /\ NoDiff /\ NoAudit /\ NoRecord /\ NoLadder /\ NoCommand
    \/ part = "diff"
       /\ NoStore /\ NoRecovery /\ DiffInit /\ NoAudit /\ NoRecord /\ NoLadder /\ NoCommand
    \/ part = "audit"
       /\ NoStore /\ NoRecovery /\ NoDiff /\ AuditInit /\ NoRecord /\ NoLadder /\ NoCommand
    \/ part = "record"
       /\ NoStore /\ NoRecovery /\ NoDiff /\ NoAudit /\ RecordInit /\ NoLadder /\ NoCommand
    \/ part = "ladder"
       /\ NoStore /\ NoRecovery /\ NoDiff /\ NoAudit /\ NoRecord /\ LadderInit /\ NoCommand
    \/ part = "command"
       /\ NoStore /\ NoRecovery /\ NoDiff /\ NoAudit /\ NoRecord /\ NoLadder /\ CommandInit

PartsNext ==
    /\ UNCHANGED part
    /\ \/ /\ part = "store" /\ StoreNext
          /\ UNCHANGED <<recoveryVars, diffVars, auditVars, recordVars, ladderVars, commandVars>>
       \/ /\ part = "recovery" /\ RecoveryNext
          /\ UNCHANGED <<storeVars, diffVars, auditVars, recordVars, ladderVars, commandVars>>
       \/ /\ part = "diff" /\ DiffNext
          /\ UNCHANGED <<storeVars, recoveryVars, auditVars, recordVars, ladderVars, commandVars>>
       \/ /\ part = "audit" /\ AuditNext
          /\ UNCHANGED <<storeVars, recoveryVars, diffVars, recordVars, ladderVars, commandVars>>
       \/ /\ part = "record" /\ RecordNext
          /\ UNCHANGED <<storeVars, recoveryVars, diffVars, auditVars, ladderVars, commandVars>>
       \/ /\ part = "ladder" /\ LadderNext
          /\ UNCHANGED <<storeVars, recoveryVars, diffVars, auditVars, recordVars, commandVars>>
       \/ /\ part = "command" /\ CommandNext
          /\ UNCHANGED <<storeVars, recoveryVars, diffVars, auditVars, recordVars, ladderVars>>

PartsSpec ==
    PartsInit /\ [][PartsNext]_<<part, storeVars, recoveryVars, diffVars, auditVars,
                                 recordVars, ladderVars, commandVars>>
=============================================================================
