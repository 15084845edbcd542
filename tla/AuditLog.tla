------------------------------- MODULE AuditLog -------------------------------
(***************************************************************************)
(* The hash chain of the audit_events table, which core/audit.py and       *)
(* gateway/audit_pg.py both build and verify.  A row is a record with the  *)
(* time it was stamped with (created_at) and the hash it was chained to;   *)
(* no two rows carry one time, so the time also stands for the row's own   *)
(* hash and prev is a time, or Genesis.                                    *)
(***************************************************************************)
EXTENDS Naturals, FiniteSets

Genesis == 0

Rows(times) == [at : times, prev : {Genesis} \cup times]

\* order_by(desc(created_at)).limit(1): what the next event is chained to.
Newest(rows) == IF rows = {} THEN Genesis
                ELSE CHOOSE t \in {e.at : e \in rows} : \A e \in rows : t >= e.at

\* verify_chain: in order of created_at each row names its predecessor.
Unbroken(rows) ==
  \A e \in rows : e.prev = Newest({d \in rows : d.at < e.at})
=============================================================================
