------------------------------ MODULE AuditLog ------------------------------
(***************************************************************************)
(* The audit log of crates/managed-api: events of many tenants appended in *)
(* any order, read page by page in the order of time.  The cursor of a     *)
(* page is an offset into the filtered and sorted result, which later      *)
(* events may change before the next page is asked for.                    *)
(***************************************************************************)
EXTENDS Naturals, FiniteSets

CONSTANTS
  Event,        \* records [id, tenant, kind, at]; the kind is all that the
                \* filters on action, outcome and target compare
  DefaultSize,  \* DEFAULT_PAGE_SIZE
  MaxSize       \* MAX_PAGE_SIZE

VARIABLE log    \* InMemoryAuditStore::events

\* InMemoryAuditStore::append: idempotent on the event id.
Known(e) == \E f \in log : f.id = e.id
Appended(e) == IF Known(e) THEN log ELSE log \union {e}

-----------------------------------------------------------------------------
\* Mutants: the newest event first; the cursor points one past the page's end.
NewestFirst(e, f) == e.at > f.at \/ (e.at = f.at /\ e.id > f.id)
SkipsOne(end, total) == IF end < total THEN end + 1 ELSE 0

\* Oldest first by occurred_at then event_id.
Before(e, f) == e.at < f.at \/ (e.at = f.at /\ e.id < f.id)

\* The filters of InMemoryAuditStore::query.
Matching(q) ==
  {e \in log : /\ e.tenant = q.tenant
               /\ e.kind \in q.kinds
               /\ q.since <= e.at /\ e.at <= q.until}

Position(e, found) == Cardinality({f \in found : Before(f, e)})

\* The page size handle_audit_query gives to the store.
Clamped(size) == IF size = 0 THEN DefaultSize
                 ELSE IF size > MaxSize THEN MaxSize ELSE size

\* The number of events before the next page, 0 when there is none.
NextCursor(end, total) == IF end < total THEN end ELSE 0

\* InMemoryAuditStore::query.  A cursor beyond the result yields an empty page.
Page(q, cursor) ==
  LET found == Matching(q)
      total == Cardinality(found)
      start == IF cursor <= total THEN cursor ELSE total
      end   == IF start + q.size <= total THEN start + q.size ELSE total
  IN  [events |-> {e \in found : start <= Position(e, found)
                                 /\ Position(e, found) < end},
       next   |-> NextCursor(end, total)]
=============================================================================
