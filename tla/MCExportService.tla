--------------------------- MODULE MCExportService --------------------------
(* The export service with a topic of three records, for TLC. *)
EXTENDS ExportService

Asks(kind) == [kind |-> kind, reply |-> TRUE]
Tells(kind) == [kind |-> kind, reply |-> FALSE]

\* A slow record below one that is skipped, or three that run together.
MCTopics == {
  <<Asks("export"), Tells("skipped"), Tells("forbidden")>>,
  <<Tells("forbidden"), Asks("unrouted"), Tells("unrouted")>>}
=============================================================================
