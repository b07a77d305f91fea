----------------------------- MODULE MCPipeline -----------------------------
(* Small instances of Pipeline for TLC. *)
EXTENDS Pipeline

CONSTANTS s, e, m, x, h

\* One endpoint with a status and an event device, and an HTTP device.
StatusEventGroups == {{s, e}}

\* Two endpoints: status device s with a member x the writer has no sink for,
\* and a modbus device m, which is batched like an event device.
TwoEndpoints == {{s, x}, {m}}

-----------------------------------------------------------------------------
\* A row in the write queue is eventually given to EtherDB or dropped, and only a line
\* that is never quiet for the time of a dequeue keeps a partial batch in ParserWorker.
RowsSettle == QueuedRowsSettled /\ FlushedWhenQuiet

=============================================================================
