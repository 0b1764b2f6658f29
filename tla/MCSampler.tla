------------------------------ MODULE MCSampler ------------------------------
(* The sampler for TLC, as it may be started: whole TS for two unpackers,   *)
(* for one and a client that wants the first index, blocks with room for    *)
(* one TS in the buffer, system IDs with room for two, of which one has no  *)
(* components and one is unknown.                                           *)
EXTENDS TsSamplerClients, TLC

CONSTANTS c1, c2, p1, p2, p3, full

Start(mode, data, room, max, indices, fails, first, second) ==
  [SplitMode |-> mode, PartsInData |-> data, fulHighWaterMark |-> room,
   fulMaxTimeslices |-> max, TsIndices |-> indices, SendMayFail |-> fails,
   Wanted |-> (c1 :> first) @@ (c2 :> second)]

MCSetups == {
  Start("no-split", {p1, p2}, 1, 4, {0, 2, 3, 5, 6}, TRUE, {full}, {full}),
  Start("no-split", {p1, p2}, 1, 4, {0, 2, 3, 5, 6}, TRUE, {full}, {FirstIndex}),
  Start("block", {p1, p2}, 1, 4, {2, 3, 5, 6}, TRUE, {p1}, {p2}),
  Start("block", {p1, p2}, 3, 5, {2, 3, 5, 6, 8}, FALSE, {p1}, {p2}),
  Start("block", {p1, p2}, 2, 5, {2, 3, 5, 6, 8}, FALSE, {p1}, {p2}),
  Start("block", {p1, p2}, 2, 4, {2, 3, 5, 6}, FALSE, {p1}, {p1}),
  Start("sysid", {p1}, 2, 5, {2, 3, 5, 6, 7, 9}, FALSE, {p1, p3}, {p2})}
=============================================================================
