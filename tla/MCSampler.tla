----------------------------- MODULE MCSampler -----------------------------
(***************************************************************************)
(* TLC instance of Sampler and of the ring it pushes to.  The ring alone   *)
(* is followed at every capacity from the refused 0 up to 7, with enough   *)
(* samples to wrap the largest twice; each source is followed over a ring  *)
(* of two.  At three samples a second slabinfo is due every second tick,   *)
(* MTD and thermal every third, and the heartbeat is six ticks, so twelve  *)
(* samples hold two of them.  A counter starts at zero or just short of    *)
(* the wrap; the kernel's log holds two records and a tick takes two.      *)
(***************************************************************************)
EXTENDS Sampler

MCCapacities == 0 .. 7
MCValues == {"low", "high"}
MCCounts == {0, 1, 29, 31, 32, 63}

Agents(sources, capacities, floors, perfs, wides, samples) ==
  [source : sources, capacity : capacities, floorHz : floors, perf : perfs,
   wide : wides, samples : {samples}]

MCSetups ==
  Agents({None}, MCCapacities, {0}, {FALSE}, {FALSE}, 17)
    \cup Agents(Levels, {2}, {0, 2}, BOOLEAN, {FALSE}, 12)
    \cup Agents(Counters \ {"perf"}, {2}, {0}, {FALSE}, BOOLEAN, 4)
    \cup Agents({"perf"}, {2}, {0}, {TRUE}, BOOLEAN, 4)
    \cup Agents({"kmsg"}, {2}, {0}, {FALSE}, {FALSE}, 3)
=============================================================================
