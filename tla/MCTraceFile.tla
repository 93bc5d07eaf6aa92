---------------------------- MODULE MCTraceFile ----------------------------
(***************************************************************************)
(* Families of files for TLC: files of one packet in which anything may be *)
(* wrong, and faultless files of two packets, or of three in a map of two, *)
(* some of which go by their address.                                      *)
(***************************************************************************)
EXTENDS TraceFile

CONSTANTS v1, v2, c1, c2, p1, p2, p3, fn1, fn2

Files ==
  {[schema |-> {v1, v2}, capture_id |-> {c1, c2}, route_cache_entries |-> {2},
    first_seq |-> {0, 2}, skb |-> {p1}, address |-> {p1}, function |-> {fn1}, faulty |-> TRUE],
   [schema |-> {v1}, capture_id |-> {c1}, route_cache_entries |-> {0, 9},
    first_seq |-> {}, skb |-> {p1, p2}, address |-> {p1, p2}, function |-> {fn1, fn2},
    faulty |-> FALSE],
   [schema |-> {v1}, capture_id |-> {c1}, route_cache_entries |-> {2},
    first_seq |-> {}, skb |-> {p1, p2, None}, address |-> {p1, p3}, function |-> {fn1},
    faulty |-> FALSE]}
=============================================================================
