--------------------------- MODULE MCCaptureSetup ---------------------------
(***************************************************************************)
(* A small kernel for CaptureSetup: types, memories, functions and BPF     *)
(* programs, and the captures asked of it.                                 *)
(***************************************************************************)
EXTENDS CaptureFilters

\* Types.  A byte has two bits, a pointer eight bytes.

Scalar(encoding, size, constants) ==
  [kind |-> "scalar", encoding |-> encoding, size |-> size, constants |-> constants]
Member(name, offset, bits, type) == [name |-> name, offset |-> offset, bits |-> bits, type |-> type]

Types ==
  [sk_buff |-> [kind |-> "struct", members |->
     <<Member("dev", 0, 0, "device_ptr"), Member(None, 16, 0, "header"), Member("protocol", 26, 0, "be16")>>],
   header |-> [kind |-> "struct", members |->
     <<Member("len", 0, 0, "u16"), Member("cloned", 5, 1, "u8"), Member(None, 6, 0, "inner")>>],
   inner |-> [kind |-> "struct", members |->
     <<Member("iif", 0, 0, "int"), Member("delta", 3, 2, "int"), Member("type", 6, 0, "kind")>>],
   net_device |-> [kind |-> "struct", members |->
     <<Member("name", 0, 0, "array"), Member("ifindex", 2, 0, "u8"), Member("stats", 4, 0, "stats")>>],
   stats |-> [kind |-> "struct", members |-> <<Member("rx", 0, 0, "u8"), Member("up", 2, 0, "bool")>>],
   xdp_buff |-> [kind |-> "struct", members |-> <<Member("frame_sz", 0, 0, "u8")>>],
   device_ptr |-> [kind |-> "ptr", to |-> "device"],
   device |-> [kind |-> "typedef", of |-> "net_device", be |-> FALSE],
   array |-> [kind |-> "other"],
   u8 |-> Scalar("Unsigned", 1, <<>>),
   u16 |-> Scalar("Unsigned", 2, <<>>),
   int |-> Scalar("Signed", 1, <<>>),
   bool |-> Scalar("Boolean", 1, <<>>),
   kind |-> Scalar("Unsigned", 1, <<"KIND_A", "KIND_B">>),
   be16 |-> [kind |-> "typedef", of |-> "u16", be |-> TRUE]]

Objects == [sk_buff |-> 16, xdp_buff |-> 60]

\* The packet's bytes 16..23 are its device pointer, which leads to the device,
\* nowhere, or is null; a word of readable memory follows the packet's fields.
Memory(seed, device) ==
  [a \in (16..37) \cup (40..43) \cup (60..61) |->
     IF a \in 16..23 THEN (device \div 4^(a - 16)) % 4 ELSE (a * a + seed * (a + 1)) % 4]

Images == {Memory(seed, device) : seed \in 0..3, device \in {0, 40, 99}}

-----------------------------------------------------------------------------
\* Comparisons.

Is(path, comparison, value) ==
  [path |-> path, comparison |-> comparison, literal |-> [symbol |-> None, value |-> value]]
IsNamed(path, symbol) ==
  [path |-> path, comparison |-> "Equal", literal |-> [symbol |-> symbol, value |-> 0]]

Clauses ==
  [rx |-> Is(<<"dev", "stats", "rx">>, "Less", 2),
   ifindex |-> Is(<<"dev", "ifindex">>, "GreaterOrEqual", 1),
   length |-> Is(<<"len">>, "Greater", 6),
   cloned |-> Is(<<"cloned">>, "Equal", 1),
   proto |-> Is(<<"protocol">>, "NotEqual", 9),
   up |-> IsNamed(<<"dev", "stats", "up">>, "true"),
   type |-> IsNamed(<<"type">>, "KIND_B"),
   frame |-> Is(<<"frame_sz">>, "LessOrEqual", 2),
   wide |-> Is(<<"len">>, "Equal", 300),
   array |-> Is(<<"dev", "name">>, "Equal", 0),
   minus |-> Is(<<"len">>, "Equal", -1),
   iif |-> Is(<<"iif">>, "Equal", -1)]

\* Every expression of up to five tokens, and longer ones at the bounds; the
\* clauses of a shape are three comparisons in turn.
Shapes ==
  UNION {[1..n -> {"c", "&&", "||", "(", ")"}] : n \in 1..5}
  \cup {<<"(", "c", "||", "c", ")", "&&", "c">>, <<"c", "&&", "(", "c", "||", "c", ")">>,
        <<"c", "||", "c", "&&", "c", "||", "c">>, <<"c", "&&", "c", "&&", "c", "&&", "c">>,
        <<"c", "&&", "c", "||", "c", "&&", "c">>, <<"c", "||", "(", "c", "||", "c", ")">>,
        <<"(", "c", "||", "c", ")", "&&", "(", "c", ")">>,
        <<"(", "c", "||", "c", ")", "&&", "(", "c", "||", "c", ")">>,
        <<"c", "||", "c", "||", "c", "||", "c", "||", "c">>}

Spell(shape) ==
  [i \in DOMAIN shape |->
     IF shape[i] # "c" THEN shape[i]
     ELSE <<"rx", "cloned", "proto", "length">>[1 + (Cardinality({j \in 1..(i - 1) : shape[j] = "c"}) % 4)]]

Sources == {Spell(shape) : shape \in Shapes} \cup {<<t>> : t \in DOMAIN Clauses}

-----------------------------------------------------------------------------
\* Functions and BPF programs.

Fn(name, module, parameters) == [name |-> name, module |-> module, parameters |-> parameters]

KernelFunctions ==
  {Fn("rcv", Absent, <<"skb">>), Fn("rcv", "mod", <<"other", "skb">>),
   Fn("xmit", "mod", <<"other", "skb", "skb">>), Fn("map_lookup_elem", Absent, <<"other">>),
   Fn("late", Absent, <<"other", "other", "other", "other", "other", "skb">>)}

Names == {"rcv", "xmit", "map_lookup_elem", "late", "gone"}
Roles == [n \in Names |-> IF n = "map_lookup_elem" THEN "lookup" ELSE "none"]

Programs == [t1 |-> "tc", x1 |-> "xdp", x2 |-> "xdp"]

-----------------------------------------------------------------------------
\* Captures.

NoFilter ==
  [conditions |-> <<>>, xdp_conditions |-> <<>>, pcap |-> {}, tunnel |-> {},
   mark |-> None, ifindex |-> None, netns |-> None]

NoQuery ==
  [exact |-> {}, pattern |-> Absent, non_skb |-> {}, helpers |-> {}, modules |-> {},
   all_modules |-> FALSE]

Plain == [backend |-> "kprobe", track_skb |-> FALSE, by_stackid |-> FALSE, tc |-> FALSE,
          xdp |-> FALSE, replaced |-> {}, ready |-> FALSE]

Nothing == [NoQuery EXCEPT !.exact = {"gone"}]

\* Every expression, on a capture that then finds nothing to attach to.
FilterRequests ==
  {[filter |-> [NoFilter EXCEPT !.conditions = s], query |-> Nothing, options |-> Plain] : s \in Sources}
  \cup {[filter |-> [NoFilter EXCEPT !.xdp_conditions = <<t>>], query |-> Nothing, options |-> Plain]
          : t \in {"frame", "rx"}}
  \cup {[filter |-> [NoFilter EXCEPT !.pcap = p, !.tunnel = t, !.ifindex = i, !.netns = n],
         query |-> Nothing, options |-> Plain]
          : p \in {{}, {"l2", "l3"}}, t \in {{}, {"l3"}}, i \in {None, 1}, n \in {None, 1}}

Packets ==
  [root : {0, 16}, head : BOOLEAN, mac_len : BOOLEAN, accepts : SUBSET {"l2", "l3"},
   inner : {FALSE}, inner_accepts : {{}}, mark : {1}, device : BOOLEAN,
   ifindex : {1, 2, None}, netns : {1, 2, None}]

\* Every way of asking for functions.
QueryRequests ==
  {[filter |-> NoFilter, options |-> Plain,
    query |-> [exact |-> e, pattern |-> p, non_skb |-> n, helpers |-> h, modules |-> m,
               all_modules |-> a]]
     : e \in SUBSET {"rcv", "late"}, p \in {Absent, {"xmit", "rcv"}},
       n \in SUBSET {"rcv", "late", "gone"}, h \in SUBSET {"xmit", "map_lookup_elem"},
       m \in {{}, {"mod"}, {"nomod"}}, a \in BOOLEAN}

\* Every way of attaching two probes and a map helper, with BPF programs or not.
AttachRequests ==
  {[filter |-> [NoFilter EXCEPT !.mark = 1], options |-> o,
    query |-> [NoQuery EXCEPT !.exact = {"rcv"}, !.all_modules = TRUE, !.helpers = {"map_lookup_elem"}]]
     : o \in [backend : {"auto", "kprobe-multi"}, track_skb : BOOLEAN, by_stackid : BOOLEAN,
              tc : {FALSE}, xdp : {FALSE},
              replaced : {{}, {"skb_pp_cow_data", "veth_convert_skb_to_xdp_buff"}}, ready : BOOLEAN]}
  \cup
  {[filter |-> NoFilter, query |-> NoQuery, options |-> o]
     : o \in [backend : {"auto", "kprobe"}, track_skb : {FALSE}, by_stackid : BOOLEAN,
              tc : BOOLEAN, xdp : BOOLEAN, replaced : {{}}, ready : {FALSE}]}

Requests == FilterRequests \cup QueryRequests \cup AttachRequests
=============================================================================
