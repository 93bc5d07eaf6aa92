--------------------------- MODULE CaptureFilters ---------------------------
(***************************************************************************)
(* The filters of a capture as its set-up compiles them (ScalarFilter),    *)
(* and what they mean to the kernel program.                               *)
(***************************************************************************)
EXTENDS ScalarFilter, CaptureSetup

CONSTANTS
  Image,         \* kernel memories a filter may be evaluated in
  Object,        \* address of the object of type "sk_buff" and of "xdp_buff"
  Packet         \* packets as the filters see them

compile_filters(asked) ==
  [asked EXCEPT
     !.conditions = IF @ = <<>> THEN <<>> ELSE resolve_scalar_filter("sk_buff", @),
     !.xdp_conditions = IF @ = <<>> THEN <<>> ELSE resolve_scalar_filter("xdp_buff", @)]

\* An expression cannot be compiled, or there is no filter to track packets by.
filters_refused(opts, compiled) ==
  \/ compiled.conditions = None \/ compiled.xdp_conditions = None
  \/ opts.track_skb /\ ~Configured(compiled) /\ compiled.xdp_conditions = <<>>

-----------------------------------------------------------------------------
Tokens(source) == {source[i] : i \in DOMAIN source} \cap DOMAIN Clause

CompiledMeansExpression(rootType, source, conditions) ==
  IF conditions = None
    THEN ~Legal(source) \/ \E t \in Tokens(source) : Condition(rootType, <<t>>, 0) = None
    ELSE /\ Legal(source)
         /\ (\A t \in Tokens(source) : Faithful(rootType, Clause[t])) =>
              \A memory \in Image :
                scalar_filter_match(memory, Object[rootType], conditions)
                  = Meaning(TreeOf(source), memory, Object[rootType], rootType)

ExpressionsMeanThemselves(asked) ==
  /\ asked.conditions # <<>> =>
       CompiledMeansExpression("sk_buff", asked.conditions, filters.conditions)
  /\ asked.xdp_conditions # <<>> =>
       CompiledMeansExpression("xdp_buff", asked.xdp_conditions, filters.xdp_conditions)

HooksAgree ==
  setup = "plan" /\ filters.mark = None /\ filters.tunnel = {}
    /\ filters.conditions = <<>> /\ filters.xdp_conditions = <<>> =>
    \A packet \in Packet, memory \in Image :
      packet.device /\ packet.mac_len /\ packet.root # 0 =>
        configured_filter_match(filters, memory, packet)
          = configured_xdp_filter_match(filters, memory, packet)

\* An expression is compiled to what it means: in every memory, readable or not,
\* the kernel's verdict is the three-valued value of the expression as it is
\* written, and only an expression out of bounds, or with a clause that cannot
\* be compiled, is refused.  Comparisons that are not Faithful are left out.
\* And a frame at XDP gets the verdict of the packet built from it from the
\* filters that both hooks have, which they apply in different ways.
FiltersMeanWhatIsAsked ==
  filters # Absent => ExpressionsMeanThemselves(request.filter) /\ HooksAgree
=============================================================================
