---------------------------- MODULE ScalarFilter ----------------------------
(***************************************************************************)
(* The packet filters of a capture.  A --filter-skb-expr is parsed,        *)
(* expanded into groups of comparisons and compiled against BTF; the       *)
(* kernel program evaluates it with the other filters on every packet.     *)
(*                                                                         *)
(* Abstracted: the spelling of an expression, which is a sequence of       *)
(* tokens; a clause token stands for a comparison [path, comparison,       *)
(* literal], and a literal is a number or a symbol.  What run_cbpf says of *)
(* a packet is the packet's `accepts`.                                     *)
(***************************************************************************)
EXTENDS MetadataPath, FiniteSets

CONSTANTS
  Clause,                     \* the comparisons, by token
  MAX_SKB_FILTER_CONDITIONS,
  MAX_SKB_FILTER_NESTING

ASSUME FilterAssumption ==
  MAX_SKB_FILTER_CONDITIONS \in Nat \ {0} /\ MAX_SKB_FILTER_NESTING \in Nat

Connectives == {"&&", "||", ")"}

-----------------------------------------------------------------------------
\* BooleanParser.  A parser state holds the tree parsed last.

TokenAt(source, s) == IF s.cursor <= Len(source) THEN source[s.cursor] ELSE "end"
Consume1(s) == [s EXCEPT !.cursor = @ + 1]
Failed(s) == [s EXCEPT !.ok = FALSE]

\* Mutant: && binds no tighter than ||.
BindsFlat(operator) == {"&&", "||"}
Binds(operator) == {operator}

\* The text up to the next connective is a clause.
TakeClause(source, s) ==
  LET end == Min({i \in s.cursor..Len(source) : source[i] \in Connectives} \cup {Len(source) + 1})
      text == SubSeq(source, s.cursor, end - 1)
  IN IF text = <<>> \/ s.clauses = MAX_SKB_FILTER_CONDITIONS THEN Failed(s)
     ELSE [s EXCEPT !.cursor = end, !.clauses = @ + 1, !.tree = [op |-> "clause", text |-> text]]

RECURSIVE parse_or(_, _), more_or(_, _), parse_and(_, _), more_and(_, _), parse_primary(_, _)

parse_primary(source, s) ==
  LET inner == parse_or(source, [Consume1(s) EXCEPT !.nesting = @ + 1])
  IN IF TokenAt(source, s) # "(" THEN TakeClause(source, s)
     ELSE IF s.nesting >= MAX_SKB_FILTER_NESTING THEN Failed(s)
     ELSE IF ~inner.ok \/ TokenAt(source, inner) # ")" THEN Failed(inner)
     ELSE [Consume1(inner) EXCEPT !.nesting = s.nesting]

more_and(source, left) ==
  LET right == parse_primary(source, Consume1(left))
  IN IF ~left.ok \/ TokenAt(source, left) \notin Binds("&&") THEN left
     ELSE more_and(source,
            [right EXCEPT !.tree = [op |-> TokenAt(source, left), left |-> left.tree, right |-> @]])

parse_and(source, s) == more_and(source, parse_primary(source, s))

more_or(source, left) ==
  LET right == parse_and(source, Consume1(left))
  IN IF ~left.ok \/ TokenAt(source, left) # "||" THEN left
     ELSE more_or(source,
            [right EXCEPT !.tree = [op |-> "||", left |-> left.tree, right |-> @]])

parse_or(source, s) == more_or(source, parse_and(source, s))

\* The expression's tree, or None.
parse(source) ==
  LET Whole(s) == IF s.ok /\ s.cursor = Len(source) + 1 THEN s.tree ELSE None
  IN Whole(parse_or(source,
       [cursor |-> 1, clauses |-> 0, nesting |-> 0, ok |-> TRUE, tree |-> None]))

-----------------------------------------------------------------------------
\* Groups, literals and conditions.

Conditions(groups) == FoldLeft(LAMBDA n, group : n + Len(group), 0, groups)

\* The groups of clauses, any of which may hold, or None when they are too many.
RECURSIVE bounded_dnf(_)
bounded_dnf(tree) ==
  LET Combined(left, right) ==
        IF tree.op = "||" THEN left \o right
        ELSE FlattenSeq([i \in DOMAIN left |-> [j \in DOMAIN right |-> left[i] \o right[j]]])
      Bounded(groups) == IF Conditions(groups) > MAX_SKB_FILTER_CONDITIONS THEN None ELSE groups
  IN IF tree.op = "clause" THEN << <<tree.text>> >>
     ELSE AndThen(bounded_dnf(tree.left), LAMBDA left :
            AndThen(bounded_dnf(tree.right), LAMBDA right : Bounded(Combined(left, right))))

FieldBits(p) == IF p.access.bitfield_size # 0 THEN p.access.bitfield_size ELSE p.size * ByteBits

\* to_be() on a little-endian host.
SwapBytes(value, size) ==
  MapThenSumSet(LAMBDA i : ((value \div 2^(ByteBits * i)) % 2^ByteBits)
                             * 2^(ByteBits * (size - 1 - i)), 0..(size - 1))

\* The u64 a literal is read as, or None.  A symbol is an enumerator, and stands
\* for its ordinal.
LiteralWord(literal, p) ==
  IF literal.symbol \in ToSet(p.constants)
    THEN (CHOOSE i \in DOMAIN p.constants : p.constants[i] = literal.symbol) - 1
  ELSE IF literal.symbol \in {"true", "false"} /\ p.encoding = "Boolean"
    THEN IF literal.symbol = "true" THEN 1 ELSE 0
  ELSE IF literal.symbol # None \/ literal.value >= 2^WordBits
          \/ literal.value < (IF p.encoding = "Signed" THEN -2^(WordBits - 1) ELSE 0) THEN None
  ELSE literal.value % 2^WordBits

parse_literal(literal, p) ==
  LET Stored(masked) == IF p.big_endian THEN SwapBytes(masked, p.size) ELSE masked
  IN AndThen(LiteralWord(literal, p), LAMBDA word : Stored(word % 2^FieldBits(p)))

\* One clause of group g compiled against the root type, or None.
Condition(root, text, g) ==
  LET Compile(clause, p) ==
        AndThen(parse_literal(clause.literal, p), LAMBDA word :
          [access |-> p.access, comparison |-> clause.comparison, value |-> word,
           signed |-> p.encoding = "Signed", group |-> g])
  IN IF Len(text) # 1 \/ text[1] \notin DOMAIN Clause THEN None
     ELSE AndThen(resolve_one(root, Clause[text[1]].path),
                  LAMBDA p : Compile(Clause[text[1]], p))

\* The compiled conditions, or None when the expression is refused.
resolve_scalar_filter(root, source) ==
  LET Compile(groups) ==
        FlattenSeq([g \in DOMAIN groups |->
          [i \in DOMAIN groups[g] |-> Condition(root, groups[g][i], g - 1)]])
      Complete(conditions) == IF None \in ToSet(conditions) THEN None ELSE conditions
  IN AndThen(AndThen(parse(source), bounded_dnf), LAMBDA groups : Complete(Compile(groups)))

-----------------------------------------------------------------------------
\* The kernel's verdict: 1 match, 0 no match, -1 unreadable.

AsSigned(value, bits) == IF value >= 2^(bits - 1) THEN value - 2^bits ELSE value

signed_scalar(value, size) == AsSigned(value, size * ByteBits)

Compare(comparison, left, right) ==
  CASE comparison = "Equal" -> left = right
    [] comparison = "NotEqual" -> left # right
    [] comparison = "Less" -> left < right
    [] comparison = "LessOrEqual" -> left <= right
    [] comparison = "Greater" -> left > right
    [] comparison = "GreaterOrEqual" -> left >= right

\* The right-hand side of a signed comparison is the u64 read as a s64.
ConditionHolds(c, observed) ==
  IF c.signed
    THEN Compare(c.comparison, signed_scalar(observed, c.access.size), AsSigned(c.value, WordBits))
    ELSE Compare(c.comparison, observed, c.value)

\* One condition.  acc.match is the verdict of the group under way.
MatchStep(memory, root, acc, c) ==
  LET turn == c.group # acc.group
      now == IF turn THEN [acc EXCEPT !.group = c.group, !.match = 1,
                                      !.unknown = @ \/ acc.match = -1]
             ELSE acc
      observed == read_scalar_access(memory, root, c.access)
  IN IF acc.verdict # None THEN acc
     ELSE IF c.group >= MAX_SKB_FILTER_CONDITIONS \/ (turn /\ c.group # acc.group + 1)
       THEN [acc EXCEPT !.verdict = -1]
     ELSE IF turn /\ acc.match = 1 THEN [acc EXCEPT !.verdict = 1]
     ELSE IF now.match = 0 THEN now
     ELSE IF observed = None THEN [now EXCEPT !.match = -1]
     ELSE IF ConditionHolds(c, observed) THEN now
     ELSE [now EXCEPT !.match = 0]

scalar_filter_match(memory, root, conditions) ==
  LET Step(acc, c) == MatchStep(memory, root, acc, c)
      last == FoldLeft(Step, [group |-> 0, match |-> 1, unknown |-> FALSE, verdict |-> None],
                       conditions)
  IN IF Len(conditions) > MAX_SKB_FILTER_CONDITIONS THEN -1
     ELSE IF last.verdict # None THEN last.verdict
     ELSE IF last.match = 1 THEN 1
     ELSE IF last.unknown \/ last.match = -1 THEN -1 ELSE 0

-----------------------------------------------------------------------------
\* All filters of a packet.  `pcap` and `tunnel` are the link types a program
\* was compiled for; mark, ifindex and netns are None when not filtered on.

Bool(b) == IF b THEN 1 ELSE 0

pcap_filter_match(filters, skb) ==
  LET linktype == IF skb.mac_len THEN "l2" ELSE "l3"
  IN filters.pcap = {} \/ (skb.head /\ linktype \in filters.pcap /\ linktype \in skb.accepts)

\* Tunnel filters do not reject packets that are not encapsulated.
tunnel_pcap_filter_match(filters, skb) ==
  filters.tunnel = {} \/ (skb.head /\ (skb.inner => filters.tunnel \subseteq skb.inner_accepts))

\* A field test: 0 or 1, or -1 when the field cannot be read (None).
FieldVerdict(wanted, field) ==
  IF wanted = None THEN 1 ELSE IF field = None THEN -1 ELSE Bool(field = wanted)

\* A packet without a device has no ifindex; its namespace is its socket's.
IfindexVerdict(filters, skb) ==
  IF filters.ifindex # None /\ ~skb.device THEN 0
  ELSE FieldVerdict(filters.ifindex, skb.ifindex)

Configured(filters) ==
  filters.mark # None \/ filters.ifindex # None \/ filters.netns # None
  \/ filters.pcap # {} \/ filters.tunnel # {} \/ filters.conditions # <<>>

\* The first verdict that is not 1, or 1.
FirstRefusal(verdicts) ==
  LET refusals == {i \in DOMAIN verdicts : verdicts[i] # 1}
  IN IF refusals = {} THEN 1 ELSE verdicts[Min(refusals)]

configured_filter_match(filters, memory, skb) ==
  IF ~Configured(filters) THEN 1
  ELSE IF skb.root = 0 THEN 0
  ELSE FirstRefusal(
    <<Bool(pcap_filter_match(filters, skb)),
      Bool(tunnel_pcap_filter_match(filters, skb)),
      scalar_filter_match(memory, skb.root, filters.conditions),
      FieldVerdict(filters.mark, skb.mark),
      IfindexVerdict(filters, skb),
      FieldVerdict(filters.netns, skb.netns)>>)

XdpConfigured(filters) ==
  filters.ifindex # None \/ filters.netns # None \/ "l2" \in filters.pcap
  \/ filters.xdp_conditions # <<>>

\* At XDP there is no skb: mark and tunnel filters do not apply, and the frame
\* starts with its Ethernet header.
configured_xdp_filter_match(filters, memory, xdp) ==
  IF ~XdpConfigured(filters) THEN 1
  ELSE IF xdp.root = 0 THEN 0
  ELSE FirstRefusal(
    <<Bool("l2" \in filters.pcap => xdp.head /\ "l2" \in xdp.accepts),
      scalar_filter_match(memory, xdp.root, filters.xdp_conditions),
      Bool((filters.ifindex # None \/ filters.netns # None) => xdp.device),
      FieldVerdict(filters.ifindex, xdp.ifindex),
      FieldVerdict(filters.netns, xdp.netns)>>)

-----------------------------------------------------------------------------
\* What an expression means, whatever parses it.

\* Parentheses open at position i, less those closed.
DepthAt(source, i) ==
  Cardinality({j \in 1..i : source[j] = "("}) - Cardinality({j \in 1..i : source[j] = ")"})

\* The last connective outside all parentheses, or 0.
LastOuter(source, connective) ==
  Max({0} \cup {i \in DOMAIN source : source[i] = connective /\ DepthAt(source, i) = 0})

\* || splits an expression first, then &&; None when it is not one.
RECURSIVE TreeOf(_)
TreeOf(source) ==
  LET n == Len(source)
      cut == IF LastOuter(source, "||") > 0 THEN LastOuter(source, "||")
             ELSE LastOuter(source, "&&")
      left == TreeOf(SubSeq(source, 1, cut - 1))
      right == TreeOf(SubSeq(source, cut + 1, n))
  IN IF n = 0 THEN None
     ELSE IF cut > 0 THEN
       IF left = None \/ right = None THEN None
       ELSE [op |-> source[cut], left |-> left, right |-> right]
     ELSE IF source[1] = "(" /\ source[n] = ")" THEN TreeOf(SubSeq(source, 2, n - 1))
     ELSE IF n = 1 /\ source[1] \in DOMAIN Clause THEN [op |-> "clause", text |-> source]
     ELSE None

\* Groups and comparisons of the expanded tree.
RECURSIVE Expanded(_)
Expanded(tree) ==
  LET l == Expanded(tree.left)
      r == Expanded(tree.right)
  IN IF tree.op = "clause" THEN [groups |-> 1, conditions |-> 1]
     ELSE IF tree.op = "||"
       THEN [groups |-> l.groups + r.groups, conditions |-> l.conditions + r.conditions]
     ELSE [groups |-> l.groups * r.groups,
           conditions |-> l.conditions * r.groups + r.conditions * l.groups]

Legal(source) ==
  /\ TreeOf(source) # None
  /\ Expanded(TreeOf(source)).conditions <= MAX_SKB_FILTER_CONDITIONS
  /\ \A i \in DOMAIN source : DepthAt(source, i) <= MAX_SKB_FILTER_NESTING

\* The value a C expression sees in the field.
FieldValue(memory, root, rootType, path, p) ==
  LET Signed(host) == IF p.encoding = "Signed" THEN AsSigned(host, FieldBits(p)) ELSE host
  IN AndThen(RawField(memory, root, rootType, path), LAMBDA raw :
       Signed(IF p.big_endian THEN SwapBytes(raw, p.size) ELSE raw))

LiteralValue(literal, p) == IF literal.symbol = None THEN literal.value ELSE LiteralWord(literal, p)

\* The comparisons that do compare values: a literal the field can hold, no
\* negative one, no signed bitfield, and no order of big-endian fields.
Faithful(rootType, clause) ==
  LET For(p) ==
        LET bits == IF p.encoding = "Signed" THEN FieldBits(p) - 1 ELSE FieldBits(p)
        IN /\ LiteralValue(clause.literal, p) \in 0..(2^bits - 1)
           /\ p.encoding = "Signed" => p.access.bitfield_size = 0
           /\ p.big_endian => clause.comparison \in {"Equal", "NotEqual"}
  IN For(resolve_one(rootType, clause.path))

\* Kleene's three values as 1, 0 and -1.
And3(a, b) == IF a = 0 \/ b = 0 THEN 0 ELSE IF a = 1 /\ b = 1 THEN 1 ELSE -1
Or3(a, b) == IF a = 1 \/ b = 1 THEN 1 ELSE IF a = 0 /\ b = 0 THEN 0 ELSE -1

\* The value of a clause, and of a tree of clauses, on the object at root.
ClauseMeaning(clause, memory, root, rootType) ==
  LET With(p) ==
        LET Verdict(v) == IF v = None THEN -1
                          ELSE Bool(Compare(clause.comparison, v, LiteralValue(clause.literal, p)))
        IN Verdict(FieldValue(memory, root, rootType, clause.path, p))
  IN With(resolve_one(rootType, clause.path))

RECURSIVE Meaning(_, _, _, _)
Meaning(tree, memory, root, rootType) ==
  LET left == Meaning(tree.left, memory, root, rootType)
      right == Meaning(tree.right, memory, root, rootType)
  IN CASE tree.op = "&&" -> And3(left, right)
       [] tree.op = "||" -> Or3(left, right)
       [] tree.op = "clause" -> ClauseMeaning(Clause[tree.text[1]], memory, root, rootType)
=============================================================================
