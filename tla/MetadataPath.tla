---------------------------- MODULE MetadataPath ----------------------------
(***************************************************************************)
(* How a field named in C, such as skb->dev->ifindex, is compiled against  *)
(* the target kernel's BTF to an access plan, and how the kernel program   *)
(* follows that plan through memory.                                       *)
(*                                                                         *)
(* Abstracted: the spelling of a path, which is the sequence of its field  *)
(* names (`.` and `->` are interchangeable in the code), and of types.  A  *)
(* byte has ByteBits bits; memory is little-endian, and maps each readable *)
(* address to a byte.                                                      *)
(***************************************************************************)
EXTENDS Integers, Sequences, SequencesExt, FiniteSetsExt

CONSTANTS
  Btf,                        \* the kernel's types, by name
  ByteBits,                   \* bound: bits in a byte
  MAX_METADATA_ACCESS_STEPS,
  MAX_ANONYMOUS_DEPTH,        \* the 8 of find_member
  None

ASSUME PathAssumption ==
  ByteBits \in Nat \ {0} /\ MAX_METADATA_ACCESS_STEPS \in Nat /\ MAX_ANONYMOUS_DEPTH \in Nat

PointerBytes == 8
WordBits == PointerBytes * ByteBits

\* A result that may be missing, passed on (Rust's `?`).
AndThen(result, Next(_)) == IF result = None THEN None ELSE Next(result)

-----------------------------------------------------------------------------
\* From a path to an access plan.

RECURSIVE strip_modifiers(_)
strip_modifiers(t) == IF Btf[t].kind = "typedef" THEN strip_modifiers(Btf[t].of) ELSE t

RECURSIVE is_big_endian(_)
is_big_endian(t) == Btf[t].kind = "typedef" /\ (Btf[t].be \/ is_big_endian(Btf[t].of))

IsAggregate(t) == Btf[t].kind = "struct"

InnerOffset(base, member) == base + member.offset

\* The first member with that name, an anonymous aggregate standing for its own
\* members.  Offsets are in bits.
RECURSIVE find_member(_, _, _, _)
find_member(aggregate, field, base, depth) ==
  LET members == Btf[aggregate].members
      Under(m) ==
        IF m.name = field THEN [m EXCEPT !.offset = base + @]
        ELSE IF m.name = None /\ IsAggregate(strip_modifiers(m.type))
          THEN find_member(strip_modifiers(m.type), field, InnerOffset(base, m), depth + 1)
          ELSE None
      found == {i \in DOMAIN members : Under(members[i]) # None}
  IN IF depth > MAX_ANONYMOUS_DEPTH \/ found = {} THEN None ELSE Under(members[Min(found)])

\* [encoding, size, constants] of an integer, a boolean, an enum or a pointer.
scalar_shape(t) ==
  IF Btf[t].kind = "scalar" THEN Btf[t]
  ELSE IF Btf[t].kind = "ptr"
    THEN [encoding |-> "Pointer", size |-> PointerBytes, constants |-> <<>>]
    ELSE None

\* The plan's last step.  A bitfield is read as a word, shifted and masked.
Projection(access, member) ==
  LET Shaped(shape) ==
     IF shape.size \notin 1..8 THEN None
     ELSE [access |-> [access EXCEPT !.size = IF member.bits = 0 THEN shape.size ELSE 8],
           encoding |-> shape.encoding,
           size |-> shape.size,
           constants |-> shape.constants,
           big_endian |-> member.bits = 0 /\ is_big_endian(member.type)]
  IN AndThen(scalar_shape(strip_modifiers(member.type)), Shaped)

\* The step to a member, one of the access plan's.
StepTo(access, member, shift) ==
  IF shift + member.bits > WordBits THEN None
  ELSE [access EXCEPT !.offsets = Append(@, member.offset \div ByteBits),
                      !.shift = IF member.bits = 0 THEN @ ELSE shift,
                      !.bitfield_size = IF member.bits = 0 THEN @ ELSE member.bits]

\* The loop of resolve_one: the fields left, from a container type.
RECURSIVE resolve_from(_, _, _)
resolve_from(container, path, access) ==
  LET Through(selected, step) ==
        IF Btf[selected].kind = "ptr"
          THEN resolve_from(strip_modifiers(Btf[selected].to), Tail(path),
                            [step EXCEPT !.dereference = @ \cup {Len(access.offsets) + 1}])
          ELSE resolve_from(selected, Tail(path), step)
      By(member) ==
        LET Stepped(step) == IF Len(path) = 1 THEN Projection(step, member)
                             ELSE Through(strip_modifiers(member.type), step)
        IN AndThen(StepTo(access, member, member.offset % ByteBits), Stepped)
  IN IF IsAggregate(container) THEN AndThen(find_member(container, Head(path), 0, 0), By) ELSE None

resolve_one(root, path) ==
  IF Len(path) \notin 1..MAX_METADATA_ACCESS_STEPS THEN None
  ELSE resolve_from(root, path,
         [offsets |-> <<>>, dereference |-> {}, shift |-> 0, size |-> 0, bitfield_size |-> 0])

-----------------------------------------------------------------------------
\* Following the plan in the kernel.

\* bpf_probe_read_kernel: None when a byte is not readable.
Bytes(memory, address, size) ==
  IF address..(address + size - 1) \subseteq DOMAIN memory
    THEN MapThenSumSet(LAMBDA i : memory[address + i] * 2^(ByteBits * i), 0..(size - 1))
    ELSE None

NonNull(pointer) == IF pointer = 0 THEN None ELSE pointer

\* The object behind all steps of a plan but the last.
Follow(memory, root, access) ==
  LET Step(cursor, i) ==
        AndThen(cursor, LAMBDA object :
          IF i \in access.dereference THEN NonNull(Bytes(memory, object + access.offsets[i], PointerBytes))
          ELSE object + access.offsets[i])
  IN FoldLeft(Step, NonNull(root), [i \in 1..(Len(access.offsets) - 1) |-> i])

bitfield(value, access) == (value \div 2^access.shift) % 2^access.bitfield_size

read_scalar_access(memory, root, access) ==
  AndThen(AndThen(Follow(memory, root, access),
                  LAMBDA object : Bytes(memory, object + Last(access.offsets), access.size)),
          LAMBDA value : IF access.bitfield_size = 0 THEN value ELSE bitfield(value, access))

-----------------------------------------------------------------------------
\* What the path means in C: the members an aggregate shows, and the bits of
\* memory that hold one.

RECURSIVE MembersOf(_)
MembersOf(aggregate) ==
  UNION {LET m == Btf[aggregate].members[i]
         IN IF m.name # None THEN {m}
            ELSE {[inner EXCEPT !.offset = @ + m.offset] :
                    inner \in MembersOf(strip_modifiers(m.type))}
         : i \in DOMAIN Btf[aggregate].members}

MemberNamed(t, field) == CHOOSE m \in MembersOf(t) : m.name = field

BitsAt(memory, address, member, width) ==
  LET bit(i) == (memory[address + (member.offset + i) \div ByteBits]
                   \div 2^((member.offset + i) % ByteBits)) % 2
  IN IF \A i \in 0..(width - 1) :
          address + (member.offset + i) \div ByteBits \in DOMAIN memory
       THEN MapThenSumSet(LAMBDA i : bit(i) * 2^i, 0..(width - 1))
       ELSE None

Width(member) ==
  IF member.bits # 0 THEN member.bits
  ELSE scalar_shape(strip_modifiers(member.type)).size * ByteBits

\* [object, member]: where the path leads, or None at a null or unreadable pointer.
RECURSIVE Place(_, _, _, _)
Place(memory, address, t, path) ==
  LET Inside(place, inner) ==
        IF Btf[inner].kind # "ptr" THEN Place(memory, place, inner, Tail(path))
        ELSE AndThen(Bytes(memory, place, PointerBytes), LAMBDA pointer :
               Place(memory, pointer, strip_modifiers(Btf[inner].to), Tail(path)))
      At(member) ==
        IF Len(path) = 1 THEN [object |-> address, member |-> member]
        ELSE Inside(address + member.offset \div ByteBits, strip_modifiers(member.type))
  IN IF address = 0 THEN None ELSE At(MemberNamed(t, Head(path)))

\* The bits of the field, as an unsigned number.
RawField(memory, root, rootType, path) ==
  AndThen(Place(memory, root, rootType, path), LAMBDA place :
    BitsAt(memory, place.object, place.member, Width(place.member)))
=============================================================================
