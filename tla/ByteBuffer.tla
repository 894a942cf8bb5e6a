----------------------------- MODULE ByteBuffer -----------------------------
(***************************************************************************)
(* Reading and writing datagrams, as the codecs do with the bytes crate.   *)
(*                                                                         *)
(* A byte is a number below 256.  One and two byte integers are numbers;   *)
(* wider ones (u32, i64, u64, u128 and UUIDs) are their big-endian digits, *)
(* since no property does arithmetic on them.  A string is the sequence of *)
(* its bytes.                                                              *)
(*                                                                         *)
(* A decoder is a sequence of steps, each with its own check on what       *)
(* remains, as the source writes it: a check that fails is an error the    *)
(* caller handles, a read past the end is a panic.                         *)
(***************************************************************************)
EXTENDS Integers, Sequences, SequencesExt, TLC

CONSTANTS Addrs,     \* socket addresses
          AddrText   \* AddrText[a]: SocketAddr::to_string, as bytes

ASSUME AddrAssumption ==
  \A a, b \in Addrs : AddrText[a] = AddrText[b] => a = b

UUID_SIZE == 16
U8_SIZE == 1
U16_SIZE == 2
U32_SIZE == 4
I64_SIZE == 8

OPTION_SOME == 1
OPTION_NONE == 0
BOOL_TRUE == 1
BOOL_FALSE == 0

\* Option<String>.
NoString == <<>>
Some(s) == <<s>>

PutU8(n) == <<n % 256>>
PutU16(n) == <<(n \div 256) % 256, n % 256>>

\* A length prefix, `len() as u16`, and the bytes.
PutString(s) == PutU16(Len(s)) \o s
PutAddr(a) == PutString(AddrText[a])
PutBool(b) == PutU8(IF b THEN BOOL_TRUE ELSE BOOL_FALSE)

encode_optional_string(opt) ==
  IF opt = NoString THEN PutU8(OPTION_NONE) ELSE PutU8(OPTION_SOME) \o PutString(opt[1])

\* A count, `len() as u16`, and the items.
PutList(xs, item(_)) == PutU16(Len(xs)) \o FlattenSeq([i \in 1..Len(xs) |-> item(xs[i])])

PutUuids(ids) ==
  PutU16(Len(ids)) \o
  [i \in 1..(UUID_SIZE * Len(ids)) |->
     ids[((i - 1) \div UUID_SIZE) + 1][((i - 1) % UUID_SIZE) + 1]]

-----------------------------------------------------------------------------
(* A reader: what became of it, the unread bytes, the fields read.         *)

Reader(bytes) == [st |-> "ok", rest |-> bytes, val |-> <<>>]
Err(r) == [r EXCEPT !.st = "err"]
Panic(r) == [r EXCEPT !.st = "panic"]
Skip(r, k) == [r EXCEPT !.rest = SubSeq(@, k + 1, Len(@))]
Keep(r, f, v) == [r EXCEPT !.val = (f :> v) @@ @]
Then(r, next(_)) ==
  CHOOSE s \in {IF q.st = "ok" THEN next(q) ELSE q : q \in {r}} : TRUE

\* `if buf.remaining() < k { return Err(InvalidLength) }`
Need(r, k) == IF Len(r.rest) < k THEN Err(r) ELSE r

\* get_u8 .. get_u128 and copy_to_slice panic when the bytes are not there.
Get(r, f, k) ==
  IF Len(r.rest) < k THEN Panic(r) ELSE Keep(Skip(r, k), f, SubSeq(r.rest, 1, k))

GetU8(r, f) == Then(Get(r, f, U8_SIZE), LAMBDA s : Keep(s, f, s.val[f][1]))

GetU16(r, f) ==
  Then(Get(r, f, U16_SIZE), LAMBDA s : Keep(s, f, s.val[f][1] * 256 + s.val[f][2]))

\* from_code of an enum: an unknown code is an error.
GetCode(r, f, fromCode) ==
  Then(GetU8(r, f), LAMBDA s : IF s.val[f] \in DOMAIN fromCode
                               THEN Keep(s, f, fromCode[s.val[f]]) ELSE Err(s))

\* String::from_utf8; the strings of the model are ASCII.
GetString(r, f) ==
  LET Bytes(s) == Then(Need(s, s.val[f]), LAMBDA t : Get(t, f, t.val[f]))
      Utf8(s) == IF \A i \in 1..Len(s.val[f]) : s.val[f][i] < 128 THEN s ELSE Err(s)
  IN Then(Then(GetU16(r, f), Bytes), Utf8)

\* `addr_str.parse()`.
GetAddr(r, f) ==
  LET Parsed(s) == {a \in Addrs : AddrText[a] = s.val[f]}
  IN Then(GetString(r, f), LAMBDA s : IF Parsed(s) = {} THEN Err(s)
                                      ELSE Keep(s, f, CHOOSE a \in Parsed(s) : TRUE))

decode_optional_string(r, f) ==
  LET Wrapped(s) == Then(GetString(s, f), LAMBDA t : Keep(t, f, Some(t.val[f])))
  IN Then(GetU8(r, f), LAMBDA s : IF s.val[f] = OPTION_SOME THEN Wrapped(s)
                                  ELSE Keep(s, f, NoString))

-----------------------------------------------------------------------------
(* Decoders as sequences of steps: <<"need", bytes>> is a check, <<kind,   *)
(* field, ...>> reads a field.  A list repeats the steps of its items.     *)

Field(r, step) ==
  CASE step[1] = "need"   -> Need(r, step[2])
    [] step[1] = "bytes"  -> Get(r, step[2], step[3])
    [] step[1] = "u8"     -> GetU8(r, step[2])
    [] step[1] = "u16"    -> GetU16(r, step[2])
    [] step[1] = "bool"   -> Then(GetU8(r, step[2]),
                                  LAMBDA s : Keep(s, step[2], s.val[step[2]] = BOOL_TRUE))
    [] step[1] = "code"   -> GetCode(r, step[2], step[3])
    [] step[1] = "string" -> GetString(r, step[2])
    [] step[1] = "option" -> decode_optional_string(r, step[2])
    [] step[1] = "addr"   -> GetAddr(r, step[2])

Fields(r, steps) ==
  LET run[i \in 0..Len(steps)] ==
        IF i = 0 THEN r ELSE Then(run[i - 1], LAMBDA q : Field(q, steps[i]))
  IN run[Len(steps)]

\* `for _ in 0..count`, each item a record of its own.
Items(r, f, steps) ==
  LET Item(s) == LET t == Fields([s EXCEPT !.val = <<>>], steps)
                 IN [t EXCEPT !.val = Append(s.val, @)]
      read[i \in 0..r.val[f]] ==
        IF i = 0 THEN [r EXCEPT !.val = <<>>] ELSE Then(read[i - 1], Item)
      end == read[r.val[f]]
  IN [end EXCEPT !.val = (f :> @) @@ r.val]

\* A checked list of UUIDs: `if buf.remaining() < count * UUID_SIZE`.
Uuids(r, f) ==
  LET count == r.val[f]
      ids == [i \in 1..count |-> SubSeq(r.rest, (i - 1) * UUID_SIZE + 1, i * UUID_SIZE)]
  IN Then(Need(r, count * UUID_SIZE),
          LAMBDA s : Keep(Skip(s, count * UUID_SIZE), f, ids))

Step(r, step) ==
  CASE step[1] = "tail" /\ Len(r.rest) < U16_SIZE -> Keep(r, step[2], <<>>)
    [] step[1] \in {"list", "tail"} ->
         Then(GetU16(r, step[2]), LAMBDA s : Items(s, step[2], step[3]))
    [] step[1] = "uuids" -> Then(GetU16(r, step[2]), LAMBDA s : Uuids(s, step[2]))
    [] OTHER -> Field(r, step)

Steps(r, steps) ==
  LET run[i \in 0..Len(steps)] ==
        IF i = 0 THEN r ELSE Then(run[i - 1], LAMBDA q : Step(q, steps[i]))
  IN run[Len(steps)]
=============================================================================
