----------------------------- MODULE WireFormat -----------------------------
(***************************************************************************)
(* What the structures of include/ are written with: serializer_t and      *)
(* deserializer_t of the crypto library, its JSON macros over rapidjson,   *)
(* and its hashes.  None of these is in the repository: they are modelled  *)
(* from how the structures use them.                                       *)
(*                                                                         *)
(* A structure names its fields in the order its methods visit them.  Its  *)
(* bytes are a sequence of tokens, each the kind of a field and a value;   *)
(* a vector is its count and then the tokens of its elements.  Reading     *)
(* fails (the deserializer throws) when the bytes run out; bytes that are  *)
(* read as another kind of field than they were written for are garbage,   *)
(* which is a failure here as well.                                        *)
(***************************************************************************)
EXTENDS Integers, Sequences, SequencesExt

\* The name of a value that is no member of a structure: a vector's element
Itself == "itself"

Field(n, k, of) == [name |-> n, kind |-> k, of |-> of]
varint(n) == Field(n, "varint", <<>>)
key(n) == Field(n, "key", <<>>)
signature(n) == Field(n, "signature", <<>>)
proof(n) == Field(n, "proof", <<>>)
bytes(n) == Field(n, "bytes", <<Field(Itself, "byte", <<>>)>>)
vector(n, of) == Field(n, "vector", of)
keyV(n) == vector(n, <<key(Itself)>>)

\* ip_address_t writes its eight components and its flags, one token here
address(n) == Field(n, "address", <<>>)

\* normalize_v4_embedded: a v4 address read in its compatible form, in the
\* first two components, moves to the last two, behind 16#ffff
ComponentMax == 65535
normalize_v4_embedded(a) ==
    IF "IPV4_COMPAT" \in a.flags
    THEN [flags |-> (a.flags \cup {"IPV4_EMBED"}) \ {"IPV4_COMPAT"},
          components |-> [a.components EXCEPT ![7] = a.components[1], ![8] = a.components[2],
                                              ![1] = 0, ![2] = 0, ![6] = ComponentMax]]
    ELSE a

\* What a member becomes when value v is read for it
Loaded(f, v) == IF f.kind = "address" THEN normalize_v4_embedded(v) ELSE v

Names(fields) == {fields[i].name : i \in DOMAIN fields}
Counted(f) == f.kind \in {"vector", "bytes"}

Token(f, v) == <<f.kind, v>>

\* The tokens of one element of a vector: the value itself, or a structure
Element(of, e) == [i \in DOMAIN of |-> Token(of[i], IF of[i].name = Itself THEN e ELSE e[of[i].name])]

\* The bytes of one member: a count and the elements, or the value
Emitted(f, v) ==
    IF Counted(f) THEN <<Token(varint(Itself), Len(v))>>
                         \o FlattenSeq([i \in DOMAIN v |-> Element(f.of, v[i])])
                  ELSE <<Token(f, v)>>

\* serializer_t: the bytes of a structure whose serialize visits fields
Written(fields, rec) ==
    FlattenSeq([i \in DOMAIN fields |-> Emitted(fields[i], rec[fields[i].name])])

\* deserializer_t: what is left to read, the fields read so far, and whether
\* every read succeeded
Reader(data) == [in |-> data, out |-> <<>>, ok |-> TRUE]
Thrown == [in |-> <<>>, out |-> <<>>, ok |-> FALSE]

\* The members out, with member n set to v
Assigned(out, n, v) == [m \in DOMAIN out \cup {n} |-> IF m = n THEN v ELSE out[m]]

Kinds(tokens) == [i \in DOMAIN tokens |-> tokens[i][1]]

ReadElement(of, tokens) ==
    IF of[1].name = Itself THEN tokens[1][2]
    ELSE [n \in Names(of) |-> LET i == CHOOSE k \in DOMAIN of : of[k].name = n
                              IN  Loaded(of[i], tokens[i][2])]

ReadVector(r, f, count, rest) ==
    LET w == Len(f.of)
        element(i) == SubSeq(rest, w * (i - 1) + 1, w * i)
    IN  IF /\ w * count <= Len(rest)
           /\ \A i \in 1..count : Kinds(element(i)) = [k \in DOMAIN f.of |-> f.of[k].kind]
        THEN [in |-> SubSeq(rest, w * count + 1, Len(rest)), ok |-> TRUE,
              out |-> Assigned(r.out, f.name, [i \in 1..count |-> ReadElement(f.of, element(i))])]
        ELSE Thrown

ReadField(r, f) ==
    IF ~r.ok \/ r.in = <<>> THEN Thrown
    ELSE LET t == Head(r.in)
         IN  CASE Counted(f) /\ t[1] = "varint" -> ReadVector(r, f, t[2], Tail(r.in))
               [] t[1] = f.kind -> [in |-> Tail(r.in), ok |-> TRUE,
                                    out |-> Assigned(r.out, f.name, Loaded(f, t[2]))]
               [] OTHER -> Thrown

\* A structure whose deserialize visits fields
ReadFields(r, fields) ==
    LET after[i \in 0..Len(fields)] == IF i = 0 THEN r ELSE ReadField(after[i - 1], fields[i])
    IN  after[Len(fields)]

-----------------------------------------------------------------------------
(* JSON objects are functions of member names; a value carries its JSON type *)

JsonType(f) == CASE f.kind = "varint" -> "number"
                 [] f.kind = "vector" -> "array"
                 [] f.kind = "proof" -> "object"
                 [] OTHER -> "string"

FieldNamed(fields, n) == fields[CHOOSE i \in DOMAIN fields : fields[i].name = n]

\* An element of an array: a plain value, or the object its toJSON writes
JsonElement(of, e) ==
    IF of[1].name = Itself THEN <<JsonType(of[1]), e>>
    ELSE <<"object", [n \in Names(of) |-> <<JsonType(FieldNamed(of, n)), e[n]>>]>>

ToJSON(fields, rec) ==
    [n \in Names(fields) |->
        LET f == FieldNamed(fields, n)
        IN  <<JsonType(f), IF f.kind = "vector"
                           THEN [i \in DOMAIN rec[n] |-> JsonElement(f.of, rec[n][i])]
                           ELSE rec[n]>>]

\* JSON_MEMBER_OR_THROW and the getters: a member that is missing or has
\* another type throws
HasMembers(of, j) ==
    \A i \in DOMAIN of : of[i].name \in DOMAIN j /\ j[of[i].name][1] = JsonType(of[i])

Readable(fields, j) ==
    /\ HasMembers(fields, j)
    /\ \A i \in DOMAIN fields :
          LET of == fields[i].of
              elements == j[fields[i].name][2]
          IN  fields[i].kind = "vector" =>
                \A k \in DOMAIN elements :
                   IF of[1].name = Itself THEN elements[k][1] = JsonType(of[1])
                   ELSE elements[k][1] = "object" /\ HasMembers(of, elements[k][2])

FromElement(of, e) ==
    IF of[1].name = Itself THEN e[2] ELSE [n \in Names(of) |-> Loaded(FieldNamed(of, n), e[2][n][2])]

FromJSON(fields, j) ==
    IF ~Readable(fields, j) THEN Thrown
    ELSE [in |-> <<>>, ok |-> TRUE,
          out |-> [n \in Names(fields) |->
                      LET f == FieldNamed(fields, n)
                          v == j[n][2]
                      IN  IF f.kind = "vector"
                          THEN [i \in DOMAIN v |-> FromElement(f.of, v[i])] ELSE Loaded(f, v)]]

-----------------------------------------------------------------------------
(* Keys, hashes and sizes *)

\* The value of a key, hash or signature that was never set
Z == <<>>

\* Collision free: equal hashes have equal preimages
sha3(data) == <<"sha3", data>>
argon2id(hash) == <<"argon2id", hash>>

Total(s) ==
    LET upto[i \in 0..Len(s)] == IF i = 0 THEN 0 ELSE upto[i - 1] + s[i]
    IN  upto[Len(s)]

\* Bytes of a token; a CLSAG signature or a range proof has at least three keys
TokenSize(t) == CASE t[1] = "key" -> 32
                  [] t[1] = "signature" -> 64
                  [] t[1] = "proof" -> 96
                  [] OTHER -> 1

Size(data) == Total([i \in DOMAIN data |-> TokenSize(data[i])])
=============================================================================
