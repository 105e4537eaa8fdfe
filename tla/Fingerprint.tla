----------------------------- MODULE Fingerprint -----------------------------
(***************************************************************************)
(* The two fingerprints of a receipt, as the bytes that are hashed; a hash *)
(* is identified with them.  GetLogicalHash (internal/engine/ir.go) puts   *)
(* the length before every field, ComputeInputDigest (substitution.go) a   *)
(* zero byte behind it.                                                    *)
(***************************************************************************)
EXTENDS Texts

\* binary.PutUvarint: seven bits to a byte, the lowest first.
writeVarUint(value) ==
  LET varint[n \in Nat] == IF n < 128 THEN <<n>> ELSE <<128 + (n % 128)>> \o varint[n \div 128]
  IN varint[value]

\* Variant: the fields are written without their lengths.
writeLengthPrefixedBare(t) == Bytes(t)

writeLengthPrefixed(t) == writeVarUint(Len(Bytes(t))) \o Bytes(t)

\* The words the code writes whatever the skill is.
Words ==
  {"v1", "params", "steps", "caps", "path", "content", "action",
   "args:read_file", "args:write_file", "args:legacy"}

\* One field whose text is one word.
Field(word) == writeLengthPrefixed(<<word>>)

writeMap(m, WriteValue(_)) ==
  writeVarUint(Cardinality(DOMAIN m))
    \o Concat(SortedKeys(m), LAMBDA n : writeLengthPrefixed(n) \o WriteValue(m[n]))

writeParametersCanonical(params) ==
  Field("params")
    \o writeMap(params, LAMBDA p : Field(p.type) \o writeLengthPrefixed(p.default)
                                     \o <<IF p.required THEN 1 ELSE 0>>)

writeCanonicalFields(step) ==
  LET path == Field("path") \o writeLengthPrefixed(step.path)
      content == Field("content") \o writeLengthPrefixed(step.content)
  IN CASE step.kind = "read_file" -> Field("args:read_file") \o <<1>> \o path
       [] step.kind = "write_file" -> Field("args:write_file") \o <<2>> \o content \o path
       [] step.kind = "legacy" ->
            Field("args:legacy") \o <<1>> \o Field("action") \o writeLengthPrefixed(step.content)

writeStepsCanonical(steps) ==
  LET write(step) ==
        writeLengthPrefixed(step.id) \o Field(step.kind) \o writeCanonicalFields(step)
          \o writeMap(step.inputs, writeLengthPrefixed)
          \o writeVarUint(Len(step.outputs)) \o Concat(step.outputs, writeLengthPrefixed)
  IN Field("steps") \o writeVarUint(Len(steps)) \o Concat(steps, write)

\* Sorted by kind and scope: the order of the declarations does not count.
writeCapabilitiesCanonical(caps) ==
  LET key(i) == <<caps[i].kind>> \o caps[i].scope
      order == Sorted(DOMAIN caps, LAMBDA i, j :
                 Before(key(i), key(j)) \/ (Bytes(key(i)) = Bytes(key(j)) /\ i < j))
  IN Field("caps") \o writeVarUint(Len(caps))
       \o Concat(order, LAMBDA i : Field(caps[i].kind) \o writeLengthPrefixed(caps[i].scope))

GetLogicalHash(skill) ==
  (IF skill.version = "" THEN writeVarUint(0) ELSE Field(skill.version))
    \o writeParametersCanonical(skill.params)
    \o writeStepsCanonical(skill.steps)
    \o writeCapabilitiesCanonical(skill.caps)

\* Variant: nothing says where a field ends.
ComputeInputDigestBare(inputs) ==
  Concat(SortedKeys(inputs), LAMBDA n : Bytes(n \o <<inputs[n].tag>> \o inputs[n].text))

ComputeInputDigest(inputs) ==
  Concat(SortedKeys(inputs), LAMBDA n :
    Bytes(n) \o <<0>> \o Bytes(<<inputs[n].tag>>) \o <<0>> \o Bytes(inputs[n].text) \o <<0>>)
=============================================================================
