------------------------------- MODULE Codec -------------------------------
(***************************************************************************)
(* buffer::Buffer (include/buffer/buffer.h) and the Marshal / Unmarshal    *)
(* pairs of the inter-node messages (src/api/api.cpp).                     *)
(*                                                                         *)
(* A buffer is its bytes buffer_[0 .. length_-1], its capacity size_, the  *)
(* read position offset_, and whether every memmove so far stayed inside   *)
(* the capacity.  A scalar is written as the little-endian bytes of its    *)
(* type; a string as a size_t strlen + 1, its characters and a NUL.        *)
(* A layout is the sequence of <<field, type>> a Marshal adds or an        *)
(* Unmarshal gets, in order; a message value maps each field to its value. *)
(* Values are small (|v| < 128): every byte but the lowest is sign         *)
(* extension, and bytes that are not are read as Garbage.                  *)
(***************************************************************************)
EXTENDS Integers, Sequences, SequencesExt

CONSTANTS
  BlockPow,     \* config::BUFFER_BLOCK_POW; BUFFER_BLOCK_SIZE is 2^BlockPow
  MaxResponses  \* bound on the responses of one InterNodeBatchLoadResponse

BlockSize == 2^BlockPow

\* sizeof on x86-64: int and the enums 4, size_t 8, bool 1.
Width == [i32 |-> 4, u64 |-> 8, b8 |-> 1]

\* The value of bytes no small value produces (a large or misread number).
Garbage == -1000

Bytes(k, v) ==
  [i \in 1..Width[k] |-> IF i = 1 THEN v % 256 ELSE IF v < 0 THEN 255 ELSE 0]

FromBytes(k, bs) ==
  LET neg == k = "i32" /\ bs[1] >= 128 IN
  IF \A i \in 2..Len(bs) : bs[i] = (IF neg THEN 255 ELSE 0)
    THEN IF neg THEN bs[1] - 256 ELSE bs[1]
    ELSE Garbage

-----------------------------------------------------------------------------
(* Buffer.                                                                 *)
\* Buffer(): calloc of BUFFER_BLOCK_SIZE bytes.
NewBuffer == [data |-> <<>>, size |-> BlockSize, offset |-> 0, fits |-> TRUE]

\* Add(item) and Add(item, n): when length_ + n reaches size_, size_ becomes
\* length_ + n rounded down to a block, plus a block; then memmove n bytes
\* at length_.
Add(b, bs) ==
  LET n == Len(b.data) + Len(bs)
      size == IF n >= b.size THEN (n \div BlockSize) * BlockSize + BlockSize ELSE b.size
  IN [b EXCEPT !.data = @ \o bs, !.size = size, !.fits = @ /\ n <= size]

\* AddString: Add(strlen + 1), then the characters and the NUL.
AddString(b, s) == Add(Add(b, Bytes("u64", Len(s) + 1)), s \o <<0>>)

\* A result of Get: ok is FALSE when Get called LOG_FATAL (offset_ + n >
\* length_) or the bytes were not a NUL-terminated string.
Fail(b) == [ok |-> FALSE, val |-> Garbage, buf |-> b]

\* Get<T>() and Get<T>(n): n bytes at offset_.
GetBytes(b, n) ==
  IF b.offset + n > Len(b.data)
    THEN Fail(b)
    ELSE [ok |-> TRUE, val |-> SubSeq(b.data, b.offset + 1, b.offset + n),
          buf |-> [b EXCEPT !.offset = @ + n]]

\* GetString: a size_t, that many characters, and std::string of them,
\* which stops at the first NUL.
GetString(b) ==
  LET n == GetBytes(b, Width["u64"])
      len == IF n.ok THEN FromBytes("u64", n.val) ELSE Garbage
      cs == IF len = Garbage THEN Fail(b) ELSE GetBytes(n.buf, len)
      nul == IF cs.ok THEN SelectInSeq(cs.val, LAMBDA c : c = 0) ELSE 0
  IN IF nul = 0 THEN Fail(b) ELSE [cs EXCEPT !.val = SubSeq(@, 1, nul - 1)]

Put(b, k, v) == IF k = "str" THEN AddString(b, v) ELSE Add(b, Bytes(k, v))

GetField(b, k) ==
  IF k = "str" THEN GetString(b)
  ELSE LET r == GetBytes(b, Width[k]) IN
       IF r.ok THEN [r EXCEPT !.val = FromBytes(k, @)] ELSE r

RECURSIVE PutFields(_, _, _)
\* A Marshal: the Add calls of a layout, in order.
PutFields(b, l, v) ==
  IF l = <<>> THEN b ELSE PutFields(Put(b, Head(l)[2], v[Head(l)[1]]), Tail(l), v)

RECURSIVE GetFields(_, _, _)
\* An Unmarshal: the Get calls of a layout, in order, each stored in its
\* field of the value read so far.
GetFields(b, l, v) ==
  IF l = <<>> THEN [ok |-> TRUE, val |-> v, buf |-> b]
  ELSE LET r == GetField(b, Head(l)[2]) IN
       IF r.ok THEN GetFields(r.buf, Tail(l), (Head(l)[1] :> r.val) @@ v)
               ELSE Fail(b)

-----------------------------------------------------------------------------
(* The layouts of api.cpp.  A nested Marshal call adds the nested object's *)
(* layout, its fields named under the member.                              *)
Under(p, l) == [i \in DOMAIN l |-> <<p \o "." \o l[i][1], l[i][2]>>]

MetadataMarshal ==
  <<<<"job_name", "str">>, <<"file_name", "str">>, <<"node_rank", "i32">>,
    <<"iteration", "str">>, <<"state", "i32">>, <<"size", "u64">>>>
MetadataUnmarshal ==
  <<<<"job_name", "str">>, <<"file_name", "str">>, <<"node_rank", "i32">>,
    <<"iteration", "str">>, <<"state", "i32">>, <<"size", "u64">>>>

\* Mutant: pid and memfd read in the wrong order.
DataEntryUnmarshalSwapped == <<<<"address", "u64">>, <<"memfd", "i32">>, <<"pid", "i32">>>>

DataEntryMarshal == <<<<"address", "u64">>, <<"pid", "i32">>, <<"memfd", "i32">>>>
DataEntryUnmarshal == <<<<"address", "u64">>, <<"pid", "i32">>, <<"memfd", "i32">>>>

BackupRequestMarshal ==
  Under("metadata", MetadataMarshal) \o Under("data_entry", DataEntryMarshal)
    \o <<<<"only_metadata", "b8">>>>
BackupRequestUnmarshal ==
  Under("metadata", MetadataUnmarshal) \o Under("data_entry", DataEntryUnmarshal)
    \o <<<<"only_metadata", "b8">>>>

\* InterNodeBackupResponse, InterNodeNotifyBackupResponse: the code alone.
CodeMarshal == <<<<"code", "i32">>>>
CodeUnmarshal == <<<<"code", "i32">>>>

LoadRequestMarshal == Under("metadata", MetadataMarshal) \o <<<<"only_metadata", "b8">>>>
LoadRequestUnmarshal == Under("metadata", MetadataUnmarshal) \o <<<<"only_metadata", "b8">>>>

LoadResponseMarshal ==
  Under("metadata", MetadataMarshal) \o Under("data_entry", DataEntryMarshal) \o CodeMarshal
LoadResponseUnmarshal ==
  Under("metadata", MetadataUnmarshal) \o Under("data_entry", DataEntryUnmarshal) \o CodeUnmarshal

FilterMarshal == <<<<"node_rank", "i32">>, <<"iteration", "str">>, <<"state", "i32">>>>
FilterUnmarshal == <<<<"node_rank", "i32">>, <<"iteration", "str">>, <<"state", "i32">>>>

BatchLoadRequestMarshal == Under("filter", FilterMarshal) \o <<<<"only_metadata", "b8">>>>
BatchLoadRequestUnmarshal == Under("filter", FilterUnmarshal) \o <<<<"only_metadata", "b8">>>>

\* InterNodeBatchLoadResponse: responses.size(), each response's metadata
\* and data_entry (not its code), then the code.  Unmarshal reads the count
\* and gets that many responses, each default-constructed (code SUCCESS).
Response(i) == "responses" \o ToString(i)
ResponseFields(i) ==
  Under(Response(i) \o ".metadata", MetadataMarshal)
    \o Under(Response(i) \o ".data_entry", DataEntryMarshal)

BatchLoadResponseMarshal(v) ==
  <<<<"count", "u64">>>> \o FlattenSeq([i \in 1..v["count"] |-> ResponseFields(i)])
    \o CodeMarshal

BatchLoadResponseUnmarshal(b) ==
  LET c == GetField(b, "u64")
      l == [i \in 1..c.val |->
              Under(Response(i) \o ".metadata", MetadataUnmarshal)
                \o Under(Response(i) \o ".data_entry", DataEntryUnmarshal)]
  IN IF ~c.ok \/ c.val = Garbage THEN Fail(b)
     ELSE GetFields(c.buf, FlattenSeq(l) \o CodeUnmarshal, "count" :> c.val)

-----------------------------------------------------------------------------
(* The values checked: every field takes one of two values of its type.    *)
Lo == [str |-> <<>>, i32 |-> -1, u64 |-> 0, b8 |-> 0]
Hi == [str |-> <<97>>, i32 |-> 2, u64 |-> 5, b8 |-> 1]

NoFields == [f \in {} |-> 0]

RECURSIVE Values(_)
Values(l) ==
  IF l = <<>> THEN {NoFields}
  ELSE {(Head(l)[1] :> x) @@ r : x \in {Lo[Head(l)[2]], Hi[Head(l)[2]]}, r \in Values(Tail(l))}

\* The value with every field of a layout at its low (or high) value.
Pick(l, hi) == FoldSeq(LAMBDA p, acc : (p[1] :> IF hi THEN Hi[p[2]] ELSE Lo[p[2]]) @@ acc,
                       NoFields, l)

\* Batch-load responses: up to MaxResponses responses, each all low or all
\* high (the fields of one response are varied by the LOAD response).
BatchValues ==
  {("count" :> Len(s)) @@ ("code" :> c)
     @@ FoldSeq(LAMBDA p, acc : p @@ acc, NoFields,
                [i \in DOMAIN s |-> Pick(ResponseFields(i), s[i])]) :
     s \in UNION {[1..n -> BOOLEAN] : n \in 0..MaxResponses}, c \in {Lo.i32, Hi.i32}}

\* The bytes one side marshals are read back by the other side's Unmarshal
\* as the same value, to the last byte, and no Add wrote past size_.
Decodes(b, r, v) == b.fits /\ r.ok /\ r.val = v /\ r.buf.offset = Len(b.data)

RoundTripOf(ml, ul) ==
  \A v \in Values(ml) :
    LET b == PutFields(NewBuffer, ml, v) IN Decodes(b, GetFields(b, ul, NoFields), v)

(* Every request and response that RdmaCommunicator::Write sends is read   *)
(* back by the receiver's Unmarshal (api.cpp) field for field, and its     *)
(* Adds stay inside the buffer Buffer::Add grows: the sessions may treat a *)
(* frame as the message it carries.                                        *)
RoundTrip ==
  /\ RoundTripOf(BackupRequestMarshal, BackupRequestUnmarshal)
  /\ RoundTripOf(CodeMarshal, CodeUnmarshal)
  /\ RoundTripOf(LoadRequestMarshal, LoadRequestUnmarshal)
  /\ RoundTripOf(LoadResponseMarshal, LoadResponseUnmarshal)
  /\ RoundTripOf(BatchLoadRequestMarshal, BatchLoadRequestUnmarshal)
  /\ \A v \in BatchValues :
       LET b == PutFields(NewBuffer, BatchLoadResponseMarshal(v), v)
       IN Decodes(b, BatchLoadResponseUnmarshal(b), v)

=============================================================================
