------------------------------- MODULE Memcpy -------------------------------
(***************************************************************************)
(* transom_memcpy (src/transomSnapshot/transom_memcpy/transom_memcpy.cpp), *)
(* the helper a training process calls to write a checkpoint into the      *)
(* memfd region createMetadata allocated for it.                           *)
(*                                                                         *)
(* The region is the metadata, then for every tensor its size (a size_t)   *)
(* and its bytes.  The function starts one std::thread per memcpy and       *)
(* joins them all at the end: the metadata, each tensor's size field, and  *)
(* the tensor's bytes, split over four threads plus one for the remainder  *)
(* when the tensors are in host memory, or, when the last tensor is on the *)
(* GPU, over two threads that stage BUFFER_SIZE chunks through pinned      *)
(* buffers while the calling thread copies the remainder.                  *)
(*                                                                         *)
(* A copy is what one memcpy writes: dst is its first byte in the region,  *)
(* and it takes len bytes of one source (the metadata, the size field of   *)
(* tensor t, or the bytes of tensor t) from position src on.  Every thread *)
(* runs to completion before join returns, so the region after the joins  *)
(* is the union of the copies, whatever their order, provided no two of    *)
(* them write the same byte.  Sizes are in model bytes: BufferSize stands  *)
(* for BUFFER_SIZE and SizeT for sizeof(size_t).                           *)
(***************************************************************************)
EXTENDS Naturals, Sequences, FiniteSets, SequencesExt

CONSTANTS
  BufferSize,   \* BUFFER_SIZE (512 KiB)
  SizeT,        \* sizeof(size_t)
  MaxMeta,      \* bound on metadata_size
  MaxBytes,     \* bound on a tensor's nBytes
  MaxTensors    \* bound on tensor_numbers

\* BUFFER_NUMS, and num_threads of the host branch.
BufferNums == 2
HostThreads == 4

CopyOf(dst, kind, t, src, len) == [dst |-> dst, kind |-> kind, t |-> t, src |-> src, len |-> len]

\* Mutant: the remainder thread is not started.
HostCopiesNoRemainder(base, i, n) ==
  LET per == n \div HostThreads IN
  [j \in 1..HostThreads |-> CopyOf(base + per * (j - 1), "data", i, per * (j - 1), per)]

\* Host branch: four threads of nBytes / 4 bytes each, and one thread for
\* the nBytes % 4 bytes after them.
HostCopies(base, i, n) ==
  LET per == n \div HostThreads IN
  [j \in 1..HostThreads |-> CopyOf(base + per * (j - 1), "data", i, per * (j - 1), per)]
    \o <<CopyOf(base + per * HostThreads, "data", i, per * HostThreads, n % HostThreads)>>

\* Mutant: t1 starts at the tensor's first chunk in the region as well.
DeviceCopiesSameDest(base, i, n) ==
  LET sn == n \div BufferSize
      half == sn \div BufferNums
      Chunks(from) ==
        [j \in 1..half |-> CopyOf(base + BufferSize * (j - 1), "data", i,
                                  from + BufferSize * (j - 1), BufferSize)]
  IN Chunks(0) \o Chunks(half * BufferSize)
       \o <<CopyOf(base + sn * BufferSize, "data", i, sn * BufferSize, n % BufferSize)>>

\* GPU branch: shared_nums = nBytes / BUFFER_SIZE chunks; t0 copies chunks
\* j < shared_nums / BUFFER_NUMS from the start of the tensor, t1 as many
\* from shared_nums / BUFFER_NUMS * BUFFER_SIZE on, each one chunk per
\* cudaMemcpy into its pinned buffer and memcpy out; the calling thread
\* copies the shared_remainder bytes from shared_nums * BUFFER_SIZE on.
DeviceCopies(base, i, n) ==
  LET sn == n \div BufferSize
      half == sn \div BufferNums
      Chunks(from) ==
        [j \in 1..half |-> CopyOf(base + from + BufferSize * (j - 1), "data", i,
                                  from + BufferSize * (j - 1), BufferSize)]
  IN Chunks(0) \o Chunks(half * BufferSize)
       \o <<CopyOf(base + sn * BufferSize, "data", i, sn * BufferSize, n % BufferSize)>>

RECURSIVE TensorLoop(_, _, _, _, _)
\* `for (i = 0; i < tensor_numbers; i++)`: the size field at
\* data_start_pos + offset, offset += sizeof(size_t), the tensor's bytes
\* by the branch USE_CUDA chose, offset += nBytes.
TensorLoop(start, ts, i, offset, cuda) ==
  IF i > Len(ts) THEN <<>>
  ELSE LET base == start + offset + SizeT
       IN <<CopyOf(start + offset, "size", i, 0, SizeT)>>
            \o (IF cuda THEN DeviceCopies(base, i, ts[i]) ELSE HostCopies(base, i, ts[i]))
            \o TensorLoop(start, ts, i + 1, offset + SizeT + ts[i], cuda)

\* The copies of one call: the metadata at shm_addr, then the tensors from
\* data_start_pos = shm_addr + metadata_size.  cuda is USE_CUDA, which
\* cudaPointerGetAttributes of the last tensor alone decides.
transom_memcpy(m, ts, cuda) ==
  <<CopyOf(0, "meta", 0, 0, m)>> \o TensorLoop(m, ts, 1, 0, cuda)

-----------------------------------------------------------------------------
(* The reference: the region a reader of the checkpoint expects, byte by   *)
(* byte (position p + 1 of the sequence is byte p of the region).          *)
Image(m, ts) ==
  [k \in 1..m |-> <<"meta", 0, k - 1>>]
    \o FlattenSeq([i \in DOMAIN ts |->
                     [k \in 1..SizeT |-> <<"size", i, k - 1>>]
                       \o [k \in 1..ts[i] |-> <<"data", i, k - 1>>]])

\* The bytes a copy writes, each with the source byte it takes.
Writes(c) == {<<c.dst + k, <<c.kind, c.t, c.src + k>>>> : k \in 0..(c.len - 1)}

\* The calls checked: every metadata size and list of tensor sizes within
\* the bounds, the GPU branch only with at least one tensor.
TensorLists == UNION {[1..k -> 0..MaxBytes] : k \in 0..MaxTensors}

Calls ==
  {<<m, ts, FALSE>> : m \in 0..MaxMeta, ts \in TensorLists}
    \cup {<<m, ts, TRUE>> : m \in 0..MaxMeta, ts \in TensorLists \ {<<>>}}

\* The region after the joins: what the copies wrote, folded over the list.
Region(cs) == FoldSeq(LAMBDA c, acc : Writes(c) \cup acc, {}, cs)

\* No byte is written twice: the lengths of the copies add up to the number
\* of bytes of the region they reach.
RaceFreeIn(cs) ==
  Cardinality({w[1] : w \in Region(cs)}) = FoldSeq(LAMBDA c, n : c.len + n, 0, cs)

ExactIn(cs, img) == Region(cs) = {<<p - 1, img[p]>> : p \in 1..Len(img)}

(* The threads transom_memcpy starts all run at once and are joined only   *)
(* at the end: in either branch, no two of them write the same byte of the *)
(* region, so the region's content does not depend on their interleaving.  *)
CopyRaceFree ==
  \A call \in Calls :
    RaceFreeIn(transom_memcpy(call[1], call[2], call[3]))

(* With host tensors, the joined threads leave in the region exactly the   *)
(* image a reader expects: the metadata, and for each tensor its size      *)
(* field and every one of its bytes, each at its place and nothing beyond. *)
HostImageExact ==
  \A call \in Calls :
    ~call[3] => ExactIn(transom_memcpy(call[1], call[2], FALSE), Image(call[1], call[2]))

(* The same for GPU tensors.  Not checked by a run: with shared_nums odd,  *)
(* chunk shared_nums - 1 is copied by neither t0 nor t1 (see README).      *)
DeviceImageExact ==
  \A call \in Calls :
    call[3] => ExactIn(transom_memcpy(call[1], call[2], TRUE), Image(call[1], call[2]))
=============================================================================
