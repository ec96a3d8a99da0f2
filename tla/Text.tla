-------------------------------- MODULE Text --------------------------------
(***************************************************************************)
(* Payloads, results and secrets as the detection engine sees them.  A     *)
(* text is a sequence of opaque atoms; an atom stands for a run of bytes   *)
(* that the properties never need to split.  A secret is a text of one or  *)
(* more atoms, so a secret that is cut in two by pagination or by several  *)
(* writes is a secret whose atoms travel in different texts.               *)
(*                                                                         *)
(* Encodings: engine/encoding.go and engine/decode.go reduce the canonical *)
(* encodings of a value to the value itself, so an encoded secret is       *)
(* represented by the same atoms as the literal one.                       *)
(***************************************************************************)
EXTENDS Naturals, Sequences, SequencesExt

(* strings.Contains: `needle` occurs contiguously in `hay`.                *)
HasText(hay, needle) ==
  /\ needle # <<>>
  /\ \E i \in 1..(Len(hay) - Len(needle) + 1) :
        SubSeq(hay, i, i + Len(needle) - 1) = needle

(* sharedSubstringAtLeast: some window of n atoms of a occurs in b.        *)
SharesText(a, b, n) ==
  \E i \in 1..(Len(a) - n + 1) : HasText(b, SubSeq(a, i, i + n - 1))

(* strings.Join(chunks, "") and the byte count of a list of chunks.        *)
Join(chunks) == FlattenSeq(chunks)
Bytes(chunks) == Len(FlattenSeq(chunks))

(* The chunks left after the first k are dropped.                          *)
DropHead(chunks, k) == SubSeq(chunks, k + 1, Len(chunks))

(* The last n atoms of an oversized chunk.                                 *)
TrailingWindow(chunk, n) ==
  IF Len(chunk) > n THEN SubSeq(chunk, Len(chunk) - n + 1, Len(chunk)) ELSE chunk

(* appendFragment / appendFlow: append a chunk to a rolling FIFO, then     *)
(* drop from the head until both the chunk cap and the byte cap hold.      *)
PushChunk(chunks, chunk, maxChunks, maxBytes) ==
  LET all     == Append(chunks, TrailingWindow(chunk, maxBytes))
      fits(k) == /\ Len(all) - k <= maxChunks
                 /\ Bytes(DropHead(all, k)) <= maxBytes
      drop    == CHOOSE k \in 0..Len(all) :
                    /\ fits(k)
                    /\ \A j \in 0..Len(all) : j < k => ~fits(j)
  IN  DropHead(all, drop)
=============================================================================
