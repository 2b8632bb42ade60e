--------------------------------- MODULE Wav ---------------------------------
(***************************************************************************)
(* The WAV writer of the noise detection (pa_write_wav.cpp): a header with *)
(* two sizes left at zero, the samples, and the sizes patched in when the  *)
(* file is closed.  A file is the sequence of its bytes.                   *)
(*                                                                         *)
(* Appended_CountsSamples is a plausible bug.                              *)
(***************************************************************************)
EXTENDS Naturals, Sequences

(* Least significant byte first; an unsigned int has four, a short two.    *)
LongLE(data) == <<data % 256, (data \div 256) % 256,
                  (data \div 65536) % 256, (data \div 16777216) % 256>>
ShortLE(data) == <<data % 256, (data \div 256) % 256>>

ChunkType == [RIFF |-> <<82, 73, 70, 70>>, WAVE |-> <<87, 65, 86, 69>>,
              FMT |-> <<102, 109, 116, 32>>, DATA |-> <<100, 97, 116, 97>>]

HeaderSize == 4 + 4 + 4 + 4 + 4 + 16 + 4 + 4

(* The writer: its bytes, the count it keeps of the samples' bytes, and    *)
(* where in the file that count belongs.                                   *)
OpenWriter(frameRate, samplesPerFrame) ==
    LET head == ChunkType.RIFF \o LongLE(0) \o ChunkType.WAVE
                \o ChunkType.FMT \o LongLE(16) \o ShortLE(1)
                \o ShortLE(samplesPerFrame) \o LongLE(frameRate)
                \o LongLE(frameRate * samplesPerFrame * 2)
                \o ShortLE(samplesPerFrame * 2) \o ShortLE(16)
                \o ChunkType.DATA
    IN  [bytes |-> head \o LongLE(0), dataSize |-> 0,
         dataSizeOffset |-> Len(head)]

Shorts(samples) ==
    [i \in 1..2 * Len(samples) |->
        ShortLE(samples[(i + 1) \div 2])[IF i % 2 = 1 THEN 1 ELSE 2]]

Appended_CountsSamples(writer, samples) ==
    [writer EXCEPT !.bytes = @ \o Shorts(samples),
                   !.dataSize = @ + Len(samples)]

Appended(writer, samples) ==
    [writer EXCEPT !.bytes = @ \o Shorts(samples),
                   !.dataSize = @ + 2 * Len(samples)]

Patched(bytes, offset, field) ==
    [i \in DOMAIN bytes |->
        IF i - offset \in DOMAIN field THEN field[i - offset] ELSE bytes[i]]

CloseWriter(writer) ==
    Patched(Patched(writer.bytes, writer.dataSizeOffset,
                    LongLE(writer.dataSize)),
            4, LongLE(writer.dataSize + HeaderSize - 8))

(* generateAudioFile: the block that was too loud, and those that follow,  *)
(* at 44100 samples a second on one channel.  The module exits when a call *)
(* fails, so that a file it announces is complete.                         *)
Recording(blocks) ==
    LET writer[i \in 0..Len(blocks)] ==
            IF i = 0 THEN OpenWriter(44100, 1)
            ELSE Appended(writer[i - 1], blocks[i])
    IN  CloseWriter(writer[Len(blocks)])
=============================================================================
