--------------------------- MODULE CtfFileHandler ---------------------------
(***************************************************************************)
(* CtfFileHandler of src/west/west-zpl.py: the capture commands give it    *)
(* the stream of the board chunk by chunk, and it writes what follows each *)
(* start tag to a file of its own.  A chunk is whatever the port had when  *)
(* it was read, one byte or more, so a tag may be cut anywhere and more    *)
(* than once; the handler holds back one chunk, the sliding window.        *)
(***************************************************************************)
EXTENDS TraceStream, FiniteSets

CONSTANTS
  Bytes,     \* the bytes of the stream
  MaxChunk,  \* bound: the length of a chunk
  MaxLen     \* bound: the length of the stream

ASSUME ChunkAssumption == Bytes \subseteq Nat /\ MaxChunk \in Nat \ {0} /\ MaxLen \in Nat

VARIABLES
  expect_start_tag,  \* false with --no-expect-start-tag
  sent,      \* history: all bytes the handler was given so far
  ends,      \* history: where the chunks end in it
  window,    \* sliding_window_chunk_buffer
  files,     \* the files written; the last one is current_output_path
  taken,     \* history: where the tags lie in sent at which files were begun
  start_tag_found,
  outcome    \* of close(): "open" before it, then "ok" or "ValueError"

fileVars == <<expect_start_tag, sent, ends, window, files, taken, start_tag_found, outcome>>

\* file_number is one less than the number of files
NoFiles == IF expect_start_tag THEN <<>> ELSE <<(<<>>)>>

FileTypeOK ==
  /\ sent \in Seq(Bytes) /\ window \in Seq(Bytes) /\ files \in Seq(Seq(Bytes))
  /\ Len(sent) <= MaxLen /\ IsSuffix(window, sent) /\ ends \subseteq 1..Len(sent)
  /\ Len(files) = Len(NoFiles) + Len(taken)
  /\ start_tag_found <=> taken # <<>>
  /\ expect_start_tag \in BOOLEAN /\ start_tag_found \in BOOLEAN
  /\ outcome \in {"open", "ok", "ValueError"}

FileInit ==
  /\ expect_start_tag \in BOOLEAN
  /\ sent = <<>> /\ ends = {} /\ window = <<>> /\ files = NoFiles /\ taken = <<>>
  /\ start_tag_found = FALSE /\ outcome = "open"

\* data goes to the current file, if there is one
Written(fs, data) ==
  IF fs = <<>> THEN fs ELSE [fs EXCEPT ![Len(fs)] = @ \o data]

WithIntegralNoOld(fs, chunk) ==                \* mutant: the old file's part is dropped
  IF HasTag(chunk) THEN Append(fs, AfterTag(chunk)) ELSE Written(fs, chunk)

WithIntegralTagInside(fs, chunk) ==            \* mutant: index 0 is taken for "not found"
  IF HasTag(chunk) /\ TagIndex(chunk) > 0
  THEN Append(Written(fs, BeforeTag(chunk)), AfterTag(chunk))
  ELSE Written(fs, chunk)

\* _save_integral_chunk: at a tag the old file is completed and a new one begun
WithIntegral(fs, chunk) ==
  IF HasTag(chunk)
  THEN Append(Written(fs, BeforeTag(chunk)), AfterTag(chunk))
  ELSE Written(fs, chunk)

\* The bytes of the stream before the window
Before == Len(sent) - Len(window)

SaveIntegral(chunk) ==
  /\ files' = WithIntegral(files, chunk)
  /\ start_tag_found' = (start_tag_found \/ HasTag(chunk))
  /\ taken' = IF HasTag(chunk) THEN Append(taken, Before + TagIndex(chunk) + 1) ELSE taken

WindowTooShort(w) == Len(w) < TagLen - 1

\* the tag lies across the boundary of the window and the chunk
TagIsCutIgnored(w, chunk) == FALSE             \* mutant
TagIsCut(w, chunk) == ~HasTag(w) /\ ~HasTag(chunk) /\ HasTag(w \o chunk)

\* Empty chunks are ignored, and not modelled.
SaveChunk(chunk) ==
  /\ outcome = "open"
  /\ sent' = sent \o chunk
  /\ ends' = ends \union {Len(sent')}
  /\ LET joined == window \o chunk IN
     \/ /\ WindowTooShort(window)
        /\ window' = joined
        /\ UNCHANGED <<files, start_tag_found, taken>>
     \/ /\ ~WindowTooShort(window) /\ TagIsCut(window, chunk)
        /\ SaveIntegral(BeforeTag(joined))
        /\ window' = Drop(joined, TagIndex(joined))
     \/ /\ ~WindowTooShort(window) /\ ~TagIsCut(window, chunk)
        /\ SaveIntegral(window)
        /\ window' = chunk
  /\ UNCHANGED <<expect_start_tag, outcome>>

CloseForgetsWindow ==                          \* mutant: the window is not flushed
  /\ outcome = "open"
  /\ outcome' = IF expect_start_tag /\ ~start_tag_found THEN "ValueError" ELSE "ok"
  /\ UNCHANGED <<expect_start_tag, sent, ends, window, files, taken, start_tag_found>>

\* close: the window is saved as well; no tag at all is an error if one is expected
Close ==
  /\ outcome = "open"
  /\ SaveIntegral(window)
  /\ outcome' = IF expect_start_tag /\ ~start_tag_found' THEN "ValueError" ELSE "ok"
  /\ UNCHANGED <<expect_start_tag, sent, ends, window>>

\* What read_all may return
Chunks == UNION {[1..n -> Bytes] : n \in 1..MaxChunk}

FileNext ==
  \/ \E chunk \in Chunks : Len(sent) + Len(chunk) <= MaxLen /\ SaveChunk(chunk)
  \/ Close

FileSpec == FileInit /\ [][FileNext]_fileVars

----------------------------------------------------------------------------
\* The bytes that have left the window, and how the tags taken divide them
Saved == IF outcome = "open" THEN FirstBytes(sent, Before) ELSE sent
Piece(n) ==
  SubSeq(Saved, IF n = 0 THEN 1 ELSE taken[n] + TagLen,
                IF n = Len(taken) THEN Len(Saved) ELSE taken[n + 1] - 1)

\* Whatever the chunks and the tags, and also when the capture is killed: the bytes that have
\* left the window are in the files, each byte once, in order, and in the file of the last tag
\* taken before it; all that is left out are whole tags and, if a tag is expected, what comes
\* before the first (west-zpl.py:65-156).
EveryByteOnce ==
  /\ \A n \in 1..Len(taken) :
       /\ taken[n] \in TagsIn(Saved)
       /\ n > 1 => taken[n - 1] + TagLen <= taken[n]
  /\ \A n \in 1..Len(files) : files[n] = Piece(n - Len(NoFiles))

\* The tag at t is cut by two chunk boundaries.
CutTwice(t) == \E e, f \in ends : t <= e /\ e < f /\ f < t + TagLen - 1

\* Another tag is so near that the window and a chunk may hold parts of both.
Reach == TagLen + MaxChunk - 2
Crowded(t) == \E u \in TagsIn(sent) \ {t} : u - t \in -Reach..Reach

Taken(t) == \E n \in 1..Len(taken) : taken[n] = t

\* A finished capture has begun a file at every tag, also at one that lies across a chunk
\* boundary or was still in the window at the end.  It may miss a tag only for two reasons: the
\* tag is cut twice, and its beginning is saved before its end has come; or another one is so
\* near that the same window or chunk hides it (west-zpl.py:120-156).
BootsSeparated ==
  outcome # "open" => \A t \in TagsIn(sent) : Taken(t) \/ CutTwice(t) \/ Crowded(t)

\* The docstring of save_chunk: tags may be split between multiple pieces (west-zpl.py:108), and
\* the comment before it saves the window: "no tag is split between chunks" (136).
SplitTagsFound ==
  outcome # "open" => \A t \in TagsIn(sent) : Taken(t) \/ Crowded(t)

\* close() does not raise the error although there was a tag, unless every tag was cut twice,
\* and does raise it when there was none (west-zpl.py:142-156).
ErrorIffNoTag ==
  outcome # "open" /\ expect_start_tag =>
    /\ outcome = "ValueError" => \A t \in TagsIn(sent) : CutTwice(t)
    /\ TagsIn(sent) = {} => outcome = "ValueError"
=============================================================================
