----------------------------- MODULE FileWindow -----------------------------
(* fs.read (core/src/sandbox/fs_read.rs): a call written in one of its forms   *)
(* becomes a request, and the request reads a range of lines or bytes of a     *)
(* file that a host process may grow or shrink meanwhile.  A byte is copied at *)
(* a time; the limits of a Luau buffer and string are constants.               *)
EXTENDS Integers, Sequences, FiniteSetsExt, Functions
Seqs == INSTANCE SequencesExt

CONSTANTS
  Contents,      \* what files hold: sequences of "a", "b", "n" (newline) and "x" (not UTF-8)
  Numbers,       \* the offsets and lengths asked for, in halves: 3 is written 1.5
  BufferLimit,   \* LUAU_BUFFER_MAX_BYTES
  MaxEdits       \* host edits during one read

VARIABLES
  meant,    \* the call: its form, the kind of file, and what it asks for
  stage,    \* how far the call is
  request,  \* the ReadRequest
  content,  \* of the file, now
  seen,     \* the contents it had since it was opened
  edits,    \* how the host changed it since
  selected, \* bytes to copy
  got,      \* bytes copied
  result
reading == <<meant, stage, request, content, seen, edits, selected, got, result>>

\* Optional values are sequences of length at most one.
Some(v) == <<v>>
None == <<>>
Or(option, default) == IF option = None THEN default ELSE option[1]

NoLimit == 1000
ASSUME ContentsAssumption ==
  \A text \in Contents : text \in Seq({"a", "b", "n", "x"}) /\ Len(text) < NoLimit
ASSUME NumbersAssumption == Numbers \subseteq Int /\ BufferLimit \in Nat

Base64Limit == (BufferLimit \div 4) * 3
mode_input_limit(mode) ==
  CASE mode = "text" -> NoLimit [] mode = "buffer" -> BufferLimit [] mode = "base64" -> Base64Limit
ensure_mode_input_size(mode, size) == size <= mode_input_limit(mode)

--------------------------------------------------------------------------------
(* Parsing: tables are functions from the keys that are not nil *)

Get(table, key) == IF key \in DOMAIN table THEN Some(table[key]) ELSE None
\* Mutant: options are read by their names only.
table_value_NamesOnly(table, name, index) == Get(table, name)
table_value(table, name, index) == IF name \in DOMAIN table THEN Get(table, name) ELSE Get(table, index)

Error(why) == [error |-> why]
IsError(r) == "error" \in DOMAIN r

\* Negative numbers are the first line, fractions are cut off.
parse_line_range(value) == IF value = None THEN None ELSE Some(Max({0, value[1]}) \div 2)
\* Bytes are counted in integers that are not negative.
BadBytes(value) == value # None /\ (value[1] < 0 \/ value[1] % 2 = 1)
parse_byte_range(value) == IF value = None THEN None ELSE Some(value[1] \div 2)

ReadRequest(mode, offset, length) == [mode |-> mode, offset |-> offset, length |-> length]
from_legacy_args(offset, limit) == ReadRequest("text", parse_line_range(offset), parse_line_range(limit))

validate_option_keys(options, combined) ==
  DOMAIN options \subseteq {"offset", "limit", "count", "mode", "2", "3"}
                           \cup (IF combined THEN {"path", "1"} ELSE {})
validate_wrapper_keys(wrapper) == DOMAIN wrapper \subseteq {"path", "opts", "1", "2"}
parse_mode(options) == IF "mode" \in DOMAIN options THEN options["mode"] ELSE "text"

from_options(options, combined) ==
  LET mode == parse_mode(options)
      offset == table_value(options, "offset", "2")
      limit == table_value(options, "limit", "3")
      count == table_value(options, "count", "3") IN
  IF \/ ~validate_option_keys(options, combined) \/ mode \notin {"text", "buffer", "base64"}
     \/ (IF mode = "text" THEN "count" ELSE "limit") \in DOMAIN options
  THEN Error("unknown option")
  ELSE IF mode = "text" THEN from_legacy_args(offset, limit)
  ELSE IF BadBytes(offset) \/ BadBytes(count) THEN Error("not a byte range")
  ELSE ReadRequest(mode, parse_byte_range(offset), parse_byte_range(count))

\* A table of one key, or of none; and a table besides another
Key(key, value) == [k \in IF value = None THEN {} ELSE {key} |-> value[1]]
f ++ g == [k \in DOMAIN f \cup DOMAIN g |-> IF k \in DOMAIN f THEN f[k] ELSE g[k]]

\* The forms of a call.  A table argument that has a table for opts is a wrapper,
\* another is path and options in one.
parse(way, offset, length, mode) ==
  LET lengthKey == IF mode = "text" THEN "limit" ELSE "count"
      named == Key("offset", offset) ++ Key(lengthKey, length) ++ Key("mode", Some(mode))
      counted == Key("2", offset) ++ Key("3", length) ++ Key("mode", Some(mode))
      path == Key("path", Some("file")) IN
  CASE way = "legacy" -> from_legacy_args(offset, length)
    [] way = "options" -> from_options(named, FALSE)
    [] way = "counted options" -> from_options(counted, FALSE)
    [] way = "wrapper" ->
         IF validate_wrapper_keys(path ++ Key("opts", Some(named))) THEN from_options(named, FALSE)
                                                                    ELSE Error("unknown argument")
    [] way = "combined" -> from_options(path ++ named, TRUE)
    [] way = "counted" -> from_options(Key("1", Some("file")) ++ counted, TRUE)
    [] way = "path in options" -> from_options(path ++ named, FALSE)
    [] way = "other length" ->
         from_options(named ++ Key(IF mode = "text" THEN "count" ELSE "limit", Some(2)), FALSE)

--------------------------------------------------------------------------------
(* Slices *)

\* The elements of a set of numbers in their order
Nth(positions) ==
  [k \in 1..Cardinality(positions) |-> CHOOSE p \in positions : Cardinality({q \in positions : q <= p}) = k]
Newlines(text) == {i \in DOMAIN text : text[i] = "n"}
\* str::lines: a newline ends a line, and text after the last one is a line.
Stops(text) == Newlines(text) \cup (IF text # <<>> /\ Seqs!Last(text) # "n" THEN {Len(text) + 1} ELSE {})
lines(text) ==
  LET stops == Nth(Stops(text)) IN
  [i \in DOMAIN stops |-> SubSeq(text, IF i = 1 THEN 1 ELSE stops[i - 1] + 1, stops[i] - 1)]
Join(ls) == Seqs!FlattenSeq([i \in DOMAIN ls |-> IF i = 1 THEN ls[i] ELSE <<"n">> \o ls[i]])

slice_lines(text, offset, limit) ==
  LET all == lines(text)
      start == Max({0, Or(offset, 0) - 1})
      end == IF limit = None THEN Len(all) ELSE Min({start + limit[1], Len(all)}) IN
  CASE offset = None /\ limit = None -> text
    [] OTHER -> IF start >= Len(all) \/ limit = Some(0) THEN <<>>
                ELSE Join(SubSeq(all, start + 1, end))
                     \o (IF limit = None /\ Seqs!Last(text) = "n" THEN <<"n">> ELSE <<>>)

slice_bytes(bytes, offset, count) ==
  LET start == Min({Or(offset, 0), Len(bytes)}) IN
  SubSeq(bytes, start + 1, Min({start + Or(count, NoLimit), Len(bytes)}))

\* The Luau value; base64 is one text per sequence of bytes.
to_lua(bytes) ==
  IF ~ensure_mode_input_size(request.mode, Len(bytes)) THEN Error("too large")
  ELSE IF request.mode # "text" THEN [value |-> bytes]
  ELSE IF "x" \in Range(bytes) THEN Error("not UTF-8")
  ELSE [value |-> slice_lines(bytes, request.offset, request.length)]

--------------------------------------------------------------------------------
NoResult == [none |-> TRUE]
Ways == {"legacy", "options", "counted options", "wrapper", "combined", "counted",
         "path in options", "other length"}

ReadInit ==
  /\ meant \in [way : Ways, kind : {"regular", "dynamic", "synthetic"}, mode : {"text", "buffer", "base64"},
                offset : {None} \cup {Some(n) : n \in Numbers}, length : {None} \cup {Some(n) : n \in Numbers}]
  /\ meant.way = "legacy" => meant.mode = "text"
  /\ content \in Contents
  /\ stage = "written" /\ request = NoResult /\ seen = {} /\ edits = {}
  /\ selected = 0 /\ got = <<>> /\ result = NoResult

Return(r) == result' = r /\ stage' = "done"
Offset == Or(request.offset, 0)
\* What fs::metadata says of the length: files such as those of /proc say 0.
ReportedLen == IF meant.kind = "dynamic" THEN 0 ELSE Len(content)

Parse ==
  /\ stage = "written"
  /\ request' = parse(meant.way, meant.offset, meant.length, meant.mode)
  /\ IF IsError(request') THEN Return(request') ELSE stage' = "parsed" /\ UNCHANGED result
  /\ UNCHANGED <<meant, content, seen, edits, selected, got>>

synthetic_value ==
  /\ stage = "parsed" /\ meant.kind = "synthetic"
  /\ Return(to_lua(IF request.mode = "text" THEN content
                   ELSE slice_bytes(content, request.offset, request.length)))
  /\ UNCHANGED <<meant, request, content, seen, edits, selected, got>>

\* A byte range beyond the length that the metadata tells is empty.
BeyondEnd == request.mode # "text" /\ Offset # 0 /\ Offset >= ReportedLen
Available == Min({Or(request.length, NoLimit), Max({0, ReportedLen - Offset})})
\* A buffer of a file of known length is made before it is filled.
Presized == request.mode = "buffer" /\ selected # NoLimit
ReadLimit ==
  IF request.mode = "text" THEN NoLimit
  ELSE Min({Or(request.length, NoLimit), mode_input_limit(request.mode) + 1})

Open ==
  /\ stage = "parsed" /\ meant.kind # "synthetic"
  /\ seen' = {content}
  /\ CASE BeyondEnd -> Return([value |-> <<>>]) /\ UNCHANGED selected
       [] ~BeyondEnd /\ ReportedLen > 0 /\ ~ensure_mode_input_size(request.mode,
                                              IF request.mode = "text" THEN 0 ELSE Available) ->
            Return(Error("too large")) /\ UNCHANGED selected
       [] OTHER -> /\ selected' = IF request.mode = "buffer" /\ ReportedLen > 0 THEN Available ELSE NoLimit
                   /\ stage' = "copying" /\ UNCHANGED result
  /\ UNCHANGED <<meant, request, content, edits, got>>

AtEnd == (IF request.mode = "text" THEN 0 ELSE Offset) + Len(got) >= Len(content)
NextByte == content[(IF request.mode = "text" THEN 0 ELSE Offset) + Len(got) + 1]
Enough == Len(got) = (IF Presized THEN selected ELSE ReadLimit)

CopyByte ==
  /\ stage = "copying" /\ ~Enough /\ ~AtEnd
  /\ got' = Append(got, NextByte)
  /\ UNCHANGED <<meant, stage, request, content, seen, edits, selected, result>>

\* Mutant: a buffer that was not filled is returned.
ensure_complete_copy_Unchecked == TRUE
\* The whole buffer was filled; unless fewer bytes were asked for, the file must end here.
ensure_complete_copy == Len(got) = selected
Probed == Or(request.length, NoLimit) > selected

Copied ==
  /\ stage = "copying" /\ (Enough \/ AtEnd)
  /\ CASE Presized /\ ~ensure_complete_copy -> Return(Error("file changed"))
       [] Presized /\ ensure_complete_copy /\ Probed -> stage' = "probing" /\ UNCHANGED result
       [] OTHER -> Return(to_lua(got))
  /\ UNCHANGED <<meant, request, content, seen, edits, selected, got>>

Probe ==
  /\ stage = "probing"
  /\ Return(IF AtEnd THEN [value |-> got] ELSE Error("file changed"))
  /\ UNCHANGED <<meant, request, content, seen, edits, selected, got>>

\* Another process of the host appends to the file, or truncates it.
HostEdits ==
  /\ stage \in {"copying", "probing"} /\ meant.kind = "regular"
  /\ \E new \in Contents :
       /\ \/ Seqs!IsStrictPrefix(content, new) /\ edits' = edits \cup {"grew"}
          \/ Seqs!IsStrictPrefix(new, content) /\ edits' = edits \cup {"shrank"}
       /\ Cardinality(seen) <= MaxEdits
       /\ content' = new /\ seen' = seen \cup {new}
  /\ UNCHANGED <<meant, stage, request, selected, got, result>>

ReadNext == Parse \/ synthetic_value \/ Open \/ CopyByte \/ Copied \/ Probe \/ HostEdits
ReadSpec == ReadInit /\ [][ReadNext]_reading

--------------------------------------------------------------------------------
Returned == stage = "done" /\ ~IsError(result)

\* What read_host_buffer promises when the host changes the file under it
\* (fs_read.rs, FILE_CHANGED_ERROR): a buffer is the range of one content the file
\* had during the read, unless it both shrank and grew; base64 and text
\* have no such check, and hold it while the file only grows.
WindowOfAVersion ==
  Returned /\ (IF request.mode = "buffer" THEN edits # {"grew", "shrank"} ELSE "shrank" \notin edits) =>
    \E version \in seen \cup (IF seen = {} THEN {content} ELSE {}) :
      result.value =
        IF request.mode = "text" THEN slice_lines(version, request.offset, request.length)
        ELSE slice_bytes(version, IF meant.kind = "dynamic" /\ Offset # 0 THEN Some(NoLimit) ELSE request.offset,
                         request.length)

\* What a call asks for, said without the code: bytes from an offset, or lines from a
\* first one, counting from one.
BadCall == \/ meant.way \in {"path in options", "other length"}
           \/ meant.mode # "text" /\ (BadBytes(meant.offset) \/ BadBytes(meant.length))
WantedLength == IF meant.length = None THEN NoLimit ELSE Max({0, meant.length[1] \div 2})
WantedOffset == IF meant.offset = None THEN 0 ELSE Max({0, meant.offset[1] \div 2})

WantedBytes(bytes, offset, length) == {i \in DOMAIN bytes : i > offset /\ i <= offset + length}
LineOf(text, i) == Cardinality({j \in 1..(i - 1) : text[j] = "n"}) + 1
WantedLines(text, first, length) ==
  {i \in DOMAIN text : LineOf(text, i) >= first /\ LineOf(text, i) < first + length}
Pick(text, positions) == LET nth == Nth(positions) IN [k \in DOMAIN nth |-> text[nth[k]]]
Bare(text, limited) == IF limited /\ text # <<>> /\ Seqs!Last(text) = "n" THEN Seqs!Front(text) ELSE text
WantedRange ==
  IF meant.mode = "text"
  THEN Bare(Pick(content, WantedLines(content, Max({1, WantedOffset}), WantedLength)), meant.length # None)
  ELSE Pick(content, WantedBytes(content, WantedOffset, WantedLength))

\* All forms and modes, of files and of synthetic files, mean the same range
\* (docs/module-api-design.md, fs.read): an undisturbed call returns it, or fails
\* because it was not well-formed, larger than the limit, or no text.
RangeAsAsked ==
  stage = "done" /\ edits = {} =>
    CASE BadCall -> IsError(result)
      [] ~BadCall /\ meant.mode = "text" /\ "x" \in Range(content) -> result = Error("not UTF-8")
      [] ~BadCall /\ meant.kind = "dynamic" /\ meant.mode # "text" /\ WantedOffset > 0 -> result = [value |-> <<>>]
      [] OTHER -> result = IF meant.mode # "text" /\ Len(WantedRange) > mode_input_limit(meant.mode)
                           THEN Error("too large") ELSE [value |-> WantedRange]

\* What a read returns is what was asked for, of one content the file had, in every form and
\* mode, and whatever another process does to the file (fs_read.rs).
ReadsAsAsked == WindowOfAVersion /\ RangeAsAsked
=============================================================================
