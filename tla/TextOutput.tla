----------------------------- MODULE TextOutput -----------------------------
(***************************************************************************)
(* What happens to the bytes of a command, of an artifact or of a file on  *)
(* the way into a response: security/limits.py, security/redaction.py and  *)
(* the sanitising of tools/common.py.                                      *)
(*                                                                         *)
(* A text is a sequence of characters.  These are told apart:              *)
(*   "w"   a character of two bytes, "w1" "w2"                             *)
(*   "u"   U+FFFD, three bytes, which stands for bytes that are not UTF-8  *)
(*   "k"   the beginning of a secret, "token=", whose value is what        *)
(*         follows it up to a blank                                        *)
(*   " " and "n"   blanks, the second the end of a line                    *)
(*   "0"   NUL                                                             *)
(*   "m", "l"   characters of "[REDACTED]" and of the label of a root      *)
(* Every other character is itself and, like these, one byte.              *)
(***************************************************************************)
EXTENDS Integers, Ordering

CONSTANTS
    Marker,          \* "[REDACTED]"
    HostRoots,       \* the roots in a text, each with its label, in the order of replacement
    SummarySize,     \* characters of a test's output summary: 1000
    NoCount          \* line_count is None

Blanks == {" ", "n"}

(* A root is an absolute path. *)
ASSUME TextAssumption ==
    /\ Marker \in Seq({"m"})
    /\ HostRoots \in Seq([root: Seq(STRING) \ {<<>>}, label: Seq({"l"})])
    /\ \A i \in DOMAIN HostRoots : Head(HostRoots[i].root) \notin Blanks
    /\ SummarySize \in Nat \ {0}

Size(char) == IF char = "w" THEN 2 ELSE IF char = "u" THEN 3 ELSE 1
Utf8Size(text) ==
    LET size[n \in 0..Len(text)] == IF n = 0 THEN 0 ELSE size[n - 1] + Size(text[n])
    IN size[Len(text)]

Cut(seq, n) == SubSeq(seq, 1, IF n < Len(seq) THEN n ELSE Len(seq))
From(seq, i) == SubSeq(seq, i, Len(seq))

(* A text is rewritten: head[i] takes the place of what is at i, and it goes on at next[i]. *)
Rewritten(head, next) ==
    LET made[i \in 1..(Len(head) + 1)] ==
            IF i > Len(head) THEN <<>> ELSE head[i] \o made[next[i]]
    IN made[1]

-----------------------------------------------------------------------------
(* Decoding.                                                               *)

Halves == {"w1", "w2"}

(* bytes.decode("utf-8", errors="replace") *)
Decode(bytes) ==
    LET whole == {i \in 1..(Len(bytes) - 1) : bytes[i] = "w1" /\ bytes[i + 1] = "w2"}
    IN Rewritten([i \in DOMAIN bytes |-> IF i \in whole THEN <<"w">>
                                         ELSE IF bytes[i] \in Halves THEN <<"u">> ELSE <<bytes[i]>>],
                 [i \in DOMAIN bytes |-> IF i \in whole THEN i + 2 ELSE i + 1])

(* decode_text_bytes raises BinaryFileError. *)
Binary(bytes, sample) == "0" \in ToSet(Cut(bytes, sample)) \/ "u" \in ToSet(Decode(bytes))

-----------------------------------------------------------------------------
(* Redaction.                                                              *)

(* Where the value of a secret that begins at i ends, or i if it has none. *)
ValueEnd(text, i) ==
    LET starts == {j \in (i + 1)..Len(text) :
                      text[j] \notin Blanks /\ \A b \in (i + 1)..(j - 1) : text[b] \in Blanks}
        ends(j) == {e \in j..Len(text) : \A b \in j..e : text[b] \notin Blanks}
    IN IF starts = {} THEN i ELSE Max(UNION {ends(j) : j \in starts})

IsSecret(text, i) == text[i] = "k" /\ ValueEnd(text, i) > i

ShowsSecret(text) == \E i \in DOMAIN text : IsSecret(text, i)

(* Mutant: blanks between the beginning of a secret and its value are not skipped. *)
RedactAdjacent(patterns, text) ==
    LET secret == {i \in DOMAIN text : IsSecret(text, i) /\ text[i + 1] \notin Blanks}
    IN IF patterns = <<>> THEN text
       ELSE Rewritten([i \in DOMAIN text |-> IF i \in secret THEN Marker ELSE <<text[i]>>],
                      [i \in DOMAIN text |-> IF i \in secret THEN ValueEnd(text, i) + 1 ELSE i + 1])

(* Redactor.redact, with patterns that say what a secret is, or none. *)
Redact(patterns, text) ==
    LET secret == {i \in DOMAIN text : IsSecret(text, i)}
    IN IF patterns = <<>> THEN text
       ELSE Rewritten([i \in DOMAIN text |-> IF i \in secret THEN Marker ELSE <<text[i]>>],
                      [i \in DOMAIN text |-> IF i \in secret THEN ValueEnd(text, i) + 1 ELSE i + 1])

-----------------------------------------------------------------------------
(* Limits.                                                                 *)

(* truncate_text: the longest prefix of whole characters that fits. *)
Truncate(text, max) ==
    IF Utf8Size(text) <= max THEN text
    ELSE Cut(text, Max({n \in 0..Len(text) : Utf8Size(Cut(text, n)) <= max}))

Truncated(text, max) == ~ (Utf8Size(text) <= max)

(* Mutant: what stdout leaves to stderr is counted in characters. *)
OutputPairByLength(stdout, stderr, max) ==
    LET left == max - Len(Truncate(stdout, max))
    IN [stdout |-> Truncate(stdout, max), stderr |-> Truncate(stderr, left),
        stdout_truncated |-> Truncated(stdout, max), stderr_truncated |-> Truncated(stderr, left)]

(* truncate_output_pair: one budget; a stderr that no byte is left for is cut. *)
OutputPair(stdout, stderr, max) ==
    LET left == max - Utf8Size(Truncate(stdout, max))
    IN [stdout |-> Truncate(stdout, max), stderr |-> Truncate(stderr, left),
        stdout_truncated |-> Truncated(stdout, max), stderr_truncated |-> Truncated(stderr, left)]

-----------------------------------------------------------------------------
(* Responses.                                                              *)

(* text.replace(old, new) *)
Replace(text, old, new) ==
    LET found == {i \in DOMAIN text : IsPrefix(old, From(text, i))}
    IN Rewritten([i \in DOMAIN text |-> IF i \in found THEN new ELSE <<text[i]>>],
                 [i \in DOMAIN text |-> IF i \in found THEN i + Len(old) ELSE i + 1])

(* sanitize_message: redacted, and then one root after the other replaced by its label. *)
Sanitise(patterns, text) ==
    LET labelled[n \in 0..Len(HostRoots)] ==
            IF n = 0 THEN Redact(patterns, text)
            ELSE Replace(labelled[n - 1], HostRoots[n].root, HostRoots[n].label)
    IN labelled[Len(HostRoots)]

(* str.strip() *)
StripText(text) ==
    LET solid == {i \in DOMAIN text : text[i] \notin Blanks}
    IN IF solid = {} THEN <<>> ELSE SubSeq(text, Min(solid), Max(solid))

(* _summarize_output *)
Summary(stdout, stderr) ==
    LET out == StripText(stdout)
        err == StripText(stderr)
    IN Cut(IF out = <<>> THEN err ELSE IF err = <<>> THEN out ELSE out \o <<"n">> \o err, SummarySize)

(* content.splitlines(keepends=True), by the positions at which a line ends. *)
Lines(text) ==
    LET last == {i \in DOMAIN text : text[i] = "n" \/ i = Len(text)}
        ends == Sorted(last, Ascending(last))
    IN [i \in DOMAIN ends |-> SubSeq(text, IF i = 1 THEN 1 ELSE ends[i - 1] + 1, ends[i])]

(* Mutant: the first line of a slice is left out. *)
SliceAfter(lines, start, count) ==
    IF count = NoCount THEN From(lines, start + 1) ELSE Cut(From(lines, start + 1), count)

(* lines[start - 1 : start - 1 + count] *)
Slice(lines, start, count) ==
    IF count = NoCount THEN From(lines, start) ELSE Cut(From(lines, start), count)
=============================================================================
