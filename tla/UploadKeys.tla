------------------------------ MODULE UploadKeys ------------------------------
(***************************************************************************)
(* How an upload finds its way back to its video by the name of an object: *)
(* the key create_video derives from a filename, the notification that     *)
(* quotes it, the pattern that reads the video's ID out of it, and the     *)
(* shim's comparison with the row (common/queue/s3_events.py,              *)
(* worker/sqs_shim.py).                                                    *)
(*                                                                         *)
(* A key is its video's ID and its tail, what follows "original"; one      *)
(* character stands for each class the code tells apart.                   *)
(***************************************************************************)
EXTENDS Naturals, Sequences

CONSTANTS
    Videos,     \* the IDs a key may hold
    Tails,      \* the tails a key may have: what follows "original"
    None        \* no row, no event, no verdict

\* A letter or digit, and the characters with a part in quoting or in the pattern.
Characters == {"x", ".", "-", "+", " ", "\\", "\n"}

ASSUME TailsAssumption == Tails \subseteq Seq(Characters)
ASSUME NoneAssumption == None \notin Videos /\ None \notin Seq(Characters)

VARIABLES
    suffix,     \* per video with a row: the tail of original_object_key, else None
    event,      \* the quoted key in a message on the queue, or None
    verdict     \* what the shim resolved it to: a video or None

keyVars == <<suffix, event, verdict>>

\* PurePath(filename).suffix: empty, or the last dot and what follows it, which from
\* Python 3.14 on may be nothing.  CreateVideoRequest refuses an empty one only.
Accepted(tail) == {i \in DOMAIN tail : tail[i] = "."} = {1}

\* quote_plus and unquote_plus, character by character.
Quoted == [c \in Characters |->
    CASE c = " " -> "+" [] c = "+" -> "%2B" [] c = "\\" -> "%5C" [] c = "\n" -> "%0A"
      [] OTHER -> c]

Unquoted == [q \in {Quoted[c] : c \in Characters} |->
    CASE q = "+" -> " " [] q = "%2B" -> "+" [] q = "%5C" -> "\\" [] q = "%0A" -> "\n"
      [] OTHER -> q]

Encode(key) == [key EXCEPT !.tail = [i \in DOMAIN @ |-> Quoted[@[i]]]]
Decode(quoted) == [quoted EXCEPT !.tail = [i \in DOMAIN @ |-> Unquoted[@[i]]]]

\* "original(\.[A-Za-z0-9]+)?\\?$"
Extension(tail, n) ==
    n = 0 \/ (n > 1 /\ tail[1] = "." /\ \A i \in 2 .. n : tail[i] = "x")

\* What may follow the extension: "$" also matches before a newline that ends the key.
Ends == {<<>>, <<"\\">>, <<"\n">>, <<"\\", "\n">>}

Recognized(tail) ==
    \E n \in 0 .. Len(tail) :
        Extension(tail, n) /\ SubSeq(tail, n + 1, Len(tail)) \in Ends

\* Mutant of WithoutMark: the key is compared as it is.
MarkKept(tail) == tail

\* removesuffix("\\")
WithoutMark(tail) ==
    IF tail # <<>> /\ tail[Len(tail)] = "\\" THEN SubSeq(tail, 1, Len(tail) - 1) ELSE tail

\* Mutant of Resolved: the pattern alone decides.
ResolvedByPattern(key) == IF Recognized(key.tail) THEN key.video ELSE None

\* _resolve_video_id.
Resolved(key) ==
    IF Recognized(key.tail) /\ suffix[key.video] = WithoutMark(key.tail)
    THEN key.video ELSE None

-------------------------------------------------------------------------------
CreateVideo(v, tail) ==
    /\ suffix[v] = None
    /\ Accepted(tail)
    /\ suffix' = [suffix EXCEPT ![v] = tail]
    /\ UNCHANGED <<event, verdict>>

Announce(v, tail) ==
    /\ event' = Encode([video |-> v, tail |-> tail])
    /\ verdict' = None
    /\ UNCHANGED suffix

\* S3 notifies the key the object is stored under, an emulator with a backslash;
\* retry_video builds the same from the row.
NotifyUpload(v) ==
    /\ suffix[v] # None
    /\ \/ Announce(v, suffix[v])
       \/ Announce(v, suffix[v] \o <<"\\">>)

\* Some other object under uploads/.
NotifyStray(v) == \E tail \in Tails : Announce(v, tail)

Resolve ==
    /\ event # None
    /\ verdict' = Resolved(Decode(event))
    /\ event' = event
    /\ UNCHANGED suffix

KeysInit ==
    /\ suffix = [v \in Videos |-> None]
    /\ event = None
    /\ verdict = None

KeysNext ==
    \/ \E v \in Videos :
          \/ \E tail \in Tails : CreateVideo(v, tail)
          \/ NotifyUpload(v)
          \/ NotifyStray(v)
    \/ Resolve

KeysSpec == KeysInit /\ [][KeysNext]_keyVars

-------------------------------------------------------------------------------
Marks == {<<>>, <<"\\">>}

\* What the shim makes of the notification of v's upload.
Recovered(v, mark) == Resolved(Decode(Encode([video |-> v, tail |-> suffix[v] \o mark])))

\* No stray object starts the processing of a video: what is resolved to v is the
\* very key v's upload URL was signed for, but for one backslash
\* (_resolve_video_id compares the whole key, not the ID alone).
VerdictNamesUpload ==
    verdict # None =>
        \E mark \in Marks :
            Decode(event) = [video |-> verdict, tail |-> suffix[verdict] \o mark]

\* A dot and at least one letter or digit.
Plain(tail) == Len(tail) > 1 /\ \A i \in 2 .. Len(tail) : tail[i] = "x"

EndsInNewline(tail) == tail # <<>> /\ tail[Len(tail)] = "\n"

\* An upload is found again, under both spellings of its key and through the quoting,
\* if its extension is alphanumeric; and only then, but for one that ends in a newline,
\* of which the pattern lets some pass.  CreateVideoRequest accepts more: uploads of
\* "clip.", "clip.-" or "clip.x\" are ignored, the last because its backslash is taken
\* for the emulator's (s3_events.py, video_request.py).
PlainUploadIsRecognized ==
    \A v \in Videos, mark \in Marks : suffix[v] # None =>
        IF Plain(suffix[v])
        THEN Recovered(v, mark) = v
        ELSE EndsInNewline(suffix[v]) \/ Recovered(v, mark) = None
===============================================================================
