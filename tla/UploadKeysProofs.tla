---------------------------- MODULE UploadKeysProofs ----------------------------
(***************************************************************************)
(* Theorems about UploadKeys, for any videos and for tails of any length.  *)
(***************************************************************************)
EXTENDS UploadKeys, SequenceTheorems, TLAPS

QuotedCharacters == {Quoted[c] : c \in Characters}

Key == [video : Videos, tail : Seq(Characters)]
QuotedKey == [video : Videos, tail : Seq(QuotedCharacters)]

-------------------------------------------------------------------------------
\* Each character is read back as it was written.
LEMMA CharacterIsReadBack ==
    ASSUME NEW c \in Characters
    PROVE  Quoted[c] \in QuotedCharacters /\ Unquoted[Quoted[c]] = c
<1>1. Quoted[c] \in QuotedCharacters
  BY DEF QuotedCharacters
<1>2. Quoted[c] = IF c = " " THEN "+" ELSE IF c = "+" THEN "%2B"
                  ELSE IF c = "\\" THEN "%5C" ELSE IF c = "\n" THEN "%0A" ELSE c
  BY DEF Quoted, Characters
<1>3. \A q \in QuotedCharacters :
        Unquoted[q] = IF q = "+" THEN " " ELSE IF q = "%2B" THEN "+"
                      ELSE IF q = "%5C" THEN "\\" ELSE IF q = "%0A" THEN "\n" ELSE q
  BY DEF Unquoted, QuotedCharacters
<1> QED
  BY <1>1, <1>2, <1>3 DEF Characters

\* ... so that each quoted character is one of a key.
LEMMA CharacterIsRead ==
    ASSUME NEW q \in QuotedCharacters
    PROVE  Unquoted[q] \in Characters
BY CharacterIsReadBack DEF QuotedCharacters

\* A notification's quoted key is decoded to the key it was made of.
LEMMA QuotingIsUndone ==
    ASSUME NEW key \in Key
    PROVE  Encode(key) \in QuotedKey /\ Decode(Encode(key)) = key
<1> DEFINE n == Len(key.tail)
           quoted == [i \in 1 .. n |-> Quoted[key.tail[i]]]
<1>1. /\ key.tail \in Seq(Characters) /\ n \in Nat /\ DOMAIN key.tail = 1 .. n
      /\ key.tail \in [1 .. n -> Characters]
      /\ key = [video |-> key.video, tail |-> key.tail] /\ key.video \in Videos
  BY LenProperties DEF Key
<1>2. quoted \in [1 .. n -> QuotedCharacters]
  BY <1>1, CharacterIsReadBack
<1>3. quoted \in Seq(QuotedCharacters)
  BY <1>1, <1>2, SeqDef
<1>4. Encode(key) = [video |-> key.video, tail |-> quoted]
  <2>1. Encode(key) = [key EXCEPT !.tail = quoted]
    BY <1>1, Zenon DEF Encode
  <2> HIDE DEF quoted
  <2> QED
    BY <2>1 DEF Key
<1>5. DOMAIN quoted = 1 .. n
  OBVIOUS
<1>6. [i \in 1 .. n |-> Unquoted[quoted[i]]] = key.tail
  BY <1>1, CharacterIsReadBack
<1> HIDE DEF quoted
<1>7. Decode([video |-> key.video, tail |-> quoted])
        = [video |-> key.video, tail |-> key.tail]
  <2>1. PICK q : q = [video |-> key.video, tail |-> quoted]
    OBVIOUS
  <2>2. q.tail = quoted
    BY <2>1
  <2>3. Decode(q) = [q EXCEPT !.tail = [i \in 1 .. n |-> Unquoted[quoted[i]]]]
    BY <1>5, <2>2, Zenon DEF Decode
  <2>4. Decode(q) = [q EXCEPT !.tail = key.tail]
    BY <1>6, <2>3, Zenon
  <2> QED
    BY <2>1, <2>4
<1> QED
  BY <1>1, <1>3, <1>4, <1>6, <1>7 DEF QuotedKey

\* What is decoded is a key.
LEMMA DecodedIsKey ==
    ASSUME NEW e \in QuotedKey
    PROVE  Decode(e) \in Key
<1> DEFINE n == Len(e.tail)
           tail == [i \in 1 .. n |-> Unquoted[e.tail[i]]]
<1>1. /\ e.tail \in Seq(QuotedCharacters) /\ n \in Nat /\ DOMAIN e.tail = 1 .. n
      /\ e.tail \in [1 .. n -> QuotedCharacters]
      /\ e = [video |-> e.video, tail |-> e.tail] /\ e.video \in Videos
  BY LenProperties DEF QuotedKey
<1>2. tail \in [1 .. n -> Characters]
  BY <1>1, CharacterIsRead
<1>3. tail \in Seq(Characters)
  BY <1>1, <1>2, SeqDef
<1>4. Decode(e) = [video |-> e.video, tail |-> tail]
  <2>1. Decode(e) = [e EXCEPT !.tail = tail]
    BY <1>1, Zenon DEF Decode
  <2> HIDE DEF tail
  <2> QED
    BY <2>1 DEF QuotedKey
<1> QED
  BY <1>1, <1>3, <1>4 DEF Key

\* The mark an emulator leaves is a tail of one character.
LEMMA BackslashIsTail ==
    /\ <<>> \in Seq(Characters) /\ Len(<<>>) = 0
    /\ <<"\\">> \in Seq(Characters) /\ Len(<<"\\">>) = 1 /\ <<"\\">>[1] = "\\"
<1>1. <<"\\">> \in Seq(Characters)
  BY DEF Characters
<1> QED
  BY <1>1

\* removesuffix takes one backslash off, or nothing.
LEMMA MarkIsAllThatGoes ==
    ASSUME NEW tail \in Seq(Characters)
    PROVE  /\ WithoutMark(tail) \in Seq(Characters)
           /\ \E mark \in Marks : tail = WithoutMark(tail) \o mark
<1>1. CASE tail # <<>> /\ tail[Len(tail)] = "\\"
  <2>1. Len(tail) \in Nat \ {0}
    BY <1>1, EmptySeq
  <2>2. SubSeq(tail, 1, Len(tail)) = SubSeq(tail, 1, Len(tail) - 1) \o <<tail[Len(tail)]>>
    BY <2>1, SubSeqRecursiveSecond
  <2>3. tail = SubSeq(tail, 1, Len(tail) - 1) \o <<"\\">>
    BY <1>1, <2>2, SubSeqFull
  <2>4. SubSeq(tail, 1, Len(tail) - 1) \in Seq(Characters)
    BY <2>1, ElementOfSeq, SubSeqProperties
  <2> QED
    BY <1>1, <2>3, <2>4 DEF WithoutMark, Marks
<1>2. CASE ~(tail # <<>> /\ tail[Len(tail)] = "\\")
  BY <1>2, ConcatEmptySeq DEF WithoutMark, Marks
<1> QED
  BY <1>1, <1>2

-------------------------------------------------------------------------------
\* A row's tail is one the API accepts, a message quotes a key, and a verdict names the
\* row whose key the message quotes.
KeyInv ==
    /\ suffix \in [Videos -> Tails \cup {None}]
    /\ \A v \in Videos : suffix[v] # None => Accepted(suffix[v])
    /\ event \in QuotedKey \cup {None}
    /\ verdict \in Videos \cup {None}
    /\ verdict # None => suffix[verdict] # None
    /\ VerdictNamesUpload

\* An announcement quotes a key.
LEMMA AnnouncedIsQuoted ==
    ASSUME NEW v \in Videos, NEW tail \in Seq(Characters), Announce(v, tail)
    PROVE  event' \in QuotedKey
<1>1. [video |-> v, tail |-> tail] \in Key
  BY DEF Key
<1> QED
  BY <1>1, QuotingIsUndone DEF Announce

\* What the shim resolves is the key of the row it found, but for a backslash.
LEMMA ResolvedIsNamed ==
    ASSUME NEW key \in Key, Resolved(key) # None
    PROVE  /\ Resolved(key) = key.video /\ key.video \in Videos
           /\ suffix[key.video] # None
           /\ \E mark \in Marks : key = [video |-> key.video, tail |-> suffix[key.video] \o mark]
<1>1. /\ key.video \in Videos /\ key.tail \in Seq(Characters)
      /\ key = [video |-> key.video, tail |-> key.tail]
  BY DEF Key
<1>2. Resolved(key) = key.video /\ suffix[key.video] = WithoutMark(key.tail)
  BY DEF Resolved
<1> QED
  BY <1>1, <1>2, MarkIsAllThatGoes, NoneAssumption

\* Every step keeps this: a row that exists keeps its key.
LEMMA KeyStep ==
    ASSUME KeyInv, [KeysNext]_keyVars
    PROVE  KeyInv'
<1>1. /\ suffix \in [Videos -> Tails \cup {None}]
      /\ \A v \in Videos : suffix[v] # None => suffix[v] \in Seq(Characters)
  BY TailsAssumption DEF KeyInv
<1>2. ASSUME NEW v \in Videos, NEW tail \in Tails, CreateVideo(v, tail)
      PROVE  KeyInv'
  <2>1. suffix' \in [Videos -> Tails \cup {None}]
    BY <1>1, <1>2 DEF CreateVideo
  <2>2. \A w \in Videos : suffix'[w] # None => Accepted(suffix'[w])
    BY <1>1, <1>2 DEF CreateVideo, KeyInv
  <2>3. verdict # None => suffix'[verdict] = suffix[verdict]
    BY <1>1, <1>2 DEF CreateVideo, KeyInv
  <2> QED
    BY <1>2, <2>1, <2>2, <2>3 DEF CreateVideo, KeyInv, VerdictNamesUpload
<1>3. ASSUME NEW v \in Videos, NEW tail \in Seq(Characters), Announce(v, tail)
      PROVE  KeyInv'
  <2>1. event' \in QuotedKey
    BY <1>3, AnnouncedIsQuoted
  <2> QED
    BY <1>3, <2>1 DEF Announce, KeyInv, VerdictNamesUpload
<1>4. ASSUME NEW v \in Videos, NotifyUpload(v)
      PROVE  KeyInv'
  <2>1. suffix[v] \in Seq(Characters)
    BY <1>1, <1>4 DEF NotifyUpload
  <2>2. <<"\\">> \in Seq(Characters)
    BY BackslashIsTail
  <2>3. suffix[v] \o <<"\\">> \in Seq(Characters)
    BY <2>1, <2>2, ConcatProperties
  <2> QED
    BY <1>3, <1>4, <2>1, <2>3 DEF NotifyUpload
<1>5. ASSUME NEW v \in Videos, NotifyStray(v)
      PROVE  KeyInv'
  BY <1>3, <1>5, TailsAssumption DEF NotifyStray
<1>6. CASE Resolve
  <2>1. event \in QuotedKey
    BY <1>6 DEF Resolve, KeyInv
  <2>2. Decode(event) \in Key
    BY <2>1, DecodedIsKey
  <2>3. verdict' = Resolved(Decode(event)) /\ event' = event /\ suffix' = suffix
    BY <1>6 DEF Resolve
  <2>4. verdict' # None =>
          /\ verdict' \in Videos /\ suffix[verdict'] # None
          /\ \E mark \in Marks : Decode(event) = [video |-> verdict', tail |-> suffix[verdict'] \o mark]
    BY <2>2, <2>3, ResolvedIsNamed
  <2>5. VerdictNamesUpload'
    BY <2>3, <2>4 DEF VerdictNamesUpload
  <2> QED
    BY <2>3, <2>4, <2>5 DEF KeyInv
<1>7. CASE UNCHANGED keyVars
  BY <1>7 DEF keyVars, KeyInv, VerdictNamesUpload
<1> QED
  BY <1>2, <1>4, <1>5, <1>6, <1>7 DEF KeysNext

\* It holds of every behaviour.
LEMMA KeyInvariant == KeysSpec => []KeyInv
<1>1. KeysInit => KeyInv
  BY DEF KeysInit, KeyInv, VerdictNamesUpload
<1> QED
  BY <1>1, KeyStep, PTL DEF KeysSpec

\* Whatever is put under uploads/, and whatever a message quotes, a workflow is started
\* only for the video whose own upload key it is (_resolve_video_id).
THEOREM VerdictsNameUploads == KeysSpec => []VerdictNamesUpload
<1>1. KeyInv => VerdictNamesUpload
  BY DEF KeyInv
<1> QED
  BY <1>1, KeyInvariant, PTL

-------------------------------------------------------------------------------
\* The pattern recognizes an alphanumeric extension, with or without the backslash, and
\* the comparison finds the row's own tail.
LEMMA PlainIsRecognized ==
    ASSUME NEW tail \in Seq(Characters), Accepted(tail), Plain(tail), NEW mark \in Marks
    PROVE  /\ tail \o mark \in Seq(Characters)
           /\ Recognized(tail \o mark)
           /\ WithoutMark(tail \o mark) = tail
<1> DEFINE n == Len(tail)
           whole == tail \o mark
<1>1. n \in Nat /\ n > 1 /\ DOMAIN tail = 1 .. n /\ tail[1] = "."
  BY LenProperties DEF Accepted, Plain
<1>2. /\ <<>> \in Seq(Characters) /\ Len(<<>>) = 0
      /\ <<"\\">> \in Seq(Characters) /\ Len(<<"\\">>) = 1 /\ <<"\\">>[1] = "\\"
  BY BackslashIsTail
<1>3. mark \in Seq(Characters) /\ mark \in {<<>>, <<"\\">>} /\ Len(mark) \in {0, 1}
  BY <1>2 DEF Marks
<1>4. /\ whole \in Seq(Characters)
      /\ Len(whole) = n + Len(mark)
      /\ \A i \in 1 .. n + Len(mark) : whole[i] = IF i <= n THEN tail[i] ELSE mark[i - n]
  BY <1>3, ConcatProperties
<1>5. n \in 0 .. Len(whole) /\ Extension(whole, n)
  BY <1>1, <1>3, <1>4 DEF Extension, Plain
<1>6. SubSeq(whole, n + 1, Len(whole)) = mark
  <2>1. CASE mark = <<>>
    <3>1. Len(whole) < n + 1
      BY <1>1, <1>2, <1>4, <2>1
    <3> QED
      BY <1>1, <1>2, <1>4, <2>1, <3>1, SubSeqEmpty
  <2>2. CASE mark = <<"\\">>
    <3>1. Len(whole) = n + 1 /\ Len(mark) = 1
      BY <1>2, <1>4, <2>2
    <3>2. SubSeq(whole, n + 1, n + 1) = SubSeq(mark, (n + 1) - n, (n + 1) - n)
      BY <1>1, <1>3, <3>1, SubSeqOfConcat2
    <3>3. SubSeq(mark, (n + 1) - n, (n + 1) - n) = SubSeq(mark, 1, Len(mark))
      BY <1>1, <3>1
    <3> QED
      BY <1>3, <3>1, <3>2, <3>3, SubSeqFull
  <2> QED
    BY <1>3, <2>1, <2>2
<1>7. Recognized(whole)
  <2>1. mark \in Ends
    BY <1>3 DEF Ends
  <2> QED
    BY <1>5, <1>6, <2>1 DEF Recognized
<1>8. WithoutMark(whole) = tail
  <2>1. CASE mark = <<>>
    <3>1. whole = tail
      BY <2>1, ConcatEmptySeq
    <3>2. tail[n] = "x"
      BY <1>1 DEF Plain
    <3> QED
      BY <3>1, <3>2 DEF WithoutMark
  <2>2. CASE mark = <<"\\">>
    <3>1. Len(whole) = n + 1 /\ whole[n + 1] = "\\"
      BY <1>1, <1>2, <1>4, <2>2
    <3>2. whole # <<>>
      BY <1>1, <1>2, <3>1
    <3>3. SubSeq(whole, 1, n) = SubSeq(tail, 1, n)
      BY <1>1, <1>3, SubSeqOfConcat1
    <3>4. (n + 1) - 1 = n
      BY <1>1
    <3> QED
      BY <3>1, <3>2, <3>3, <3>4, SubSeqFull DEF WithoutMark
  <2> QED
    BY <1>3, <2>1, <2>2
<1> QED
  BY <1>4, <1>7, <1>8

\* The ends the pattern takes: by its last character a longer one than the emulator's
\* mark is told from it.
LEMMA EndsAre ==
    ASSUME NEW end \in Ends
    PROVE  /\ Len(end) \in 0 .. 2
           /\ Len(end) > 0 => end[Len(end)] \in {"\\", "\n"}
           /\ Len(end) > 0 /\ end[Len(end)] = "\\" => Len(end) = 1
<1>1. CASE end = <<>>
  BY <1>1
<1>2. CASE end = <<"\\">>
  BY <1>2
<1>3. CASE end = <<"\n">>
  BY <1>3
<1>4. CASE end = <<"\\", "\n">>
  BY <1>4
<1> QED
  BY <1>1, <1>2, <1>3, <1>4 DEF Ends

\* The pattern and the comparison pass no other extension, unless it ends in a newline.
LEMMA OthersAreIgnored ==
    ASSUME NEW tail \in Seq(Characters), Accepted(tail), ~EndsInNewline(tail),
           NEW mark \in Marks,
           Recognized(tail \o mark), WithoutMark(tail \o mark) = tail
    PROVE  Plain(tail)
<1> DEFINE n == Len(tail)
           whole == tail \o mark
<1>1. n \in Nat \ {0} /\ DOMAIN tail = 1 .. n
  BY LenProperties DEF Accepted
<1>2. /\ <<>> \in Seq(Characters) /\ Len(<<>>) = 0
      /\ <<"\\">> \in Seq(Characters) /\ Len(<<"\\">>) = 1 /\ <<"\\">>[1] = "\\"
  BY BackslashIsTail
<1>3. mark \in Seq(Characters) /\ mark \in {<<>>, <<"\\">>} /\ Len(mark) \in {0, 1}
  BY <1>2 DEF Marks
<1>4. /\ whole \in Seq(Characters)
      /\ Len(whole) = n + Len(mark)
      /\ \A i \in 1 .. n + Len(mark) : whole[i] = IF i <= n THEN tail[i] ELSE mark[i - n]
  BY <1>3, ConcatProperties
<1>5. PICK k \in 0 .. Len(whole) :
        Extension(whole, k) /\ SubSeq(whole, k + 1, Len(whole)) \in Ends
  BY DEF Recognized
<1> PICK size : size = Len(whole)
  OBVIOUS
<1>6. size \in Nat /\ k \in Nat /\ k =< size
  <2>1. Len(whole) \in Nat
    BY <1>1, <1>3, <1>4
  <2> QED
    BY <2>1
<1> DEFINE end == SubSeq(whole, k + 1, Len(whole))
<1>7. /\ Len(end) = Len(whole) - k
      /\ k < Len(whole) => end[Len(end)] = whole[Len(whole)]
  <2>1. CASE k < Len(whole)
    <3>1. k + 1 \in 1 .. Len(whole) /\ Len(whole) \in 1 .. Len(whole)
      BY <1>4, <1>5, <2>1
    <3>2. /\ Len(end) = Len(whole) - (k + 1) + 1
          /\ \A i \in 1 .. Len(whole) - (k + 1) + 1 : end[i] = whole[(k + 1) + i - 1]
      BY <1>4, <2>1, <3>1, SubSeqProperties
    <3>3. Len(end) \in 1 .. Len(whole) - (k + 1) + 1 /\ (k + 1) + Len(end) - 1 = Len(whole)
      BY <1>5, <3>1, <3>2
    <3> QED
      BY <3>1, <3>2, <3>3
  <2>2. CASE k = Len(whole)
    BY <1>4, <1>5, <2>2, SubSeqEmpty, <1>2
  <2>3. Len(whole) \in Nat
    BY <1>1, <1>3, <1>4
  <2>4. k < Len(whole) \/ k = Len(whole)
    BY <2>3
  <2> QED
    BY <2>1, <2>2, <2>4
<1>8. /\ Len(end) > 0 => end[Len(end)] \in {"\\", "\n"}
      /\ Len(end) > 0 /\ end[Len(end)] = "\\" => Len(end) = 1
  BY <1>5, EndsAre
<1> HIDE DEF end
<1>9. k = n
  <2>1. CASE mark = <<>>
    <3>1. whole = tail /\ Len(whole) = n
      BY <2>1, ConcatEmptySeq
    <3>2. tail # <<>>
      BY <1>1
    <3>3. tail[n] # "\\"
      <4>1. SUFFICES ASSUME tail[n] = "\\" PROVE FALSE
        OBVIOUS
      <4>2. SubSeq(tail, 1, n - 1) = tail
        BY <3>1, <3>2, <4>1 DEF WithoutMark
      <4>3. Len(SubSeq(tail, 1, n - 1)) = n - 1
        BY <1>1, SubSeqProperties
      <4> QED
        BY <1>1, <4>2, <4>3
    <3>4. tail[n] # "\n"
      BY <3>2 DEF EndsInNewline
    <3>5. ~(k < Len(whole))
      <4>1. SUFFICES ASSUME k < Len(whole) PROVE FALSE
        OBVIOUS
      <4>2. Len(end) > 0
        BY <1>1, <1>7, <3>1, <4>1
      <4>3. end[Len(end)] = tail[n]
        BY <1>7, <3>1, <4>1, Zenon
      <4> QED
        BY <1>8, <3>3, <3>4, <4>2, <4>3
    <3>6. Len(whole) = n
      BY <3>1
    <3>7. size = n /\ ~(k < size)
      BY <3>5, <3>6
    <3> QED
      BY <1>1, <1>6, <3>7
  <2>2. CASE mark = <<"\\">>
    <3>1. Len(whole) = n + 1 /\ whole[n + 1] = "\\"
      BY <1>1, <1>2, <1>4, <2>2
    <3>2. k # n + 1
      BY <1>1, <1>5, <3>1 DEF Extension
    <3>3. Len(end) = 1
      <4>1. size = n + 1 /\ Len(end) = size - k
        BY <1>7, <3>1
      <4>2. k < size /\ Len(end) > 0
        BY <1>1, <1>6, <3>2, <4>1
      <4>3. end[Len(end)] = "\\"
        BY <1>7, <3>1, <4>2
      <4> QED
        BY <1>8, <4>2, <4>3
    <3>4. size = n + 1 /\ size - k = 1
      BY <1>7, <3>1, <3>3
    <3>5. n \in Nat
      BY <1>1
    <3> HIDE DEF n, whole
    <3> QED
      BY <1>6, <3>4, <3>5
  <2> QED
    BY <1>3, <2>1, <2>2
<1>10. n > 1 /\ \A i \in 2 .. n : whole[i] = "x"
  BY <1>1, <1>5, <1>9 DEF Extension
<1>11. \A i \in 2 .. n : whole[i] = tail[i]
  BY <1>1, <1>3, <1>4
<1> QED
  BY <1>10, <1>11 DEF Plain

\* An upload is found again from its notification, under both spellings and through the
\* quoting, if and, newlines aside, only if its extension is one or more letters and
\* digits, however long: what else CreateVideoRequest accepts is ignored.
THEOREM PlainUploadsAreRecognized == KeysSpec => []PlainUploadIsRecognized
<1>1. ASSUME KeyInv PROVE PlainUploadIsRecognized
  <2> SUFFICES ASSUME NEW v \in Videos, NEW mark \in Marks, suffix[v] # None
               PROVE  IF Plain(suffix[v])
                      THEN Recovered(v, mark) = v
                      ELSE EndsInNewline(suffix[v]) \/ Recovered(v, mark) = None
    BY DEF PlainUploadIsRecognized
  <2>1. suffix[v] \in Seq(Characters) /\ Accepted(suffix[v])
    BY <1>1, TailsAssumption DEF KeyInv
  <2>2. suffix[v] \o mark \in Seq(Characters)
    BY <2>1, BackslashIsTail, ConcatProperties DEF Marks
  <2>3. PICK key : key = [video |-> v, tail |-> suffix[v] \o mark]
    OBVIOUS
  <2>4. key \in Key /\ key.video = v /\ key.tail = suffix[v] \o mark
    BY <2>2, <2>3 DEF Key
  <2>5. Recovered(v, mark) = Resolved(key)
    BY <2>3, <2>4, QuotingIsUndone DEF Recovered
  <2>6. Recovered(v, mark) =
          IF Recognized(suffix[v] \o mark) /\ suffix[v] = WithoutMark(suffix[v] \o mark)
          THEN v ELSE None
    BY <2>4, <2>5 DEF Resolved
  <2>7. CASE Plain(suffix[v])
    BY <2>1, <2>6, <2>7, PlainIsRecognized
  <2>8. CASE ~Plain(suffix[v]) /\ ~EndsInNewline(suffix[v])
    BY <2>1, <2>6, <2>8, OthersAreIgnored
  <2> QED
    BY <2>7, <2>8
<1> QED
  BY <1>1, KeyInvariant, PTL
===============================================================================
