---------------------------- MODULE TransferProofs ----------------------------
(***************************************************************************)
(* Theorems about the transfers from the K2, for any files, packages,      *)
(* sizes and numbers of retries: with replies that are late, lost or old,  *)
(* and flash operations that fail, what a slot lists is a whole file, only *)
(* what was wanted is stored, what the programs report is so, and the      *)
(* receiver of a firmware package never loses step with its sender.        *)
(* TransferInv is inductive.                                               *)
(***************************************************************************)
EXTENDS TransferInvariant, SequenceTheorems, TLAPS

USE DEF device, uploader, mailbox, vars, manager, program, firmware, allVars

-----------------------------------------------------------------------------
(* Sequences *)

\* Sequences over fewer elements are sequences over more.
LEMMA Wider ==
    ASSUME NEW S, NEW T, S \subseteq T
    PROVE  Seq(S) \subseteq Seq(T)
BY SeqMonotonic

\* Units 1..n, as a sequence.
LEMMA Numbered ==
    ASSUME NEW S, NEW n \in Nat, NEW s \in [1..n -> S]
    PROVE  s \in Seq(S) /\ Len(s) = n
<1>1. s \in Seq(S)
  BY SeqDef
<1>2. Len(s) \in Nat /\ DOMAIN s = 1..Len(s) /\ DOMAIN s = 1..n
  BY <1>1, LenProperties
<1>3. QED
  BY <1>1, <1>2

\* A frame is cut where it fills the page.
LEMMA CutFrame ==
    ASSUME NEW S, NEW f \in Seq(S), NEW n \in 0..Len(f)
    PROVE  /\ SubSeq(f, 1, n) \in Seq(S) /\ Len(SubSeq(f, 1, n)) = n
           /\ SubSeq(f, n + 1, Len(f)) \in Seq(S) /\ Len(SubSeq(f, n + 1, Len(f))) = Len(f) - n
           /\ SubSeq(f, 1, n) \o SubSeq(f, n + 1, Len(f)) = f
<1>1. Len(f) \in Nat /\ \A i \in 1..Len(f) : f[i] \in S
  BY LenProperties, ElementOfSeq
<1>2. SubSeq(f, 1, n) \in Seq(S) /\ Len(SubSeq(f, 1, n)) = n
  <2>1. \A i \in 1..n : f[i] \in S
    BY <1>1
  <2>2. n \in Int /\ n - 1 + 1 = n
    BY <1>1
  <2>3. QED
    BY <1>1, <2>1, <2>2, SubSeqProperties
<1>3. /\ SubSeq(f, n + 1, Len(f)) \in Seq(S)
      /\ Len(SubSeq(f, n + 1, Len(f))) = Len(f) - n
  <2>1. \A i \in (n + 1)..Len(f) : f[i] \in S
    BY <1>1
  <2>2. /\ SubSeq(f, n + 1, Len(f)) \in Seq(S)
        /\ Len(SubSeq(f, n + 1, Len(f))) = IF n + 1 <= Len(f) THEN Len(f) - (n + 1) + 1 ELSE 0
    BY <1>1, <2>1, SubSeqProperties
  <2>3. QED
    BY <1>1, <2>2
<1>4. SubSeq(f, 1, n) \o SubSeq(f, n + 1, Len(f)) = SubSeq(f, 1, Len(f))
  <2>1. 1 \in 1..(Len(f) + 1) /\ n \in (1 - 1)..Len(f) /\ Len(f) \in n..Len(f)
    BY <1>1
  <2>2. QED
    BY <2>1, ConcatAdjacentSubSeq
<1>5. QED
  BY <1>2, <1>3, <1>4, SubSeqFull

\* A page that a frame fills, and what the frame leaves behind.
Filled(page, frame, room) == page \o SubSeq(frame, 1, room)

Behind(frame, room) == SubSeq(frame, room + 1, Len(frame))

\* The part of a frame that fills the page, and the part left over.
LEMMA PartsTyped ==
    ASSUME NEW S, NEW frame \in Seq(S), NEW room \in Nat, room <= Len(frame)
    PROVE  /\ SubSeq(frame, 1, room) \in Seq(S) /\ Len(SubSeq(frame, 1, room)) = room
           /\ Behind(frame, room) \in Seq(S)
           /\ Len(Behind(frame, room)) = Len(frame) - room
<1>1. Len(frame) \in Nat
  BY LenProperties
<1>2. room \in 0..Len(frame)
  BY <1>1
<1>3. QED
  BY <1>2, CutFrame DEF Behind

\* A page is full with what it lacked of the frame.
LEMMA PageFilled ==
    ASSUME NEW S, NEW page \in Seq(S), NEW frame \in Seq(S),
           NEW room \in Nat, room <= Len(frame)
    PROVE  /\ Filled(page, frame, room) \in Seq(S)
           /\ Len(Filled(page, frame, room)) = Len(page) + room
<1>1. SubSeq(frame, 1, room) \in Seq(S) /\ Len(SubSeq(frame, 1, room)) = room
  BY PartsTyped
<1>2. ASSUME NEW t \in Seq(S)
      PROVE  page \o t \in Seq(S) /\ Len(page \o t) = Len(page) + Len(t)
  BY ConcatProperties
<1>3. QED
  BY <1>1, <1>2 DEF Filled

\* What goes through a full page keeps its order.
InOrder(flash, page, frame, room) ==
    (flash \o Filled(page, frame, room)) \o Behind(frame, room) = (flash \o page) \o frame

\* When a page has gone to flash, flash and page still hold the data in order.
LEMMA PageTurned ==
    ASSUME NEW S, NEW flash \in Seq(S), NEW page \in Seq(S), NEW frame \in Seq(S),
           NEW room \in Nat, room <= Len(frame)
    PROVE  /\ flash \o Filled(page, frame, room) \in Seq(S)
           /\ InOrder(flash, page, frame, room)
<1>1. Len(frame) \in Nat
  BY LenProperties
<1>2. room \in 0..Len(frame)
  BY <1>1
<1>3. ASSUME NEW t \in Seq(S), NEW u \in Seq(S), t \o u = frame
      PROVE  flash \o (page \o t) \in Seq(S)
             /\ (flash \o (page \o t)) \o u = (flash \o page) \o frame
  <2>1. page \o t \in Seq(S)
    BY ConcatProperties
  <2>2. flash \o (page \o t) \in Seq(S)
    BY <2>1, ConcatProperties
  <2>3. flash \o page \in Seq(S)
    BY ConcatProperties
  <2>4. flash \o (page \o t) = (flash \o page) \o t
    BY ConcatAssociative, SMTT(60)
  <2>5. ((flash \o page) \o t) \o u = (flash \o page) \o (t \o u)
    BY <2>3, ConcatAssociative, SMTT(60)
  <2>6. QED
    BY <1>3, <2>2, <2>4, <2>5
<1>4. /\ SubSeq(frame, 1, room) \in Seq(S) /\ SubSeq(frame, room + 1, Len(frame)) \in Seq(S)
      /\ SubSeq(frame, 1, room) \o SubSeq(frame, room + 1, Len(frame)) = frame
  BY <1>2, CutFrame
<1>5. QED
  BY <1>3, <1>4 DEF Filled, Behind, InOrder

\* What was appended to fill the last page is left out again.
LEMMA CutBack ==
    ASSUME NEW S, NEW whole \in Seq(S), NEW rest \in Seq(S)
    PROVE  SubSeq(whole \o rest, 1, Len(whole)) = whole
<1>1. Len(whole) \in Nat
  BY LenProperties
<1>2. CASE whole = <<>>
  <2>1. Len(whole) = 0
    BY <1>2, EmptySeq
  <2>2. QED
    BY <1>2, <2>1, SubSeqEmpty
<1>3. CASE whole # <<>>
  <2>1. 1 \in 1..Len(whole) /\ Len(whole) \in 1..Len(whole)
    BY <1>1, <1>3, EmptySeq
  <2>2. SubSeq(whole \o rest, 1, Len(whole)) = SubSeq(whole, 1, Len(whole))
    BY <2>1, SubSeqOfConcat1
  <2>3. QED
    BY <2>2, SubSeqFull
<1>4. QED
  BY <1>2, <1>3

\* The beginning of a sequence, and the part that follows it.
LEMMA Beginning ==
    ASSUME NEW S, NEW d \in Seq(S), NEW n \in 0..Len(d), NEW m \in n..Len(d)
    PROVE  /\ SubSeq(d, 1, n) \in Seq(S) /\ Len(SubSeq(d, 1, n)) = n
           /\ SubSeq(d, n + 1, m) \in Seq(S) /\ Len(SubSeq(d, n + 1, m)) = m - n
           /\ SubSeq(d, 1, n) \o SubSeq(d, n + 1, m) = SubSeq(d, 1, m)
<1>1. Len(d) \in Nat /\ \A i \in 1..Len(d) : d[i] \in S
  BY LenProperties, ElementOfSeq
<1>2. SubSeq(d, 1, n) \in Seq(S) /\ Len(SubSeq(d, 1, n)) = n
  BY CutFrame
<1>3. SubSeq(d, n + 1, m) \in Seq(S) /\ Len(SubSeq(d, n + 1, m)) = m - n
  <2>1. \A i \in (n + 1)..m : d[i] \in S
    BY <1>1
  <2>2. /\ SubSeq(d, n + 1, m) \in Seq(S)
        /\ Len(SubSeq(d, n + 1, m)) = IF n + 1 <= m THEN m - (n + 1) + 1 ELSE 0
    BY <1>1, <2>1, SubSeqProperties
  <2>3. QED
    BY <1>1, <2>2
<1>4. SubSeq(d, 1, n) \o SubSeq(d, n + 1, m) = SubSeq(d, 1, m)
  <2>1. 1 \in 1..(Len(d) + 1) /\ n \in (1 - 1)..Len(d) /\ m \in n..Len(d)
    BY <1>1
  <2>2. QED
    BY <2>1, ConcatAdjacentSubSeq
<1>5. QED
  BY <1>2, <1>3, <1>4

-----------------------------------------------------------------------------
(* The core transfer: data *)

Cells == Units \cup {Blank}

\* What a slot holds when a file is stored whole.
LEMMA ContentType ==
    ASSUME NEW f \in Files
    PROVE  /\ Length[f] \in Nat /\ Length[f] > 0
           /\ Content(f) \in Seq(Units) /\ Len(Content(f)) = Length[f]
           /\ Content(f) \in Seq(Cells)
<1>1. Length[f] \in Nat /\ Length[f] > 0
  BY SizeAssumption
<1>2. Content(f) \in [1..Length[f] -> Units]
  BY <1>1 DEF Content, Units
<1>3. Content(f) \in Seq(Units) /\ Len(Content(f)) = Length[f]
  BY <1>1, <1>2, Numbered
<1>4. Seq(Units) \subseteq Seq(Cells)
  BY Wider DEF Cells
<1>5. QED
  BY <1>1, <1>3, <1>4

\* A frame is taken from the file, and is never longer than a frame.
LEMMA ChunkType ==
    ASSUME want.file \in Files, sent \in 0..Length[want.file]
    PROVE  /\ Chunk \in Seq(Units) /\ Len(Chunk) \in Nat /\ Len(Chunk) <= FrameSize
           /\ sent + Len(Chunk) \in 0..Length[want.file]
           /\ sent < Length[want.file] => Len(Chunk) > 0
<1> DEFINE last == IF sent + FrameSize < Length[want.file] THEN sent + FrameSize
                   ELSE Length[want.file]
<1>1. /\ Length[want.file] \in Nat /\ FrameSize \in Nat /\ FrameSize > 0
      /\ Content(want.file) \in Seq(Units) /\ Len(Content(want.file)) = Length[want.file]
  BY ContentType, SizeAssumption
<1>2. last \in sent..Length[want.file] /\ last - sent <= FrameSize
      /\ (sent < Length[want.file] => last > sent)
  BY <1>1
<1>3. Chunk = SubSeq(Content(want.file), sent + 1, last)
  BY DEF Chunk
<1> HIDE DEF last
<1>4. Chunk \in Seq(Units) /\ Len(Chunk) = last - sent
  BY <1>1, <1>2, <1>3, Beginning
<1>5. QED
  BY <1>1, <1>2, <1>4

\* What a session's fields are, as TypeOK says of the session.
SessionTyped(s) ==
    /\ s \in Sessions
    /\ s.active => s.file \in Files /\ s.slot \in Slots /\ Len(s.got) <= Length[s.file]
    /\ Len(s.page) <= PageSize

\* All that was counted is in flash or in the page buffer.
Kept(s) == s.open => s.flash \o s.page = s.got

\* The session of a typed state, field by field.
LEMMA SessionNow ==
    ASSUME CoreInv
    PROVE  /\ SessionTyped(session)
           /\ session.page \in Seq(Units) /\ session.got \in Seq(Units)
           /\ session.page \in Seq(Cells) /\ session.got \in Seq(Cells)
           /\ session.flash \in Seq(Cells)
           /\ Len(session.page) \in 0..PageSize /\ PageSize \in Nat
           /\ Len(session.got) \in Nat /\ Len(session.flash) \in Nat
<1>1. session \in Sessions /\ SessionTyped(session) /\ PageSize \in Nat
  BY SizeAssumption DEF CoreInv, TypeOK, SessionTyped
<1>2. /\ session.page \in Seq(Units) /\ session.got \in Seq(Units)
      /\ session.flash \in Seq(Cells)
  BY <1>1 DEF Sessions, Cells
<1>3. Seq(Units) \subseteq Seq(Cells)
  BY Wider DEF Cells
<1>4. Len(session.page) \in Nat /\ Len(session.got) \in Nat /\ Len(session.flash) \in Nat
  BY <1>2, LenProperties
<1>5. QED
  BY <1>1, <1>2, <1>3, <1>4 DEF SessionTyped

\* No session is a session.
LEMMA NoSessionTyped == SessionTyped(NoSession)
<1>1. <<>> \in Seq(Units) /\ <<>> \in Seq(Units \cup {Blank}) /\ Len(<<>>) = 0
  BY EmptySeq
<1>2. QED
  BY <1>1, SizeAssumption DEF SessionTyped, NoSession, Sessions

\* A session that has been ended keeps its type.
LEMMA EndedTyped ==
    ASSUME NEW s \in Sessions
    PROVE  SessionTyped(Ended(s)) /\ ~Ended(s).active /\ Ended(s).got = s.got
<1>1. <<>> \in Seq(Units) /\ <<>> \in Seq(Units \cup {Blank}) /\ Len(<<>>) = 0
  BY EmptySeq
<1>2. s.got \in Seq(Units) /\ PageSize \in Nat
  BY SizeAssumption DEF Sessions
<1>3. NoSession \in Sessions
  BY <1>1 DEF NoSession, Sessions
<1>4. Ended(s) \in Sessions
  BY <1>2, <1>3 DEF Ended, Sessions
<1>5. Ended(s).active = FALSE /\ Ended(s).got = s.got /\ Ended(s).page = <<>>
  BY DEF Ended, NoSession
<1>6. QED
  BY <1>1, <1>2, <1>4, <1>5 DEF SessionTyped

\* A session that has taken a frame.
Taken(s, page, flash, frame) ==
    [s EXCEPT !.page = page, !.flash = flash, !.got = s.got \o frame]

\* A frame taken into page and flash leaves the session in order.
LEMMA Took ==
    ASSUME NEW s \in Sessions, SessionTyped(s), s.active, NEW frame \in Seq(Units),
           Len(s.got) + Len(frame) <= Length[s.file],
           NEW page \in Seq(Units), NEW flash \in Seq(Cells), Len(page) <= PageSize,
           s.open => flash \o page = s.got \o frame
    PROVE  /\ SessionTyped(Taken(s, page, flash, frame)) /\ Kept(Taken(s, page, flash, frame))
           /\ Taken(s, page, flash, frame).active
           /\ Taken(s, page, flash, frame).file = s.file
           /\ Taken(s, page, flash, frame).slot = s.slot
<1> DEFINE t == Taken(s, page, flash, frame)
<1>1. s.got \in Seq(Units)
  BY DEF Sessions
<1>2. s.got \o frame \in Seq(Units) /\ Len(s.got \o frame) = Len(s.got) + Len(frame)
  BY <1>1, ConcatProperties
<1>3. /\ t.page = page /\ t.flash = flash /\ t.got = s.got \o frame /\ t.active = s.active
      /\ t.file = s.file /\ t.slot = s.slot /\ t.open = s.open
  BY DEF Sessions, Taken
<1>4. t \in Sessions
  BY <1>2 DEF Sessions, Cells, Taken
<1>5. QED
  BY <1>2, <1>3, <1>4 DEF SessionTyped, Kept

\* A session whose page is full, and has not been programmed.
LEMMA PageFailed ==
    ASSUME NEW s \in Sessions, SessionTyped(s), s.active,
           NEW page \in Seq(Units), Len(page) <= PageSize,
           NEW t, t = [s EXCEPT !.page = page]
    PROVE  /\ SessionTyped(t) /\ t.active /\ t.file = s.file /\ t.slot = s.slot
           /\ t.open = s.open /\ t.got = s.got
<1>1. /\ t.page = page /\ t.flash = s.flash /\ t.got = s.got /\ t.active = s.active
      /\ t.file = s.file /\ t.slot = s.slot /\ t.open = s.open
  BY DEF Sessions
<1>2. t \in Sessions
  BY DEF Sessions
<1>3. QED
  BY <1>1, <1>2 DEF SessionTyped

\* An open session that has not all of the file has room in the slot.
LEMMA RoomLeft ==
    ASSUME CoreInv, session.active, Kept(session), session.open, NEW n \in Nat, n > 0,
           Len(session.got) + n <= Length[session.file]
    PROVE  PageFits
<1>1. Len(session.flash \o session.page) = Len(session.flash) + Len(session.page)
  BY SessionNow, ConcatProperties
<1>2. Len(session.flash) + Len(session.page) = Len(session.got)
  BY <1>1 DEF Kept
<1>3. session.file \in Files
  BY SessionNow DEF SessionTyped
<1>4. Length[session.file] \in Nat
  BY <1>3, ContentType
<1>5. Len(session.flash) \in Nat /\ Len(session.page) \in Nat
  BY SessionNow
<1>6. Len(session.flash) < Length[session.file]
  <2>1. ASSUME NEW a \in Nat, NEW b \in Nat, NEW c \in Nat, NEW g, a + b = g, g + n <= c
        PROVE  a < c
    BY <2>1
  <2>2. QED
    BY <1>2, <1>4, <1>5, <2>1
<1>7. QED
  BY <1>6 DEF PageFits

\* One frame, in an active session: all of it, or none of it and a full page.
LEMMA DataEffect ==
    ASSUME CoreInv, session.active, NEW frame \in Seq(Units),
           Len(frame) > 0, Len(frame) <= FrameSize, Kept(session),
           NEW r \in DataResults(frame)
    PROVE  /\ r.stored = stored /\ SessionTyped(r.session)
           /\ r.session.active /\ r.session.file = session.file /\ r.session.slot = session.slot
           /\ Kept(r.session) \/ (faults.flash /\ r.error = "flash")
<1> DEFINE room == PageSize - Len(session.page)
           full == Filled(session.page, frame, room)
           rest == Behind(frame, room)
           took(page, flash) == Taken(session, page, flash, frame)
<1>a. session \in Sessions /\ SessionTyped(session)
  BY SessionNow DEF SessionTyped
<1>b. session.page \in Seq(Units)
  BY SessionNow
<1>c. session.page \in Seq(Cells) /\ session.flash \in Seq(Cells)
  BY SessionNow
<1>d. frame \in Seq(Cells)
  BY Wider DEF Cells
<1>e. /\ Len(session.page) \in 0..PageSize /\ PageSize \in Nat /\ room \in Nat
      /\ Len(session.page) + room = PageSize
  BY SessionNow
<1>f. Len(frame) \in Nat
  BY LenProperties
<1>g. session.file \in Files /\ Length[session.file] \in Nat /\ Len(session.got) \in Nat
  BY SessionNow, ContentType DEF SessionTyped
<1> HIDE DEF room
<1>1. CASE Len(session.got) + Len(frame) > Length[session.file]
  <2>1. r = Unchanged("size")
    BY <1>1 DEF DataResults
  <2>2. QED
    BY <1>a, <2>1 DEF Unchanged, Result
<1>2. CASE Len(session.got) + Len(frame) <= Length[session.file] /\ Len(frame) < room
  <2>1. r = Result(took(session.page \o frame, session.flash), stored, "none")
    BY <1>f, <1>g, <1>2 DEF DataResults, Taken, room
  <2>2. /\ session.page \o frame \in Seq(Units)
        /\ Len(session.page \o frame) = Len(session.page) + Len(frame)
    BY <1>b, ConcatProperties
  <2>3. session.flash \o (session.page \o frame) = (session.flash \o session.page) \o frame
    <3>1. \A a, b, c \in Seq(Cells) : a \o (b \o c) = (a \o b) \o c
      BY ConcatAssociative, SMTT(60)
    <3>2. QED
      BY <1>c, <1>d, <3>1
  <2>4. Len(session.page \o frame) <= PageSize
    BY <1>e, <1>f, <1>2, <2>2
  <2>5. session.open => session.flash \o (session.page \o frame) = session.got \o frame
    BY <2>3 DEF Kept
  <2>6. QED
    <3> DEFINE t == took(session.page \o frame, session.flash)
    <3>a. session.flash \in Seq(Cells)
      BY <1>c
    <3>b. Len(session.got) + Len(frame) <= Length[session.file]
      BY <1>2
    <3>c. session.page \o frame \in Seq(Units)
      BY <2>2
    <3>d. session \in Sessions
      BY <1>a
    <3>e. SessionTyped(session)
      BY <1>a
    <3>1. SessionTyped(t) /\ Kept(t) /\ t.active /\ t.file = session.file /\ t.slot = session.slot
      BY <2>4, <2>5, <3>a, <3>b, <3>c, <3>d, <3>e, Took
    <3> HIDE DEF t
    <3>2. r = Result(t, stored, "none")
      BY <2>1 DEF t
    <3>3. QED
      BY <3>1, <3>2 DEF Result
<1>3. CASE Len(session.got) + Len(frame) <= Length[session.file] /\ ~(Len(frame) < room)
  <2>1. \/ PageFits /\ r = Result(took(rest, session.flash \o full), stored, "none")
        \/ /\ faults.flash \/ ~PageFits
           /\ r = Result([session EXCEPT !.page = full], stored, "flash")
    BY <1>f, <1>g, <1>3 DEF DataResults, If, Taken, room, Filled, Behind
  <2>2. room \in Nat /\ room <= Len(frame)
    BY <1>e, <1>f, <1>3
  <2>3. /\ full \in Seq(Units) /\ Len(full) = Len(session.page) + room
        /\ rest \in Seq(Units) /\ Len(rest) = Len(frame) - room
    <3>0. room \in Nat
      BY <2>2
    <3>1. room <= Len(frame)
      BY <2>2
    <3>2. session.page \in Seq(Units)
      BY <1>b
    <3>3. full \in Seq(Units)
      BY <3>0, <3>1, <3>2, PageFilled
    <3>4. rest \in Seq(Units)
      BY <3>0, <3>1, PartsTyped
    <3>5. Len(full) = Len(session.page) + room
      BY <3>0, <3>1, <3>2, PageFilled
    <3>6. Len(rest) = Len(frame) - room
      BY <3>0, <3>1, PartsTyped
    <3>7. QED
      BY <3>3, <3>4, <3>5, <3>6
  <2>4. /\ session.flash \o full \in Seq(Cells)
        /\ (session.flash \o full) \o rest = (session.flash \o session.page) \o frame
    <3>1. room \in Nat
      BY <2>2
    <3>2. room <= Len(frame)
      BY <2>2
    <3>3. session.page \in Seq(Cells)
      BY <1>c
    <3>4. session.flash \in Seq(Cells)
      BY <1>c
    <3>5. session.flash \o full \in Seq(Cells)
      BY <1>d, <3>1, <3>2, <3>3, <3>4, PageTurned
    <3>6. InOrder(session.flash, session.page, frame, room)
      BY <1>d, <3>1, <3>2, <3>3, <3>4, PageTurned
    <3>7. QED
      BY <3>5, <3>6 DEF InOrder
  <2> HIDE DEF full, rest
  <2>5. CASE r = Result(took(rest, session.flash \o full), stored, "none")
    <3> DEFINE t == took(rest, session.flash \o full)
    <3>1. Len(rest) <= PageSize
      BY <1>e, <1>f, <2>2, <2>3, SizeAssumption
    <3>2. session.open => (session.flash \o full) \o rest = session.got \o frame
      BY <2>4 DEF Kept
    <3>3. SessionTyped(t) /\ Kept(t) /\ t.active /\ t.file = session.file /\ t.slot = session.slot
      BY <1>a, <1>3, <2>3, <2>4, <3>1, <3>2, Took
    <3> HIDE DEF t
    <3>4. r = Result(t, stored, "none")
      BY <2>5 DEF t
    <3>5. QED
      BY <3>3, <3>4 DEF Result
  <2>6. CASE /\ faults.flash \/ ~PageFits
             /\ r = Result([session EXCEPT !.page = full], stored, "flash")
    <3> DEFINE t == [session EXCEPT !.page = full]
    <3>1. Len(full) <= PageSize
      BY <1>e, <2>3
    <3>2. /\ SessionTyped(t) /\ t.active /\ t.file = session.file /\ t.slot = session.slot
          /\ t.open = session.open
      BY <1>a, <2>3, <3>1, PageFailed
    <3>3. ~PageFits => ~session.open
      BY <1>f, <1>3, RoomLeft
    <3> HIDE DEF t
    <3>4. r = Result(t, stored, "flash")
      BY <2>6 DEF t
    <3>5. r.session = t /\ r.stored = stored /\ r.error = "flash"
      BY <3>4 DEF Result
    <3>6. t.open => faults.flash
      BY <2>6, <3>2, <3>3
    <3>7. QED
      BY <3>2, <3>5, <3>6 DEF Kept
  <2>7. QED
    BY <2>1, <2>5, <2>6
<1>4. QED
  BY <1>f, <1>g, <1>1, <1>2, <1>3

-----------------------------------------------------------------------------
(* The core transfer: commands and replies *)

\* The parts of CoreInv, as they are established one by one.
DeviceTyped == SessionTyped(session) /\ stored \in [Slots -> Contents]

MailTyped == count \in Nat \cup {Nothing} /\ busy \in BOOLEAN /\ faults \in Faults

WantTyped == want \in [file: Files \cup {NoFile}, slot: Slots \cup {NoSlot}]

RunTyped ==
    /\ pc \in Running \cup {"idle", "success", "failed"}
    /\ pc \in Running => sent \in 0..Length[want.file] /\ retry \in 0..MaxRetries

\* Contents are sequences of units and of blank cells.
LEMMA ContentsTyped == Contents \subseteq Seq(Units \cup {Blank})
<1>1. <<>> \in Seq(Units \cup {Blank})
  BY EmptySeq
<1>2. \A f \in Files : Content(f) \in Seq(Units \cup {Blank})
  BY ContentType DEF Cells
<1>3. QED
  BY <1>1, <1>2 DEF Contents

\* What CoreInv says, in parts that are disturbed apart.
LEMMA CoreParts ==
    ASSUME CoreInv
    PROVE  DeviceTyped /\ MailTyped /\ WantTyped /\ RunTyped
BY SessionNow DEF CoreInv, TypeOK, DeviceTyped, MailTyped, WantTyped, RunTyped

\* CoreInv, from its parts.
LEMMA CoreWhole ==
    ASSUME DeviceTyped', MailTyped', WantTyped', RunTyped',
           UploaderOK', SessionOK', StatusOK', SuccessMeansStored'
    PROVE  CoreInv'
<1>1. \A k \in Slots : (stored[k] \in Seq(Units \cup {Blank}))'
  BY ContentsTyped DEF DeviceTyped
<1>2. TypeOK'
  BY <1>1 DEF TypeOK, DeviceTyped, MailTyped, WantTyped, RunTyped, SessionTyped
<1>3. QED
  BY <1>2 DEF CoreInv, DeviceTyped

\* What is known of a command and of what is read after it.
LEMMA Exchanged ==
    ASSUME NEW command, NEW results, NEW counted, NEW o \in Exchange(command, results, counted)
    PROVE  /\ o.result \in results \cup {Unchanged("none")}
           /\ \/ /\ o.result \in results
                 /\ o.reply.error \in Doubtful(command) \cup {o.result.error}
                 /\ o.reply.busy = o.result.session.active
                 /\ o.reply.count = IF counted THEN Len(o.result.session.got) ELSE count
              \/ /\ o.reply.error \in Doubtful(command)
                 /\ o.reply.busy = busy /\ o.reply.count = count
<1>1. CASE \E r \in results, e \in Doubtful(command) :
              o = [result |-> r, reply |-> Answer(r, counted, e)]
  BY <1>1 DEF Answer, Reply
<1>2. CASE \E r \in results : o = [result |-> r, reply |-> Answer(r, counted, r.error)]
  BY <1>2 DEF Answer, Reply
<1>3. CASE \E r \in results \cup {Unchanged("none")}, e \in Doubtful(command) :
              o = [result |-> r, reply |-> Silence(e)]
  BY <1>3 DEF Silence, Reply
<1>4. QED
  BY <1>1, <1>2, <1>3 DEF Exchange

\* What may become of a command whose reply is not of its own.
LEMMA Doubts ==
    ASSUME FaultsApart, faults \in Faults
    PROVE  /\ \A command : Doubtful(command) \subseteq {"timeout", "none"}
           /\ Doubtful("abort") = {"timeout"}
           /\ faults.flash => Doubtful("data") = {"timeout"}
BY DEF FaultsApart, Doubtful, If

\* A result is of the right type.
ResultTyped(r) == SessionTyped(r.session) /\ r.stored \in [Slots -> Contents]

\* A command that is not executed has a typed result.
LEMMA UnchangedTyped ==
    ASSUME CoreInv, NEW e
    PROVE  /\ ResultTyped(Unchanged(e)) /\ Unchanged(e).session = session
           /\ Unchanged(e).stored = stored /\ Unchanged(e).error = e
BY CoreParts DEF DeviceTyped, ResultTyped, Unchanged, Result

\* What a command leaves behind is typed when its result is.
LEMMA ExchangeTyped ==
    ASSUME CoreInv, NEW command, NEW results, \A r \in results : ResultTyped(r),
           NEW counted \in BOOLEAN, NEW o \in Exchange(command, results, counted), Effect(o)
    PROVE  /\ DeviceTyped'
           /\ o.reply.count \in Nat \cup {Nothing} /\ o.reply.busy \in BOOLEAN
<1>1. ResultTyped(o.result)
  BY Exchanged, UnchangedTyped
<1>2. DeviceTyped'
  BY <1>1 DEF Effect, DeviceTyped, ResultTyped, SessionTyped
<1>3. o.result.session.active \in BOOLEAN /\ o.result.session.got \in Seq(Units)
  BY <1>1 DEF ResultTyped, SessionTyped, Sessions
<1>4. Len(o.result.session.got) \in Nat
  BY <1>3, LenProperties
<1>5. count \in Nat \cup {Nothing} /\ busy \in BOOLEAN
  BY CoreParts DEF MailTyped
<1>6. QED
  BY <1>2, <1>3, <1>4, <1>5, Exchanged

-----------------------------------------------------------------------------
(* The core transfer: the steps *)

\* What an abort command leaves.
LEMMA AbortEffect ==
    ASSUME CoreInv, NEW r \in AbortResults
    PROVE  ResultTyped(r) /\ ~r.session.active /\ r.stored = stored /\ r.error = "none"
<1>1. session \in Sessions /\ stored \in [Slots -> Contents]
  BY CoreParts DEF DeviceTyped, SessionTyped
<1>2. SessionTyped(Ended(session)) /\ ~Ended(session).active
  BY <1>1, EndedTyped
<1>3. QED
  BY <1>1, <1>2 DEF AbortResults, Result, ResultTyped

\* The step that ends an interrupted transfer keeps the invariant.
LEMMA AbortKeeps ==
    ASSUME CoreInv, FaultsApart, UNCHANGED faults, SendAbort
    PROVE  CoreInv'
<1>1. PICK o \in Exchange("abort", AbortResults, FALSE) : Effect(o) /\ AfterAbort(o.reply)
  BY DEF SendAbort
<1>2. pc = "abort"
  BY DEF SendAbort
<1>3. DeviceTyped' /\ o.reply.count \in Nat \cup {Nothing} /\ o.reply.busy \in BOOLEAN
  BY <1>1, AbortEffect, ExchangeTyped
<1>4. MailTyped'
  BY <1>1, <1>3, CoreParts DEF MailTyped, AfterAbort, Leave
<1>5. faults \in Faults /\ Doubtful("abort") = {"timeout"}
  BY CoreParts, Doubts DEF MailTyped
<1>6. o.reply.error = "none" => o.reply.busy = FALSE /\ ~session'.active
  <2>1. SUFFICES ASSUME o.reply.error = "none" PROVE o.reply.busy = FALSE /\ ~session'.active
    OBVIOUS
  <2>2. o.result \in AbortResults /\ o.reply.busy = o.result.session.active
    BY <1>5, <2>1, Exchanged
  <2>3. o.result.session.active = FALSE
    BY <2>2, AbortEffect DEF ResultTyped, SessionTyped, Sessions
  <2>4. QED
    BY <1>1, <2>2, <2>3 DEF Effect
<1>7. /\ want.file \in Files /\ want.slot \in Slots /\ retry < MaxRetries /\ sent = 0
      /\ sent \in 0..Length[want.file] /\ retry \in 0..MaxRetries
  BY <1>2, CoreParts DEF CoreInv, UploaderOK, RunTyped, Running
<1>8. CASE o.reply.error = "none"
  <2>1. pc' = "begin" /\ want' = want /\ sent' = sent /\ retry' = retry /\ busy' = FALSE
    BY <1>1, <1>6, <1>8 DEF AfterAbort, Goto, Leave
  <2>2. WantTyped' /\ RunTyped' /\ UploaderOK'
    BY <1>7, <2>1, CoreParts DEF WantTyped, RunTyped, UploaderOK, Running
  <2>3. SessionOK' /\ StatusOK' /\ SuccessMeansStored'
    BY <1>6, <1>8, <2>1 DEF SessionOK, StatusOK, SuccessMeansStored
  <2>4. QED
    BY <1>3, <1>4, <2>2, <2>3, CoreWhole
<1>9. CASE o.reply.error # "none"
  <2>1. pc' = "failed" /\ want' = want
    BY <1>1, <1>9 DEF AfterAbort, Quit
  <2>2. WantTyped' /\ RunTyped' /\ UploaderOK'
    BY <2>1, CoreParts DEF WantTyped, RunTyped, UploaderOK, Running
  <2>3. SessionOK' /\ StatusOK' /\ SuccessMeansStored'
    BY <2>1 DEF SessionOK, StatusOK, SuccessMeansStored, Opened
  <2>4. QED
    BY <1>3, <1>4, <2>2, <2>3, CoreWhole
<1>10. QED
  BY <1>8, <1>9

\* A session opens for the file and the slot of the command.
LEMMA BeginEffect ==
    ASSUME CoreInv, NEW f \in Files, NEW k \in Slots, NEW blocked \in BOOLEAN,
           NEW r \in BeginResults(f, k, blocked)
    PROVE  /\ ResultTyped(r) /\ r.stored = stored
           /\ session.active => r.session = session
           /\ r.session.active /\ ~session.active =>
                 r.session.file = f /\ r.session.slot = k /\ Kept(r.session)
<1> DEFINE fresh == [NoSession EXCEPT !.active = TRUE, !.slot = k, !.file = f, !.open = TRUE]
<1>1. <<>> \in Seq(Units) /\ <<>> \in Seq(Units \cup {Blank}) /\ Len(<<>>) = 0 /\ <<>> \o <<>> = <<>>
  BY EmptySeq
<1>2. NoSession \in Sessions
  BY NoSessionTyped DEF SessionTyped
<1>3. fresh \in Sessions
  BY <1>2 DEF Sessions
<1>4. /\ fresh.active = TRUE /\ fresh.slot = k /\ fresh.file = f /\ fresh.got = <<>>
      /\ fresh.page = <<>> /\ fresh.flash = <<>>
  BY DEF NoSession
<1>5. SessionTyped(fresh)
  BY <1>1, <1>3, <1>4, ContentType, SizeAssumption DEF SessionTyped
<1>6. Kept(fresh)
  BY <1>1, <1>4 DEF Kept
<1> HIDE DEF fresh
<1>7. \/ r = Unchanged("active")
      \/ ~session.active /\ r = Result(fresh, stored, "none")
      \/ ~session.active /\ r = Result(NoSession, stored, "flash")
  BY DEF BeginResults, fresh
<1>8. stored \in [Slots -> Contents]
  BY CoreParts DEF DeviceTyped
<1>9. CASE r = Unchanged("active")
  BY <1>9, UnchangedTyped
<1>10. CASE ~session.active /\ r = Result(fresh, stored, "none")
  BY <1>4, <1>5, <1>6, <1>8, <1>10 DEF Result, ResultTyped
<1>11. CASE ~session.active /\ r = Result(NoSession, stored, "flash")
  <2>1. SessionTyped(NoSession) /\ ~NoSession.active
    BY NoSessionTyped DEF NoSession
  <2>2. QED
    BY <1>8, <1>11, <2>1 DEF Result, ResultTyped
<1>12. QED
  BY <1>7, <1>9, <1>10, <1>11

\* The step that sends begin keeps the invariant.
LEMMA BeginKeeps ==
    ASSUME CoreInv, UNCHANGED faults, NEW blocked \in BOOLEAN, SendBegin(blocked)
    PROVE  CoreInv'
<1>1. PICK o \in Exchange("begin", BeginResults(want.file, want.slot, blocked), FALSE) :
         Effect(o) /\ AfterBegin(o.reply)
  BY DEF SendBegin
<1>2. pc = "begin"
  BY DEF SendBegin
<1>3. /\ want.file \in Files /\ want.slot \in Slots /\ retry < MaxRetries /\ sent = 0
      /\ sent \in 0..Length[want.file] /\ retry \in 0..MaxRetries
      /\ busy => session.active
  BY <1>2, CoreParts DEF CoreInv, UploaderOK, RunTyped, Running, StatusOK
<1>4. DeviceTyped' /\ o.reply.count \in Nat \cup {Nothing} /\ o.reply.busy \in BOOLEAN
  BY <1>1, <1>3, BeginEffect, ExchangeTyped
<1>5. MailTyped'
  BY <1>1, <1>4, CoreParts DEF MailTyped, AfterBegin, Leave
<1>6. /\ session.active => session'.active
      /\ session'.active =>
            /\ session'.file = want.file /\ session'.slot = want.slot
            /\ Kept(session')
  <2>1. session.active => session.file = want.file /\ session.slot = want.slot /\ Kept(session)
    BY <1>2 DEF CoreInv, SessionOK, Opened, Kept
  <2>2. \/ o.result \in BeginResults(want.file, want.slot, blocked)
        \/ o.result.session = session
    <3>1. o.result \in BeginResults(want.file, want.slot, blocked) \cup {Unchanged("none")}
      BY Exchanged
    <3>2. Unchanged("none").session = session
      BY UnchangedTyped
    <3>3. QED
      BY <3>1, <3>2
  <2>3. /\ session.active => o.result.session = session
        /\ o.result.session.active /\ ~session.active =>
              /\ o.result.session.file = want.file /\ o.result.session.slot = want.slot
              /\ Kept(o.result.session)
    BY <1>3, <2>2, BeginEffect
  <2>4. session' = o.result.session
    BY <1>1 DEF Effect
  <2>5. QED
    BY <2>1, <2>3, <2>4
<1>7. /\ pc' \in {"confirmBegin", "failing"} /\ want' = want /\ sent' = sent /\ retry' = retry
  BY <1>1 DEF AfterBegin, Goto
<1>8. busy' => session'.active
  <2>1. busy' = o.reply.busy /\ session' = o.result.session
    BY <1>1 DEF AfterBegin, Leave, Effect
  <2>2. QED
    BY <1>3, <1>6, <2>1, Exchanged
<1>9. WantTyped' /\ RunTyped' /\ UploaderOK'
  BY <1>3, <1>7, CoreParts DEF WantTyped, RunTyped, UploaderOK, Running
<1>10. SessionOK' /\ StatusOK' /\ SuccessMeansStored'
  BY <1>6, <1>7, <1>8 DEF SessionOK, StatusOK, SuccessMeansStored, Kept, Opened
<1>11. QED
  BY <1>4, <1>5, <1>9, <1>10, CoreWhole

\* A status command changes nothing.
LEMMA StatusEffect ==
    ASSUME CoreInv, NEW o \in Exchange("status", StatusResults, TRUE), Effect(o)
    PROVE  /\ UNCHANGED <<session, stored>>
           /\ o.reply.count \in Nat \cup {Nothing} /\ o.reply.busy \in BOOLEAN
           /\ o.reply.busy = session.active \/ o.reply.busy = busy
<1>1. \A r \in StatusResults : r = Unchanged("none")
  BY DEF StatusResults
<1>2. Unchanged("none").session = session /\ Unchanged("none").stored = stored
      /\ ResultTyped(Unchanged("none"))
  BY UnchangedTyped
<1>3. o.result = Unchanged("none")
  BY <1>1, Exchanged
<1>4. o.reply.count \in Nat \cup {Nothing} /\ o.reply.busy \in BOOLEAN
  BY <1>1, <1>2, ExchangeTyped
<1>5. QED
  BY <1>2, <1>3, <1>4, Exchanged DEF Effect

\* The step that asks whether begin was executed keeps the invariant.
LEMMA ConfirmBeginKeeps ==
    ASSUME CoreInv, UNCHANGED faults, ConfirmBegin
    PROVE  CoreInv'
<1>1. PICK o \in Exchange("status", StatusResults, TRUE) :
         Effect(o) /\ AfterBeginStatus(o.reply)
  BY DEF ConfirmBegin
<1>2. pc = "confirmBegin"
  BY DEF ConfirmBegin
<1>3. /\ want.file \in Files /\ want.slot \in Slots /\ retry < MaxRetries /\ sent = 0
      /\ sent \in 0..Length[want.file] /\ retry \in 0..MaxRetries
      /\ busy => session.active
  BY <1>2, CoreParts DEF CoreInv, UploaderOK, RunTyped, Running, StatusOK
<1>4. /\ UNCHANGED <<session, stored>>
      /\ o.reply.count \in Nat \cup {Nothing} /\ o.reply.busy \in BOOLEAN
      /\ o.reply.busy = session.active \/ o.reply.busy = busy
  BY <1>1, StatusEffect
<1>5. DeviceTyped'
  BY <1>4, CoreParts DEF DeviceTyped, SessionTyped
<1>6. MailTyped' /\ busy' = o.reply.busy
  BY <1>1, <1>4, CoreParts DEF MailTyped, AfterBeginStatus, Take
<1>7. Length[want.file] \in Nat /\ Length[want.file] > 0 /\ MaxRetries \in Nat
      /\ MaxRetries > 0
  BY <1>3, ContentType, SizeAssumption
<1>8. SessionOK' /\ (pc' # "success" => SuccessMeansStored')
  BY <1>1, <1>2, <1>4 DEF CoreInv, SessionOK, Opened, SuccessMeansStored, AfterBeginStatus,
        Proceed, Again
<1>9. CASE Confirms(o.reply, TRUE)
  <2>1. pc' = "data" /\ want' = want /\ sent' = sent /\ retry' = 0
    BY <1>1, <1>9 DEF AfterBeginStatus, Proceed
  <2>2. busy' /\ session'.active
    BY <1>3, <1>4, <1>6, <1>9 DEF Confirms
  <2>3. WantTyped' /\ RunTyped' /\ UploaderOK'
    BY <1>3, <1>7, <2>1, CoreParts DEF WantTyped, RunTyped, UploaderOK, Running
  <2>4. StatusOK'
    BY <2>1, <2>2 DEF StatusOK
  <2>5. QED
    BY <1>5, <1>6, <1>8, <2>1, <2>3, <2>4, CoreWhole
<1>10. CASE ~Confirms(o.reply, TRUE)
  <2>1. /\ want' = want /\ sent' = sent /\ retry' = retry + 1
        /\ pc' = IF retry + 1 < MaxRetries THEN "begin" ELSE "failing"
    BY <1>1, <1>10 DEF AfterBeginStatus, Again
  <2>2. WantTyped' /\ RunTyped' /\ UploaderOK'
    BY <1>3, <1>7, <2>1, CoreParts DEF WantTyped, RunTyped, UploaderOK, Running
  <2>3. StatusOK'
    BY <1>3, <1>4, <1>6, <2>1 DEF StatusOK
  <2>4. QED
    BY <1>5, <1>6, <1>8, <2>1, <2>2, <2>3, CoreWhole
<1>11. QED
  BY <1>9, <1>10

\* The step that sends a frame keeps the invariant.
LEMMA DataKeeps ==
    ASSUME CoreInv, FaultsApart, UNCHANGED faults, SendData
    PROVE  CoreInv'
<1>1. PICK o \in Exchange("data", DataResults(Chunk), TRUE) :
         Effect(o) /\ AfterData(o.reply)
  BY DEF SendData
<1>2. pc = "data"
  BY DEF SendData
<1>3. /\ want.file \in Files /\ want.slot \in Slots /\ retry < MaxRetries
      /\ sent \in 0..Length[want.file] /\ retry \in 0..MaxRetries /\ sent < Length[want.file]
      /\ session.active /\ busy
  BY <1>2, CoreParts DEF CoreInv, UploaderOK, RunTyped, Running, StatusOK
<1>4. session.file = want.file /\ session.slot = want.slot /\ Kept(session)
  BY <1>2, <1>3 DEF CoreInv, SessionOK, Opened, Kept
<1>5. /\ Chunk \in Seq(Units) /\ Len(Chunk) \in Nat /\ Len(Chunk) <= FrameSize
      /\ sent + Len(Chunk) \in 0..Length[want.file] /\ Len(Chunk) > 0
  BY <1>3, ChunkType
<1>6. \A r \in DataResults(Chunk) :
         /\ r.stored = stored /\ SessionTyped(r.session)
         /\ r.session.active /\ r.session.file = session.file /\ r.session.slot = session.slot
         /\ Kept(r.session) \/ (faults.flash /\ r.error = "flash")
  BY <1>3, <1>4, <1>5, DataEffect
<1>7. DeviceTyped' /\ o.reply.count \in Nat \cup {Nothing} /\ o.reply.busy \in BOOLEAN
  <2>1. stored \in [Slots -> Contents]
    BY CoreParts DEF DeviceTyped
  <2>2. \A r \in DataResults(Chunk) : ResultTyped(r)
    BY <1>6, <2>1 DEF ResultTyped
  <2>3. QED
    BY <1>1, <2>2, ExchangeTyped
<1>8. MailTyped' /\ busy' = o.reply.busy
  BY <1>1, <1>7, CoreParts DEF MailTyped, AfterData, Take
<1>9. o.result \in DataResults(Chunk) \cup {Unchanged("none")}
      /\ Unchanged("none").session = session
  BY Exchanged, UnchangedTyped
<1>10. session' = o.result.session
  BY <1>1 DEF Effect
<1>11. session'.active /\ session'.file = want.file /\ session'.slot = want.slot
  BY <1>3, <1>4, <1>6, <1>9, <1>10
<1>12. busy'
  BY <1>3, <1>8, <1>10, <1>11, Exchanged
<1>13. o.reply.error = "none" => Kept(session')
  <2>1. SUFFICES ASSUME ~Kept(session') PROVE o.reply.error # "none"
    OBVIOUS
  <2>2. o.result \in DataResults(Chunk) /\ faults.flash /\ o.result.error = "flash"
    BY <1>4, <1>6, <1>9, <1>10, <2>1
  <2>3. faults \in Faults
    BY CoreParts DEF MailTyped
  <2>4. Doubtful("data") = {"timeout"}
    BY <2>2, <2>3, Doubts
  <2>5. QED
    BY <2>2, <2>4, Exchanged
<1>14. MaxRetries \in Nat /\ MaxRetries > 0 /\ Length[want.file] \in Nat
  BY <1>3, ContentType, SizeAssumption
<1>15. CASE o.reply.error = "none" /\ o.reply.count = sent + Len(Chunk)
  <2>1. /\ want' = want /\ sent' = sent + Len(Chunk) /\ retry' = 0
        /\ pc' = IF sent' = Length[want.file] THEN "end" ELSE "data"
    BY <1>1, <1>15 DEF AfterData, Accepted
  <2>2. WantTyped' /\ RunTyped' /\ UploaderOK'
    BY <1>3, <1>5, <1>14, <2>1, CoreParts DEF WantTyped, RunTyped, UploaderOK, Running
  <2>3. SessionOK' /\ StatusOK' /\ SuccessMeansStored'
    BY <1>11, <1>12, <1>13, <1>15, <2>1 DEF SessionOK, StatusOK, SuccessMeansStored, Kept
  <2>4. QED
    BY <1>7, <1>8, <2>2, <2>3, CoreWhole
<1>16. CASE o.reply.error = "none" /\ o.reply.count = sent /\ o.reply.count # sent + Len(Chunk)
  <2>1. /\ want' = want /\ sent' = sent /\ retry' = retry + 1
        /\ pc' = IF retry + 1 < MaxRetries THEN "data" ELSE "failing"
    BY <1>1, <1>16 DEF AfterData, Again
  <2>2. WantTyped' /\ RunTyped' /\ UploaderOK'
    BY <1>3, <1>14, <2>1, CoreParts DEF WantTyped, RunTyped, UploaderOK, Running
  <2>3. SessionOK' /\ StatusOK' /\ SuccessMeansStored'
    BY <1>11, <1>12, <1>13, <1>16, <2>1 DEF SessionOK, StatusOK, SuccessMeansStored, Kept
  <2>4. QED
    BY <1>7, <1>8, <2>2, <2>3, CoreWhole
<1>17. CASE /\ ~(o.reply.error = "none" /\ o.reply.count = sent + Len(Chunk))
            /\ ~(o.reply.error = "none" /\ o.reply.count = sent)
  <2>1. want' = want /\ sent' = sent /\ retry' = retry /\ pc' = "failing"
    BY <1>1, <1>17 DEF AfterData, Goto
  <2>2. WantTyped' /\ RunTyped' /\ UploaderOK'
    BY <1>3, <2>1, CoreParts DEF WantTyped, RunTyped, UploaderOK, Running
  <2>3. SessionOK' /\ StatusOK' /\ SuccessMeansStored'
    BY <2>1 DEF SessionOK, StatusOK, SuccessMeansStored, Opened
  <2>4. QED
    BY <1>7, <1>8, <2>2, <2>3, CoreWhole
<1>18. QED
  BY <1>15, <1>16, <1>17

\* A page filled up with $FF.
LEMMA PaddedType ==
    ASSUME NEW S, Blank \in S, NEW page \in Seq(S), Len(page) <= PageSize
    PROVE  \E pad \in Seq(S) : Padded(page) = page \o pad
<1>1. Len(page) \in Nat /\ PageSize \in Nat
  BY LenProperties, SizeAssumption
<1> DEFINE pad == [n \in 1..(PageSize - Len(page)) |-> Blank]
<1>2. PageSize - Len(page) \in Nat
  BY <1>1
<1>3. pad \in [1..(PageSize - Len(page)) -> S]
  OBVIOUS
<1>4. pad \in Seq(S)
  BY <1>2, <1>3, Numbered
<1>5. QED
  BY <1>4 DEF Padded

\* The last page in flash, the slot has all that was received.
Completed(S, flash, page, pad) ==
    /\ flash \o (page \o pad) \in Seq(S)
    /\ Len(flash \o (page \o pad)) >= Len(flash \o page)
    /\ SubSeq(flash \o (page \o pad), 1, Len(flash \o page)) = flash \o page

\* The last page, filled up, completes the data.
LEMMA LastPage ==
    ASSUME NEW S, NEW flash \in Seq(S), NEW page \in Seq(S), NEW pad \in Seq(S)
    PROVE  Completed(S, flash, page, pad)
<1>1. flash \o (page \o pad) = (flash \o page) \o pad
  BY ConcatAssociative, SMTT(60)
<1>2. ASSUME NEW whole \in Seq(S)
      PROVE  /\ whole \o pad \in Seq(S) /\ Len(whole \o pad) >= Len(whole)
             /\ SubSeq(whole \o pad, 1, Len(whole)) = whole
  <2>1. whole \o pad \in Seq(S) /\ Len(whole \o pad) = Len(whole) + Len(pad)
    BY ConcatProperties
  <2>2. Len(whole) \in Nat /\ Len(pad) \in Nat
    BY LenProperties
  <2>3. SubSeq(whole \o pad, 1, Len(whole)) = whole
    BY CutBack
  <2>4. QED
    BY <2>1, <2>2, <2>3
<1>3. flash \o page \in Seq(S)
  BY ConcatProperties
<1>4. QED
  BY <1>1, <1>2, <1>3 DEF Completed

\* What a slot holds once the record of the session's core is valid.
Committed == [stored EXCEPT ![session.slot] = Content(session.file)]

\* What the commit leaves in the slot that was asked for.
LEMMA CommitEffect ==
    ASSUME CoreInv, session.active, NEW s \in Sessions, SessionTyped(s),
           s.active, s.file = session.file, s.slot = session.slot,
           s.open => /\ Len(s.flash) >= Length[s.file]
                     /\ SubSeq(s.flash, 1, Length[s.file]) = Content(s.file),
           NEW r \in CommitResults(s)
    PROVE  /\ ResultTyped(r)
           /\ r.stored \in {stored, Committed}
           /\ r.session.active =>
                 r.session.file = session.file /\ r.session.slot = session.slot /\ Kept(r.session)
           /\ ~r.session.active => r.stored = Committed
<1>1. session.file \in Files /\ session.slot \in Slots /\ stored \in [Slots -> Contents]
  BY CoreParts DEF DeviceTyped, SessionTyped
<1>2. Committed \in [Slots -> Contents]
  BY <1>1 DEF Committed, Contents
<1> DEFINE closed == [s EXCEPT !.open = FALSE]
<1>3. closed \in Sessions
  BY DEF Sessions
<1>4. /\ closed.open = FALSE /\ closed.active = s.active /\ closed.file = s.file
      /\ closed.slot = s.slot /\ closed.got = s.got /\ closed.page = s.page
  BY DEF Sessions
<1>5. SessionTyped(closed)
  BY <1>3, <1>4 DEF SessionTyped
<1> HIDE DEF closed
<1>6. CASE s.open
  <2>1. \/ r = Result(Ended(s), Committed, "none")
        \/ \E st \in {stored, Committed} : r = Result(closed, st, "metadata")
    BY <1>6 DEF CommitResults, Committed, If, closed
  <2>2. CASE r = Result(Ended(s), Committed, "none")
    <3>1. SessionTyped(Ended(s)) /\ ~Ended(s).active
      BY EndedTyped
    <3>2. QED
      BY <1>2, <2>2, <3>1 DEF Result, ResultTyped
  <2>3. ASSUME NEW st \in {stored, Committed}, r = Result(closed, st, "metadata")
        PROVE  /\ ResultTyped(r) /\ r.stored = st /\ r.session.active
               /\ r.session.file = session.file /\ r.session.slot = session.slot
               /\ Kept(r.session)
    <3>1. r.session = closed /\ r.stored = st
      BY <2>3 DEF Result
    <3>2. QED
      BY <1>1, <1>2, <1>4, <1>5, <3>1 DEF ResultTyped, Kept
  <2>4. QED
    BY <2>1, <2>2, <2>3
<1>7. CASE ~s.open
  <2>1. r = Result(s, stored, "metadata")
    BY <1>7 DEF CommitResults
  <2>2. r.session = s /\ r.stored = stored
    BY <2>1 DEF Result
  <2>3. QED
    BY <1>1, <1>7, <2>2 DEF ResultTyped, Kept
<1>8. QED
  BY <1>6, <1>7

\* The end of a session: the core is stored, or the session stays.
LEMMA EndEffect ==
    ASSUME CoreInv, session.active, Kept(session), NEW r \in EndResults
    PROVE  /\ ResultTyped(r)
           /\ r.stored \in {stored, Committed}
           /\ r.session.active =>
                 r.session.file = session.file /\ r.session.slot = session.slot /\ Kept(r.session)
           /\ ~r.session.active => r.stored = Committed
<1>1. session \in Sessions /\ SessionTyped(session) /\ session.file \in Files
  BY SessionNow DEF SessionTyped
<1>2. ASSUME NEW e, r = Unchanged(e)
      PROVE  /\ ResultTyped(r) /\ r.stored = stored /\ r.session = session
  BY <1>2, UnchangedTyped
<1>3. CASE r \in {Unchanged("size"), Unchanged("crc"), Unchanged("flash")}
  BY <1>2, <1>3
<1>4. CASE r \notin {Unchanged("size"), Unchanged("crc"), Unchanged("flash")}
  <2>1. r \in FinishResults /\ session.got = Content(session.file)
    BY <1>4 DEF EndResults
  <2>2. Len(session.got) = Length[session.file]
    BY <1>1, <2>1, ContentType
  <2>3. session.page \in Seq(Cells)
    BY SessionNow
  <2>4. session.flash \in Seq(Cells)
    BY SessionNow
  <2>5. session.page \in Seq(Units)
    BY SessionNow
  <2>6. CASE session.page = <<>>
    <3>1. r \in CommitResults(session)
      BY <2>1, <2>6 DEF FinishResults
    <3>2. session.flash \o <<>> = session.flash
      BY <2>4, ConcatEmptySeq
    <3>3. session.open => session.flash = Content(session.file)
      BY <2>1, <2>6, <3>2 DEF Kept
    <3>4. session.open => /\ Len(session.flash) >= Length[session.file]
                          /\ SubSeq(session.flash, 1, Length[session.file]) = Content(session.file)
      <4>1. Len(Content(session.file)) = Length[session.file] /\ Length[session.file] \in Nat
            /\ Content(session.file) \in Seq(Units)
        BY <1>1, ContentType
      <4>2. SubSeq(Content(session.file), 1, Len(Content(session.file))) = Content(session.file)
        BY <4>1, SubSeqFull
      <4>3. QED
        BY <3>3, <4>1, <4>2
    <3>5. QED
      BY <1>1, <3>1, <3>4, CommitEffect
  <2>7. CASE session.page # <<>>
    <3> DEFINE last == session.flash \o Padded(session.page)
               s == [session EXCEPT !.page = <<>>, !.flash = last]
    <3>1. r \in CommitResults(s)
      BY <1>4, <2>1, <2>7 DEF FinishResults, If
    <3>2. PICK pad \in Seq(Cells) : Padded(session.page) = session.page \o pad
      <4>1. Blank \in Cells /\ Len(session.page) <= PageSize
        BY SessionNow DEF Cells
      <4>2. QED
        BY <2>3, <4>1, PaddedType
    <3>3. /\ last \in Seq(Cells)
          /\ Len(last) >= Len(session.flash \o session.page)
          /\ SubSeq(last, 1, Len(session.flash \o session.page)) = session.flash \o session.page
      <4>1. Completed(Cells, session.flash, session.page, pad)
        BY <2>3, <2>4, LastPage
      <4>2. QED
        BY <3>2, <4>1 DEF Completed
    <3> HIDE DEF last
    <3>4. session.open => /\ Len(last) >= Length[session.file]
                          /\ SubSeq(last, 1, Length[session.file]) = Content(session.file)
      BY <2>1, <2>2, <3>3 DEF Kept
    <3>5. s \in Sessions
      <4>1. <<>> \in Seq(Units)
        BY EmptySeq
      <4>2. QED
        BY <1>1, <3>3, <4>1 DEF Sessions, Cells
    <3>6. /\ s.active = session.active /\ s.file = session.file /\ s.slot = session.slot
          /\ s.open = session.open /\ s.flash = last /\ s.got = session.got /\ s.page = <<>>
      BY <1>1 DEF Sessions
    <3>7. SessionTyped(s)
      <4>1. Len(<<>>) = 0
        BY EmptySeq
      <4>2. QED
        BY <1>1, <3>5, <3>6, <4>1, SizeAssumption DEF SessionTyped
    <3> HIDE DEF s
    <3>8. QED
      BY <3>1, <3>4, <3>5, <3>6, <3>7, CommitEffect
  <2>8. QED
    BY <2>6, <2>7
<1>5. QED
  BY <1>3, <1>4

\* What an end command does to the slots and the session, whatever is read of it.
LEMMA EndOutcome ==
    ASSUME CoreInv, pc = "end", NEW o \in Exchange("end", EndResults, TRUE), Effect(o)
    PROVE  /\ DeviceTyped' /\ o.reply.count \in Nat \cup {Nothing} /\ o.reply.busy \in BOOLEAN
           /\ stored' \in {stored, [stored EXCEPT ![want.slot] = Content(want.file)]}
           /\ session'.active =>
                 /\ session'.file = want.file /\ session'.slot = want.slot /\ Kept(session')
                 /\ o.reply.busy
           /\ ~session'.active => stored'[want.slot] = Content(want.file)
<1>1. want.file \in Files /\ want.slot \in Slots /\ stored \in [Slots -> Contents]
  BY CoreParts DEF CoreInv, UploaderOK, Running, DeviceTyped
<1>2. IF session.active THEN busy ELSE stored[want.slot] = Content(want.file)
  BY DEF CoreInv, StatusOK, WantStored
<1>3. session' = o.result.session /\ stored' = o.result.stored
  BY DEF Effect
<1>4. o.result \in EndResults \cup {Unchanged("none")}
  BY Exchanged
<1>5. /\ ResultTyped(Unchanged("none")) /\ Unchanged("none").session = session
      /\ Unchanged("none").stored = stored
  BY UnchangedTyped
<1>6. CASE session.active
  <2>1. session.file = want.file /\ session.slot = want.slot /\ Kept(session)
    BY <1>6 DEF CoreInv, SessionOK, Opened, Kept
  <2>2. Committed = [stored EXCEPT ![want.slot] = Content(want.file)]
    BY <2>1 DEF Committed
  <2>3. \A r \in EndResults :
           /\ ResultTyped(r)
           /\ r.stored \in {stored, Committed}
           /\ r.session.active =>
                 r.session.file = session.file /\ r.session.slot = session.slot /\ Kept(r.session)
           /\ ~r.session.active => r.stored = Committed
    BY <1>6, <2>1, EndEffect
  <2>4. DeviceTyped' /\ o.reply.count \in Nat \cup {Nothing} /\ o.reply.busy \in BOOLEAN
    BY <2>3, ExchangeTyped
  <2>5. /\ stored' \in {stored, Committed}
        /\ session'.active =>
              session'.file = want.file /\ session'.slot = want.slot /\ Kept(session')
        /\ ~session'.active => stored' = Committed
    BY <1>3, <1>4, <1>5, <1>6, <2>1, <2>3
  <2>6. session'.active => o.reply.busy
    BY <1>2, <1>3, <1>6, Exchanged
  <2>7. Committed[want.slot] = Content(want.file)
    BY <1>1, <2>2
  <2>8. QED
    BY <2>2, <2>4, <2>5, <2>6, <2>7
<1>7. CASE ~session.active
  <2>1. \A r \in EndResults : r = Unchanged("noUpload")
    BY <1>7 DEF EndResults
  <2>2. /\ ResultTyped(Unchanged("noUpload")) /\ Unchanged("noUpload").session = session
        /\ Unchanged("noUpload").stored = stored
    BY UnchangedTyped
  <2>3. session' = session /\ stored' = stored
    BY <1>3, <1>4, <1>5, <2>1, <2>2
  <2>4. DeviceTyped' /\ o.reply.count \in Nat \cup {Nothing} /\ o.reply.busy \in BOOLEAN
    BY <2>1, <2>2, ExchangeTyped
  <2>5. QED
    BY <1>2, <1>7, <2>3, <2>4
<1>8. QED
  BY <1>6, <1>7

\* The step that sends end keeps the invariant.
LEMMA EndKeeps ==
    ASSUME CoreInv, UNCHANGED faults, SendEnd
    PROVE  CoreInv'
<1>1. PICK o \in Exchange("end", EndResults, TRUE) : Effect(o) /\ AfterEnd(o.reply)
  BY DEF SendEnd
<1>2. pc = "end"
  BY DEF SendEnd
<1>3. /\ want.file \in Files /\ want.slot \in Slots /\ retry < MaxRetries
      /\ sent \in 0..Length[want.file] /\ retry \in 0..MaxRetries
  BY <1>2, CoreParts DEF CoreInv, UploaderOK, RunTyped, Running
<1>4. /\ DeviceTyped' /\ o.reply.count \in Nat \cup {Nothing} /\ o.reply.busy \in BOOLEAN
      /\ session'.active =>
            /\ session'.file = want.file /\ session'.slot = want.slot /\ Kept(session')
            /\ o.reply.busy
      /\ ~session'.active => stored'[want.slot] = Content(want.file)
  BY <1>1, <1>2, EndOutcome
<1>5. MailTyped' /\ busy' = o.reply.busy
  BY <1>1, <1>4, CoreParts DEF MailTyped, AfterEnd, Leave
<1>6. /\ pc' \in {"confirmEnd", "failing"} /\ want' = want /\ sent' = sent /\ retry' = retry
  BY <1>1 DEF AfterEnd, Goto
<1>7. WantTyped' /\ RunTyped' /\ UploaderOK'
  BY <1>3, <1>6, CoreParts DEF WantTyped, RunTyped, UploaderOK, Running
<1>8. SessionOK' /\ StatusOK' /\ SuccessMeansStored'
  BY <1>4, <1>5, <1>6 DEF SessionOK, StatusOK, SuccessMeansStored, WantStored, Kept, Opened
<1>9. QED
  BY <1>4, <1>5, <1>7, <1>8, CoreWhole

\* The step that asks whether end was executed keeps the invariant.
LEMMA ConfirmEndKeeps ==
    ASSUME CoreInv, UNCHANGED faults, ConfirmEnd
    PROVE  CoreInv'
<1>1. PICK o \in Exchange("status", StatusResults, TRUE) :
         Effect(o) /\ AfterEndStatus(o.reply)
  BY DEF ConfirmEnd
<1>2. pc = "confirmEnd"
  BY DEF ConfirmEnd
<1>3. /\ want.file \in Files /\ want.slot \in Slots /\ retry < MaxRetries
      /\ sent \in 0..Length[want.file] /\ retry \in 0..MaxRetries
      /\ IF session.active THEN busy ELSE WantStored
  BY <1>2, CoreParts DEF CoreInv, UploaderOK, RunTyped, Running, StatusOK
<1>4. /\ UNCHANGED <<session, stored>>
      /\ o.reply.count \in Nat \cup {Nothing} /\ o.reply.busy \in BOOLEAN
      /\ o.reply.busy = session.active \/ o.reply.busy = busy
  BY <1>1, StatusEffect
<1>5. DeviceTyped'
  BY <1>4, CoreParts DEF DeviceTyped, SessionTyped
<1>6. MailTyped' /\ busy' = o.reply.busy
  BY <1>1, <1>4, CoreParts DEF MailTyped, AfterEndStatus, Take
<1>7. MaxRetries \in Nat /\ want' = want
  BY <1>1, SizeAssumption DEF AfterEndStatus, Quit, Again
<1>8. WantStored' <=> WantStored
  BY <1>4, <1>7 DEF WantStored
<1>9. CASE Confirms(o.reply, FALSE)
  <2>1. pc' = "success"
    BY <1>1, <1>9 DEF AfterEndStatus, Quit
  <2>2. o.reply.busy = FALSE
    BY <1>9 DEF Confirms
  <2>3. WantStored
    BY <1>3, <1>4, <2>2
  <2>4. WantTyped' /\ RunTyped' /\ UploaderOK'
    BY <1>7, <2>1, CoreParts DEF WantTyped, RunTyped, UploaderOK, Running
  <2>5. SessionOK' /\ StatusOK' /\ SuccessMeansStored'
    BY <1>8, <2>1, <2>3 DEF SessionOK, StatusOK, SuccessMeansStored, WantStored, Opened
  <2>6. QED
    BY <1>5, <1>6, <2>4, <2>5, CoreWhole
<1>10. CASE ~Confirms(o.reply, FALSE)
  <2>1. /\ sent' = sent /\ retry' = retry + 1
        /\ pc' = IF retry + 1 < MaxRetries THEN "end" ELSE "failing"
    BY <1>1, <1>10 DEF AfterEndStatus, Again
  <2>2. WantTyped' /\ RunTyped' /\ UploaderOK'
    BY <1>3, <1>7, <2>1, CoreParts DEF WantTyped, RunTyped, UploaderOK, Running
  <2>3. StatusOK'
    BY <1>3, <1>4, <1>6, <1>8, <2>1 DEF StatusOK
  <2>4. SessionOK' /\ SuccessMeansStored'
    BY <1>2, <1>4, <1>7, <2>1 DEF CoreInv, SessionOK, Opened, SuccessMeansStored
  <2>5. QED
    BY <1>5, <1>6, <2>2, <2>3, <2>4, CoreWhole
<1>11. QED
  BY <1>9, <1>10

\* The step that ends a transfer that failed keeps the invariant.
LEMMA FailAbortKeeps ==
    ASSUME CoreInv, UNCHANGED faults, SendFailAbort
    PROVE  CoreInv'
<1>1. PICK o \in Exchange("abort", AbortResults, FALSE) : Effect(o) /\ AfterFailAbort(o.reply)
  BY DEF SendFailAbort
<1>2. DeviceTyped' /\ o.reply.count \in Nat \cup {Nothing} /\ o.reply.busy \in BOOLEAN
  BY <1>1, AbortEffect, ExchangeTyped
<1>3. MailTyped'
  BY <1>1, <1>2, CoreParts DEF MailTyped, AfterFailAbort, Leave
<1>4. pc' = "failed" /\ want' = want
  BY <1>1 DEF AfterFailAbort, Quit
<1>5. WantTyped' /\ RunTyped' /\ UploaderOK'
  BY <1>4, CoreParts DEF WantTyped, RunTyped, UploaderOK, Running
<1>6. SessionOK' /\ StatusOK' /\ SuccessMeansStored'
  BY <1>4 DEF SessionOK, StatusOK, SuccessMeansStored, Opened
<1>7. QED
  BY <1>2, <1>3, <1>5, <1>6, CoreWhole

\* The steps in which no command is sent.
LEMMA QuietKeeps ==
    ASSUME CoreInv, UNCHANGED faults,
           (\E f \in Files, k \in Slots : Start(f, k)) \/ FileFails \/ Poll \/ ResetK2 \/ PowerCycle
    PROVE  CoreInv'
<1>1. MaxRetries \in Nat /\ MaxRetries > 0 /\ NoFile \notin Files /\ \A f \in Files : Length[f] \in Nat
  BY ContentType, SizeAssumption
<1>2. /\ DeviceTyped /\ MailTyped /\ WantTyped /\ RunTyped
      /\ UploaderOK /\ SessionOK /\ StatusOK /\ SuccessMeansStored
  BY CoreParts DEF CoreInv
<1>3. ASSUME UNCHANGED <<session, stored>> PROVE DeviceTyped'
  BY <1>2, <1>3 DEF DeviceTyped, SessionTyped
<1>4. ASSUME NEW f \in Files, NEW k \in Slots, Start(f, k) PROVE CoreInv'
  <2>1. /\ pc' = "abort" /\ want' = [file |-> f, slot |-> k] /\ sent' = 0 /\ retry' = 0
        /\ count' = Nothing /\ UNCHANGED <<session, stored, busy>>
    BY <1>4 DEF Start
  <2>2. DeviceTyped' /\ MailTyped'
    BY <1>2, <1>3, <2>1 DEF MailTyped
  <2>3. WantTyped' /\ RunTyped' /\ UploaderOK'
    BY <1>1, <2>1 DEF WantTyped, RunTyped, UploaderOK, Running
  <2>4. SessionOK' /\ StatusOK' /\ SuccessMeansStored'
    BY <2>1 DEF SessionOK, StatusOK, SuccessMeansStored, Opened
  <2>5. QED
    BY <2>2, <2>3, <2>4, CoreWhole
<1>5. ASSUME FileFails PROVE CoreInv'
  <2>1. /\ pc \in {"data", "end"} /\ pc' = "failing"
        /\ UNCHANGED <<want, sent, retry, session, stored, count, busy>>
    BY <1>5 DEF FileFails, Goto
  <2>2. DeviceTyped' /\ MailTyped'
    BY <1>2, <1>3, <2>1 DEF MailTyped
  <2>3. WantTyped' /\ RunTyped' /\ UploaderOK'
    BY <1>2, <2>1 DEF WantTyped, RunTyped, UploaderOK, Running
  <2>4. SessionOK' /\ StatusOK' /\ SuccessMeansStored'
    BY <2>1 DEF SessionOK, StatusOK, SuccessMeansStored, Opened
  <2>5. QED
    BY <2>2, <2>3, <2>4, CoreWhole
<1>6. ASSUME Poll PROVE CoreInv'
  <2>1. busy' = session.active /\ UNCHANGED <<session, stored, pc, want, sent, retry, count>>
    BY <1>6 DEF Poll
  <2>2. session.active \in BOOLEAN
    BY <1>2 DEF DeviceTyped, SessionTyped, Sessions
  <2>3. DeviceTyped' /\ MailTyped'
    BY <1>2, <1>3, <2>1, <2>2 DEF MailTyped
  <2>4. WantTyped' /\ RunTyped' /\ UploaderOK'
    BY <1>2, <2>1 DEF WantTyped, RunTyped, UploaderOK, Running
  <2>5. SessionOK' /\ SuccessMeansStored'
    BY <1>2, <2>1 DEF SessionOK, SuccessMeansStored
  <2>6. StatusOK'
    BY <1>2, <2>1 DEF StatusOK, WantStored
  <2>7. QED
    BY <2>3, <2>4, <2>5, <2>6, CoreWhole
<1>7. ASSUME pc' = "idle", want' = NoWant, DeviceTyped', MailTyped' PROVE CoreInv'
  <2>1. WantTyped' /\ RunTyped' /\ UploaderOK'
    BY <1>7 DEF WantTyped, RunTyped, UploaderOK, Running, NoWant
  <2>2. SessionOK' /\ StatusOK' /\ SuccessMeansStored'
    BY <1>7 DEF SessionOK, StatusOK, SuccessMeansStored, Opened
  <2>3. QED
    BY <1>7, <2>1, <2>2, CoreWhole
<1>8. ASSUME ResetK2 PROVE CoreInv'
  <2>1. pc' = "idle" /\ want' = NoWant /\ UNCHANGED <<session, stored, count, busy>>
    BY <1>8 DEF ResetK2, StartAnew
  <2>2. MailTyped'
    BY <1>2, <2>1 DEF MailTyped
  <2>3. QED
    BY <1>3, <1>7, <2>1, <2>2
<1>9. ASSUME PowerCycle PROVE CoreInv'
  <2>1. /\ pc' = "idle" /\ want' = NoWant /\ session' = NoSession /\ UNCHANGED stored
        /\ count' = Nothing /\ busy' = FALSE
    BY <1>9 DEF PowerCycle, StartAnew
  <2>2. DeviceTyped' /\ MailTyped'
    BY <1>2, <2>1, NoSessionTyped DEF DeviceTyped, MailTyped, SessionTyped
  <2>3. QED
    BY <1>7, <2>1, <2>2
<1>10. QED
  BY <1>4, <1>5, <1>6, <1>8, <1>9

\* The invariant of the core transfer holds at the start.
LEMMA CoreBegins ==
    ASSUME Init
    PROVE  CoreInv
<1>1. /\ session = NoSession /\ stored = [s \in Slots |-> <<>>] /\ pc = "idle" /\ want = NoWant
      /\ count = Nothing /\ busy = FALSE /\ faults \in Faults
  BY DEF Init
<1>2. SessionTyped(session)
  BY <1>1, NoSessionTyped
<1>3. stored \in [Slots -> Contents]
  BY <1>1 DEF Contents
<1>4. \A k \in Slots : stored[k] \in Seq(Units \cup {Blank})
  BY <1>3, ContentsTyped
<1>5. TypeOK
  BY <1>1, <1>2, <1>4 DEF TypeOK, SessionTyped, NoWant, Running
<1>6. UploaderOK /\ SessionOK /\ StatusOK /\ SuccessMeansStored
  BY <1>1 DEF UploaderOK, SessionOK, StatusOK, SuccessMeansStored, Running, Opened
<1>7. QED
  BY <1>3, <1>5, <1>6 DEF CoreInv

\* Every step of the uploader keeps the invariant of the core transfer.
LEMMA TransferKeeps ==
    ASSUME FaultsApart, CoreInv, NEW blocked \in BOOLEAN, Transfer(blocked)
    PROVE  CoreInv'
BY AbortKeeps, BeginKeeps, ConfirmBeginKeeps, DataKeeps, EndKeeps, ConfirmEndKeeps,
   FailAbortKeeps DEF Transfer

\* Only an end command changes a slot.
Wanted ==
    \A k \in Slots : stored'[k] # stored[k] =>
        pc = "end" /\ k = want.slot /\ stored'[k] = Content(want.file)

\* A step of the uploader changes a slot only as Wanted says.
LEMMA TransferWanted ==
    ASSUME CoreInv, NEW blocked \in BOOLEAN, Transfer(blocked)
    PROVE  Wanted
<1>1. stored \in [Slots -> Contents]
  BY CoreParts DEF DeviceTyped
<1>2. ASSUME stored' = stored PROVE Wanted
  BY <1>2 DEF Wanted
<1>3. ASSUME NEW command, NEW results, NEW counted,
             \A r \in results : r.stored = stored,
             NEW o \in Exchange(command, results, counted), Effect(o)
      PROVE  Wanted
  <2>1. o.result.stored = stored
    BY <1>3, Exchanged, UnchangedTyped
  <2>2. QED
    BY <1>2, <1>3, <2>1 DEF Effect
<1>4. ASSUME SendAbort \/ SendFailAbort PROVE Wanted
  BY <1>3, <1>4, AbortEffect DEF SendAbort, SendFailAbort
<1>5. ASSUME SendBegin(blocked) PROVE Wanted
  <2>1. want.file \in Files /\ want.slot \in Slots
    BY <1>5 DEF SendBegin, CoreInv, UploaderOK, Running
  <2>2. \A r \in BeginResults(want.file, want.slot, blocked) : r.stored = stored
    BY <2>1, BeginEffect
  <2>3. QED
    BY <1>3, <1>5, <2>2 DEF SendBegin
<1>6. ASSUME ConfirmBegin \/ ConfirmEnd PROVE Wanted
  <2>1. stored' = stored
    BY <1>6, StatusEffect DEF ConfirmBegin, ConfirmEnd
  <2>2. QED
    BY <1>2, <2>1
<1>7. ASSUME SendData PROVE Wanted
  <2>1. \A r \in DataResults(Chunk) : r.stored = stored
    BY DEF DataResults, If, Unchanged, Result
  <2>2. QED
    BY <1>3, <1>7, <2>1 DEF SendData
<1>8. ASSUME SendEnd PROVE Wanted
  <2>1. PICK o \in Exchange("end", EndResults, TRUE) : Effect(o)
    BY <1>8 DEF SendEnd
  <2>2. pc = "end"
    BY <1>8 DEF SendEnd
  <2>3. stored' \in {stored, [stored EXCEPT ![want.slot] = Content(want.file)]}
    BY <2>1, <2>2, EndOutcome
  <2>4. QED
    BY <1>1, <2>2, <2>3 DEF Wanted
<1>9. QED
  BY <1>4, <1>5, <1>6, <1>7, <1>8 DEF Transfer

-----------------------------------------------------------------------------
(* The firmware transfer: data *)

\* What follows the manifest goes on with the frames that arrive.
LEMMA BehindConcat ==
    ASSUME NEW S, NEW a \in Seq(S), NEW b \in Seq(S), NEW n \in Nat, n <= Len(a)
    PROVE  Behind(a \o b, n) = Behind(a, n) \o b
<1>1. a \o b \in Seq(S) /\ Len(a \o b) = Len(a) + Len(b)
  BY ConcatProperties
<1>2. Len(a) \in Nat /\ Len(b) \in Nat
  BY LenProperties
<1>3. SubSeq(a \o b, n + 1, Len(a)) = SubSeq(a, n + 1, Len(a))
  <2>1. CASE n = Len(a)
    <3>1. n + 1 \in Int /\ Len(a) \in Int /\ Len(a) < n + 1
      BY <1>2, <2>1
    <3>2. QED
      BY <3>1, SubSeqEmpty
  <2>2. CASE n # Len(a)
    <3>1. n + 1 \in 1..Len(a) /\ Len(a) \in 1..Len(a)
      BY <1>2, <2>2
    <3>2. QED
      BY <3>1, SubSeqOfConcat1
  <2>3. QED
    BY <2>1, <2>2
<1>4. SubSeq(a \o b, Len(a) + 1, Len(a) + Len(b)) = b
  <2>1. CASE b = <<>>
    <3>1. Len(b) = 0
      BY <2>1, EmptySeq
    <3>2. SubSeq(a \o b, Len(a) + 1, Len(a) + Len(b)) = <<>>
      BY <1>2, <3>1, SubSeqEmpty
    <3>3. QED
      BY <2>1, <3>2
  <2>2. CASE b # <<>>
    <3>1. Len(b) > 0
      BY <1>2, <2>2, EmptySeq
    <3>2. /\ Len(a) + 1 \in Len(a)+1..Len(a)+Len(b)
          /\ Len(a) + Len(b) \in Len(a)+1..Len(a)+Len(b)
          /\ Len(a) + 1 - Len(a) = 1 /\ Len(a) + Len(b) - Len(a) = Len(b)
      BY <1>2, <3>1
    <3>3. SubSeq(a \o b, Len(a) + 1, Len(a) + Len(b)) = SubSeq(b, 1, Len(b))
      BY <3>2, SubSeqOfConcat2
    <3>4. QED
      BY <3>3, SubSeqFull
  <2>3. QED
    BY <2>1, <2>2
<1>5. SubSeq(a \o b, n + 1, Len(a)) \o SubSeq(a \o b, Len(a) + 1, Len(a) + Len(b))
        = SubSeq(a \o b, n + 1, Len(a) + Len(b))
  <2>1. /\ n + 1 \in 1..Len(a \o b)+1
        /\ Len(a) \in (n + 1)-1..Len(a \o b)
        /\ Len(a) + Len(b) \in Len(a)..Len(a \o b)
    BY <1>1, <1>2
  <2>2. QED
    BY <1>1, <2>1, ConcatAdjacentSubSeq
<1>6. QED
  BY <1>1, <1>3, <1>4, <1>5 DEF Behind

\* The data of a package are its manifest and its payload, in order.
LEMMA DataType ==
    ASSUME NEW p \in Packages
    PROVE  /\ Total(p) \in Nat /\ Total(p) > ManifestSize /\ ManifestSize \in Nat /\ ManifestSize > 0
           /\ Data(p) \in Seq(PackageUnits) /\ Len(Data(p)) = Total(p)
<1>1. PayloadSize[p] \in Nat \ {0} /\ ManifestSize \in Nat \ {0}
  BY PackageAssumption
<1>2. Total(p) \in Nat /\ Total(p) > ManifestSize
  BY <1>1 DEF Total
<1>3. Data(p) \in [1..Total(p) -> PackageUnits]
  BY <1>2 DEF Data, PackageUnits
<1>4. QED
  BY <1>1, <1>2, <1>3, Numbered

\* Every beginning of a package names it.
LEMMA FirstUnit ==
    ASSUME NEW p \in Packages, NEW n \in 1..Total(p)
    PROVE  SubSeq(Data(p), 1, n)[1][1] = p
<1>0. Total(p) \in Nat
  BY DataType
<1>1. Total(p) \in Nat /\ \A i \in 1..n : Data(p)[i] \in PackageUnits
  BY <1>0 DEF Data, PackageUnits
<1>2. SubSeq(Data(p), 1, n)[1] = Data(p)[1]
  <2>1. 1 \in 1..n-1+1 /\ n \in Int
    BY <1>1
  <2>2. QED
    BY <1>1, <2>1, SubSeqProperties
<1>3. Data(p)[1] = <<p, 1>>
  BY <1>1 DEF Data
<1>4. QED
  BY <1>2, <1>3

\* The next frame of a package has what follows the units accepted.
LEMMA FrameType ==
    ASSUME package \in Packages, accepted \in 0..Total(package), accepted < Total(package)
    PROVE  /\ Frame \in Seq(PackageUnits)
           /\ Len(Frame) \in Nat /\ Len(Frame) > 0 /\ Len(Frame) <= FrameSize
           /\ accepted + Len(Frame) \in 0..Total(package)
           /\ First(package, accepted) \o Frame = First(package, accepted + Len(Frame))
<1> DEFINE limit == IF accepted < ManifestSize THEN ManifestSize ELSE Total(package)
           last == IF accepted + FrameSize < limit THEN accepted + FrameSize ELSE limit
<1>1. /\ Total(package) \in Nat /\ Total(package) > ManifestSize /\ ManifestSize \in Nat
      /\ FrameSize \in Nat /\ FrameSize > 0
  BY DataType, SizeAssumption
<1>2. last \in Nat /\ last > accepted /\ last - accepted <= FrameSize /\ last <= Total(package)
  BY <1>1
<1>3. Frame = SubSeq(Data(package), accepted + 1, last)
  BY DEF Frame
<1> HIDE DEF limit, last
<1>4. Data(package) \in Seq(PackageUnits) /\ Len(Data(package)) = Total(package)
  BY DataType
<1>5. accepted \in 0..Len(Data(package)) /\ last \in accepted..Len(Data(package))
  BY <1>1, <1>2, <1>4
<1>6. /\ SubSeq(Data(package), accepted + 1, last) \in Seq(PackageUnits)
      /\ Len(SubSeq(Data(package), accepted + 1, last)) = last - accepted
      /\ SubSeq(Data(package), 1, accepted) \o SubSeq(Data(package), accepted + 1, last)
           = SubSeq(Data(package), 1, last)
  BY <1>4, <1>5, Beginning
<1>7. Len(Frame) = last - accepted /\ accepted + Len(Frame) = last
  BY <1>1, <1>2, <1>3, <1>6
<1>8. QED
  BY <1>1, <1>2, <1>3, <1>6, <1>7 DEF First

-----------------------------------------------------------------------------
(* The firmware transfer: the receiver *)

OutcomeOK(o) == ManagerOK(o.receiver, o.staging, o.pending)

ManagerNow == ManagerOK(receiver, staging, pending)

\* A request that changes nothing leaves the manager as it was.
LEMMA SameOK ==
    ASSUME ManagerNow, NEW ok
    PROVE  /\ OutcomeOK(Same(ok))
           /\ Same(ok).receiver = receiver /\ Same(ok).staging = staging
           /\ Same(ok).pending = pending /\ Same(ok).ok = ok
BY DEF ManagerNow, OutcomeOK, Same, Outcome

\* A refused request is one that changes nothing.
LEMMA RefusalIsSame == Refusal = Same(FALSE)
BY DEF Refusal

\* A receiver that has failed fits any staging slot.
LEMMA FailureOK ==
    ASSUME NEW r \in Receivers, Len(r.got) <= r.size, Len(r.page) <= PageSize,
           NEW st \in StagingSlots, NEW p \in Packages \cup {NoPackage}
    PROVE  /\ OutcomeOK(Failure(r, st, p)) /\ Failure(r, st, p).ok = FALSE
           /\ Failure(r, st, p).receiver.state = "failed"
<1> DEFINE t == [r EXCEPT !.state = "failed"]
<1>1. t \in Receivers
  BY DEF Receivers
<1>2. t.state = "failed" /\ t.got = r.got /\ t.page = r.page /\ t.size = r.size
  BY DEF Receivers
<1> HIDE DEF t
<1>3. ManagerOK(t, st, p)
  BY <1>1, <1>2 DEF ManagerOK
<1>4. Failure(r, st, p) = [receiver |-> t, staging |-> st, pending |-> p, ok |-> FALSE]
  BY DEF Failure, Outcome, t
<1>5. QED
  BY <1>2, <1>3, <1>4 DEF OutcomeOK

\* An idle receiver fits any staging slot and any journal.
LEMMA IdleOK ==
    ASSUME NEW st \in StagingSlots, NEW p \in Packages \cup {NoPackage}
    PROVE  ManagerOK(NoReceiver, st, p)
<1>1. <<>> \in Seq(PackageUnits) /\ Len(<<>>) = 0
  BY EmptySeq
<1>2. NoReceiver \in Receivers
  BY <1>1, PackageAssumption DEF NoReceiver, Receivers
<1>3. /\ NoReceiver.state = "idle" /\ NoReceiver.got = <<>> /\ NoReceiver.page = <<>>
      /\ NoReceiver.size = 0
  BY DEF NoReceiver
<1>4. QED
  BY <1>1, <1>2, <1>3, SizeAssumption DEF ManagerOK

\* An erased staging slot, and one that is partly erased, are typed.
LEMMA ErasedTyped == Erased \in StagingSlots /\ (ManagerNow => Remains \in StagingSlots)
<1>1. Erased \in StagingSlots
  BY EmptySeq DEF Erased, StagingSlots
<1>2. QED
  BY <1>1 DEF Remains, ManagerNow, ManagerOK

\* FirmwareStagingReceiver::begin.
LEMMA BeginReceiveOK ==
    ASSUME ManagerNow, NEW p \in Packages, NEW o \in BeginReceive(p)
    PROVE  /\ OutcomeOK(o)
           /\ \/ ~o.ok /\ o.receiver = receiver
              \/ o.receiver.got = <<>>
<1> DEFINE t == [NoReceiver EXCEPT !.state = "manifest", !.size = Total(p)]
<1>1. \/ o = Refusal
      \/ o = Became(t)
  BY DEF BeginReceive
<1>2. CASE o = Refusal
  BY <1>2, SameOK, RefusalIsSame
<1>3. CASE o = Became(t)
  <2>1. <<>> \in Seq(PackageUnits) /\ Len(<<>>) = 0
    BY EmptySeq
  <2>2. Total(p) \in Nat
    BY DataType
  <2>3. NoReceiver \in Receivers
    BY <2>1, PackageAssumption DEF NoReceiver, Receivers
  <2>4. t \in Receivers
    BY <2>2, <2>3 DEF Receivers
  <2>5. /\ t.state = "manifest" /\ t.got = <<>> /\ t.page = <<>> /\ t.size = Total(p)
        /\ t.erased = 0
    BY DEF NoReceiver
  <2> HIDE DEF t
  <2>6. ManagerOK(t, staging, pending)
    BY <2>1, <2>2, <2>4, <2>5, SizeAssumption DEF ManagerNow, ManagerOK
  <2>7. QED
    BY <1>3, <2>5, <2>6 DEF Became, Outcome, OutcomeOK
<1>4. QED
  BY <1>1, <1>2, <1>3

\* FirmwareStagingReceiver::abort.
LEMMA AbortReceiveOK ==
    ASSUME ManagerNow, NEW o \in AbortReceive
    PROVE  OutcomeOK(o)
<1>1. CASE o = Refusal
  BY <1>1, SameOK, RefusalIsSame
<1>2. CASE o = Outcome(NoReceiver, Remains, pending, TRUE)
  <2>1. ManagerOK(NoReceiver, Remains, pending)
    BY IdleOK, ErasedTyped DEF ManagerNow, ManagerOK
  <2>2. QED
    BY <1>2, <2>1 DEF Outcome, OutcomeOK
<1>3. QED
  BY <1>1, <1>2 DEF AbortReceive

\* The receiver of a typed state, field by field.
LEMMA ReceiverNow ==
    ASSUME ManagerNow
    PROVE  /\ receiver \in Receivers /\ staging \in StagingSlots
           /\ pending \in Packages \cup {NoPackage}
           /\ receiver.got \in Seq(PackageUnits) /\ receiver.page \in Seq(PackageUnits)
           /\ staging.payload \in Seq(PackageUnits \cup {Blank})
           /\ Len(receiver.got) \in Nat /\ Len(receiver.page) \in Nat /\ receiver.size \in Nat
           /\ Len(receiver.got) <= receiver.size /\ Len(receiver.page) <= PageSize
           /\ PageSize \in Nat /\ ManifestSize \in Nat /\ ManifestSize > 0
<1>1. /\ receiver \in Receivers /\ staging \in StagingSlots
      /\ pending \in Packages \cup {NoPackage}
      /\ Len(receiver.got) <= receiver.size /\ Len(receiver.page) <= PageSize
  BY DEF ManagerNow, ManagerOK
<1>2. /\ receiver.got \in Seq(PackageUnits) /\ receiver.page \in Seq(PackageUnits)
      /\ staging.payload \in Seq(PackageUnits \cup {Blank}) /\ receiver.size \in Nat
  BY <1>1 DEF Receivers, StagingSlots
<1>3. Len(receiver.got) \in Nat /\ Len(receiver.page) \in Nat
  BY <1>2, LenProperties
<1>4. QED
  BY <1>1, <1>2, <1>3, SizeAssumption, PackageAssumption

\* The payload arrives in order: what the page does not hold of it is in flash.
LEMMA PayloadGrows ==
    ASSUME ManagerNow, receiver.state = "payload", NEW frame \in Seq(PackageUnits)
    PROVE  /\ Payload(receiver.got \o frame) = (staging.payload \o receiver.page) \o frame
           /\ Len(receiver.got \o frame) >= ManifestSize
<1>1. Len(receiver.got) >= ManifestSize /\ staging.payload \o receiver.page = Payload(receiver.got)
  BY DEF ManagerNow, ManagerOK, PayloadOK
<1>2. receiver.got \in Seq(PackageUnits)
  BY ReceiverNow
<1>3. ManifestSize \in Nat /\ ManifestSize <= Len(receiver.got)
  BY <1>1, ReceiverNow
<1>4. Behind(receiver.got \o frame, ManifestSize) = Behind(receiver.got, ManifestSize) \o frame
  BY <1>2, <1>3, BehindConcat
<1>5. Len(receiver.got \o frame) = Len(receiver.got) + Len(frame)
  BY <1>2, ConcatProperties
<1>6. Len(receiver.got) \in Nat /\ Len(frame) \in Nat
  BY <1>2, LenProperties
<1>7. Len(receiver.got \o frame) >= ManifestSize
  BY <1>3, <1>5, <1>6
<1>8. QED
  BY <1>1, <1>4, <1>7 DEF Behind, Payload

\* A receiver that has taken a frame: its state, its data and its page are new.
Now(r, state, got, page) == [r EXCEPT !.state = state, !.got = got, !.page = page]

\* A receiver that counts what is in flash or in its page fits the slot.
LEMMA NowPayload ==
    ASSUME NEW r \in Receivers, NEW got \in Seq(PackageUnits), NEW page \in Seq(PackageUnits),
           NEW st \in StagingSlots, NEW p \in Packages \cup {NoPackage},
           Len(got) <= r.size, Len(got) >= ManifestSize, Len(page) < PageSize,
           st.payload \o page = Payload(got)
    PROVE  ManagerOK(Now(r, "payload", got, page), st, p)
<1> DEFINE t == Now(r, "payload", got, page)
<1>1. t \in Receivers
  BY DEF Now, Receivers
<1>2. t.state = "payload" /\ t.got = got /\ t.page = page /\ t.size = r.size
  BY DEF Now, Receivers
<1> HIDE DEF t
<1>3. PayloadOK(t, st)
  BY <1>2 DEF PayloadOK
<1>4. Len(page) \in Nat /\ PageSize \in Nat
  BY LenProperties, SizeAssumption
<1>5. Len(t.page) <= PageSize /\ Len(t.page) < PageSize /\ Len(t.got) <= t.size
  BY <1>2, <1>4
<1>6. ManagerOK(t, st, p)
  BY <1>1, <1>2, <1>3, <1>5 DEF ManagerOK
<1>7. QED
  BY <1>6 DEF t

\* FirmwareStagingReceiver::write, in the manifest sector.
LEMMA WriteManifestOK ==
    ASSUME ManagerNow, receiver.state = "manifest", NEW frame \in Seq(PackageUnits),
           NEW r, r = [receiver EXCEPT !.got = @ \o frame], Len(r.got) <= receiver.size,
           Len(r.got) <= ManifestSize,
           NEW o \in IF Len(r.got) = ManifestSize THEN ManifestReceived(r) ELSE {Became(r)}
    PROVE  /\ OutcomeOK(o)
           /\ \/ ~o.ok /\ o.receiver.state = "failed"
              \/ o.receiver.got = receiver.got \o frame
<1>1. receiver \in Receivers /\ receiver.page = <<>> /\ receiver.erased = 0
  BY DEF ManagerNow, ManagerOK
<1>2. receiver.got \o frame \in Seq(PackageUnits)
  BY ReceiverNow, ConcatProperties
<1>3. <<>> \in Seq(PackageUnits) /\ Len(<<>>) = 0
  BY EmptySeq
<1>4. r \in Receivers
  BY <1>1, <1>2 DEF Receivers
<1>5. /\ r.got = receiver.got \o frame /\ r.state = "manifest" /\ r.page = <<>>
      /\ r.size = receiver.size /\ r.erased = 0
  BY <1>1 DEF Receivers
<1>6. staging \in StagingSlots /\ pending \in Packages \cup {NoPackage} /\ PageSize > 0
      /\ PageSize \in Nat
  BY ReceiverNow, SizeAssumption
<1>7. CASE o = Became(r)
  <2>1. ManagerOK(r, staging, pending)
    BY <1>3, <1>4, <1>5, <1>6 DEF ManagerOK
  <2>2. QED
    BY <1>5, <1>7, <2>1 DEF Became, Outcome, OutcomeOK
<1>8. CASE o = Failure(r, staging, pending)
  <2>1. Len(r.page) <= PageSize /\ Len(r.got) <= r.size
    BY <1>3, <1>5, <1>6
  <2>2. staging \in StagingSlots /\ pending \in Packages \cup {NoPackage}
    BY <1>6
  <2>3. QED
    BY <1>4, <1>8, <2>1, <2>2, FailureOK
<1>9. CASE Len(r.got) = ManifestSize /\ o = Became([r EXCEPT !.state = "erasing"])
  <2> DEFINE t == [r EXCEPT !.state = "erasing"]
  <2>1. t \in Receivers
    BY <1>4 DEF Receivers
  <2>2. /\ t.got = r.got /\ t.state = "erasing" /\ t.page = <<>> /\ t.size = receiver.size
        /\ t.erased = 0
    BY <1>4, <1>5 DEF Receivers
  <2> HIDE DEF t
  <2>3. ErasingOK(t, staging)
    BY <1>9, <2>2 DEF ErasingOK
  <2>4. ManagerOK(t, staging, pending)
    BY <1>3, <1>6, <2>1, <2>2, <2>3 DEF ManagerOK
  <2>5. o.receiver = t /\ o.staging = staging /\ o.pending = pending
    BY <1>9 DEF Became, Outcome, t
  <2>6. QED
    BY <1>5, <2>2, <2>4, <2>5 DEF OutcomeOK
<1>10. QED
  BY <1>7, <1>8, <1>9 DEF ManifestReceived

\* FirmwareStagingReceiver::write, behind it, when the frame does not fill the page.
LEMMA WriteBufferedOK ==
    ASSUME ManagerNow, receiver.state = "payload", NEW frame \in Seq(PackageUnits),
           Len(receiver.got \o frame) <= receiver.size,
           Len(frame) < PageSize - Len(receiver.page)
    PROVE  ManagerOK(Now(receiver, "payload", receiver.got \o frame, receiver.page \o frame),
                     staging, pending)
<1>1. receiver.got \o frame \in Seq(PackageUnits)
  BY ReceiverNow, ConcatProperties
<1>2. receiver.page \o frame \in Seq(PackageUnits)
      /\ Len(receiver.page \o frame) = Len(receiver.page) + Len(frame)
  BY ReceiverNow, ConcatProperties
<1>3. receiver \in Receivers /\ staging \in StagingSlots
      /\ pending \in Packages \cup {NoPackage}
  BY ReceiverNow
<1>4. Len(receiver.page) \in Nat /\ Len(frame) \in Nat /\ PageSize \in Nat
  BY ReceiverNow, LenProperties
<1>5. Len(receiver.page \o frame) < PageSize
  BY <1>2, <1>4
<1>6. staging.payload \o (receiver.page \o frame) = (staging.payload \o receiver.page) \o frame
  <2>1. \A a, b, c \in Seq(PackageUnits \cup {Blank}) : a \o (b \o c) = (a \o b) \o c
    BY ConcatAssociative, SMTT(60)
  <2>2. Seq(PackageUnits) \subseteq Seq(PackageUnits \cup {Blank})
    BY Wider
  <2>3. receiver.page \in Seq(PackageUnits) /\ staging.payload \in Seq(PackageUnits \cup {Blank})
    BY ReceiverNow
  <2>4. QED
    BY <2>1, <2>2, <2>3
<1>7. /\ staging.payload \o (receiver.page \o frame) = Payload(receiver.got \o frame)
      /\ Len(receiver.got \o frame) >= ManifestSize
  BY <1>6, PayloadGrows
<1>8. ASSUME NEW got \in Seq(PackageUnits), NEW page \in Seq(PackageUnits),
             Len(got) <= receiver.size, Len(got) >= ManifestSize, Len(page) < PageSize,
             staging.payload \o page = Payload(got)
      PROVE  ManagerOK(Now(receiver, "payload", got, page), staging, pending)
  BY <1>3, <1>8, NowPayload
<1>9. QED
  BY <1>1, <1>2, <1>5, <1>7, <1>8

\* The fields of a receiver that has moved on.
LEMMA NowIs ==
    ASSUME NEW r \in Receivers, r.state = "payload", NEW got, NEW page
    PROVE  /\ [[r EXCEPT !.got = got] EXCEPT !.page = page] = Now(r, "payload", got, page)
           /\ [r EXCEPT !.got = got, !.page = page] = Now(r, "payload", got, page)
BY DEF Now, Receivers

\* The frame fills the page, which is programmed.
LEMMA WritePageOK ==
    ASSUME ManagerNow, receiver.state = "payload", NEW frame \in Seq(PackageUnits),
           Len(receiver.got \o frame) <= receiver.size,
           NEW room \in Nat, room = PageSize - Len(receiver.page), room <= Len(frame),
           Len(frame) <= FrameSize
    PROVE  ManagerOK(Now(receiver, "payload", receiver.got \o frame, Behind(frame, room)),
                     [staging EXCEPT !.payload = @ \o Filled(receiver.page, frame, room)],
                     pending)
<1>1. receiver.got \o frame \in Seq(PackageUnits)
  BY ReceiverNow, ConcatProperties
<1>2. receiver.page \in Seq(PackageUnits)
  BY ReceiverNow
<1>3. receiver.page \in Seq(PackageUnits \cup {Blank})
  BY <1>2, Wider
<1>4. frame \in Seq(PackageUnits \cup {Blank})
  BY Wider
<1>5. staging.payload \in Seq(PackageUnits \cup {Blank})
  BY ReceiverNow
<1>6. InOrder(staging.payload, receiver.page, frame, room)
  BY <1>3, <1>4, <1>5, PageTurned
<1>7. staging.payload \o Filled(receiver.page, frame, room) \in Seq(PackageUnits \cup {Blank})
  BY <1>3, <1>4, <1>5, PageTurned
<1>8. Behind(frame, room) \in Seq(PackageUnits)
  BY PartsTyped
<1>9. Len(Behind(frame, room)) = Len(frame) - room
  BY PartsTyped
<1>10. Len(frame) \in Nat /\ FrameSize \in Nat /\ FrameSize < PageSize /\ PageSize \in Nat
  BY LenProperties, SizeAssumption
<1>11. Len(Behind(frame, room)) < PageSize
  BY <1>9, <1>10
<1> DEFINE st == [staging EXCEPT !.payload = @ \o Filled(receiver.page, frame, room)]
<1>12. staging \in StagingSlots
  BY ReceiverNow
<1>13. st \in StagingSlots /\ st.payload = staging.payload \o Filled(receiver.page, frame, room)
  BY <1>7, <1>12 DEF StagingSlots
<1> HIDE DEF st
<1>14. /\ st.payload \o Behind(frame, room) = Payload(receiver.got \o frame)
       /\ Len(receiver.got \o frame) >= ManifestSize
  BY <1>6, <1>13, PayloadGrows DEF InOrder
<1>15. receiver \in Receivers /\ pending \in Packages \cup {NoPackage}
  BY ReceiverNow
<1>16. ASSUME NEW got \in Seq(PackageUnits), NEW page \in Seq(PackageUnits),
              Len(got) <= receiver.size, Len(got) >= ManifestSize, Len(page) < PageSize,
              st.payload \o page = Payload(got)
       PROVE  ManagerOK(Now(receiver, "payload", got, page), st, pending)
  BY <1>13, <1>15, <1>16, NowPayload
<1>17. ManagerOK(Now(receiver, "payload", receiver.got \o frame, Behind(frame, room)), st, pending)
  BY <1>1, <1>8, <1>11, <1>14, <1>16
<1>18. QED
  BY <1>17 DEF st

\* The page could not be programmed.
LEMMA WriteFailedOK ==
    ASSUME ManagerNow, NEW frame \in Seq(PackageUnits),
           Len(receiver.got \o frame) <= receiver.size,
           NEW room \in Nat, room = PageSize - Len(receiver.page), room <= Len(frame),
           NEW part, part = SubSeq(frame, 1, room),
           NEW o, o = Failure([receiver EXCEPT !.got = @ \o part, !.page = receiver.page \o part],
                              staging, pending)
    PROVE  OutcomeOK(o) /\ ~o.ok /\ o.receiver.state = "failed"
<1>1. receiver.page \in Seq(PackageUnits) /\ receiver.got \in Seq(PackageUnits)
      /\ receiver \in Receivers
  BY ReceiverNow
<1>2. Len(frame) \in Nat /\ Len(receiver.got) \in Nat /\ Len(receiver.page) \in Nat
      /\ PageSize \in Nat /\ receiver.size \in Nat
  BY ReceiverNow, LenProperties
<1>3. room \in 0..Len(frame)
  BY <1>2
<1>4. part \in Seq(PackageUnits) /\ Len(part) = room
  BY <1>3, CutFrame
<1>5. receiver.page \o part \in Seq(PackageUnits)
      /\ Len(receiver.page \o part) = Len(receiver.page) + Len(part)
  BY <1>1, <1>4, ConcatProperties
<1>6. receiver.got \o part \in Seq(PackageUnits)
      /\ Len(receiver.got \o part) = Len(receiver.got) + Len(part)
  BY <1>1, <1>4, ConcatProperties
<1>7. Len(receiver.got \o frame) = Len(receiver.got) + Len(frame)
  BY <1>1, ConcatProperties
<1> DEFINE t == [receiver EXCEPT !.got = @ \o part, !.page = receiver.page \o part]
<1>8. t \in Receivers
  BY <1>1, <1>5, <1>6 DEF Receivers
<1>9. /\ t.got = receiver.got \o part /\ t.page = receiver.page \o part
      /\ t.size = receiver.size
  BY <1>1 DEF Receivers
<1> HIDE DEF t
<1>10. Len(t.page) <= PageSize
  BY <1>2, <1>4, <1>5, <1>9
<1>11. Len(t.got) <= t.size
  <2>1. Len(receiver.got) + Len(frame) <= receiver.size
    BY <1>7
  <2>2. Len(t.got) = Len(receiver.got) + room
    BY <1>4, <1>6, <1>9
  <2>3. ASSUME NEW a \in Nat, NEW b \in Nat, NEW c \in Nat, a + b <= c, room <= b
        PROVE  a + room <= c
    BY <2>3
  <2>4. Len(receiver.got) + room <= receiver.size
    BY <1>2, <2>1, <2>3
  <2>5. QED
    BY <1>9, <2>2, <2>4
<1>12. o = Failure(t, staging, pending)
  BY DEF t
<1>13. staging \in StagingSlots /\ pending \in Packages \cup {NoPackage}
  BY ReceiverNow
<1>14. staging \in StagingSlots
  BY <1>13
<1>15. pending \in Packages \cup {NoPackage}
  BY <1>13
<1>16. QED
  <2>1. /\ OutcomeOK(Failure(t, staging, pending)) /\ Failure(t, staging, pending).ok = FALSE
        /\ Failure(t, staging, pending).receiver.state = "failed"
    BY <1>8, <1>10, <1>11, <1>14, <1>15, FailureOK
  <2>2. QED
    BY <1>12, <2>1

\* FirmwareStagingReceiver::write: the frame is refused, it fails, or it is taken.
LEMMA WriteReceiveOK ==
    ASSUME ManagerNow, NEW frame \in Seq(PackageUnits), Len(frame) <= FrameSize,
           NEW offset, NEW o \in WriteReceive(offset, frame)
    PROVE  /\ OutcomeOK(o)
           /\ \/ ~o.ok /\ o.receiver = receiver
              \/ ~o.ok /\ o.receiver.state = "failed"
              \/ /\ receiver.state \in {"manifest", "payload"} /\ offset = Len(receiver.got)
                 /\ o.receiver.got = receiver.got \o frame
<1> DEFINE r == [receiver EXCEPT !.got = @ \o frame]
           room == PageSize - Len(receiver.page)
<1>1. receiver \in Receivers
  BY ReceiverNow
<1>2. r.got = receiver.got \o frame
  BY <1>1 DEF Receivers
<1>3. CASE o = Refusal
  BY <1>3, SameOK, RefusalIsSame
<1>4. CASE o # Refusal
  <2>1. /\ receiver.state \in {"manifest", "payload"} /\ offset = Len(receiver.got)
        /\ ~(Len(r.got) > receiver.size)
        /\ ~(receiver.state = "manifest" /\ Len(r.got) > ManifestSize)
    BY <1>4 DEF WriteReceive
  <2>2. receiver.got \o frame \in Seq(PackageUnits)
    BY ReceiverNow, ConcatProperties
  <2>3. /\ Len(r.got) \in Nat /\ receiver.size \in Nat /\ ManifestSize \in Nat
        /\ Len(frame) \in Nat /\ PageSize \in Nat /\ Len(receiver.page) \in Nat
        /\ Len(receiver.page) <= PageSize
    BY <1>2, <2>2, ReceiverNow, LenProperties
  <2>4. Len(r.got) <= receiver.size
    BY <2>1, <2>3
  <2>5. CASE receiver.state = "manifest"
    <3>1. o \in IF Len(r.got) = ManifestSize THEN ManifestReceived(r) ELSE {Became(r)}
      BY <2>1, <2>5 DEF WriteReceive
    <3>2. Len(r.got) <= ManifestSize
      BY <2>1, <2>3, <2>5
    <3>3. QED
      BY <2>1, <2>4, <2>5, <3>1, <3>2, WriteManifestOK
  <2>6. CASE receiver.state = "payload" /\ Len(frame) < room
    <3>1. o = Became([r EXCEPT !.page = receiver.page \o frame])
      BY <2>1, <2>6, <1>1 DEF WriteReceive, Receivers
    <3>2. [r EXCEPT !.page = receiver.page \o frame]
             = Now(receiver, "payload", receiver.got \o frame, receiver.page \o frame)
      BY <1>1, <2>6, NowIs
    <3>3. ManagerOK(Now(receiver, "payload", receiver.got \o frame, receiver.page \o frame),
                    staging, pending)
      BY <1>2, <2>4, <2>6, WriteBufferedOK
    <3>4. Now(receiver, "payload", receiver.got \o frame, receiver.page \o frame).got
            = receiver.got \o frame
      BY <1>1 DEF Now, Receivers
    <3>5. QED
      BY <2>1, <3>1, <3>2, <3>3, <3>4 DEF Became, Outcome, OutcomeOK
  <2>7. CASE receiver.state = "payload" /\ ~(Len(frame) < room)
    <3> DEFINE part == SubSeq(frame, 1, room)
               rest == SubSeq(frame, room + 1, Len(frame))
    <3>1. o \in PageWritten(r, part, rest)
      BY <2>1, <2>7 DEF WriteReceive
    <3>2. room \in Nat /\ room <= Len(frame)
      BY <2>3, <2>7
    <3>3. CASE o = Failure([receiver EXCEPT !.got = @ \o part, !.page = receiver.page \o part],
                           staging, pending)
      <4>1. Len(receiver.got \o frame) <= receiver.size
        BY <1>2, <2>4
      <4>2. QED
        BY <3>2, <3>3, <4>1, WriteFailedOK
    <3>4. CASE o = Outcome([r EXCEPT !.page = rest],
                           [staging EXCEPT !.payload = @ \o (receiver.page \o part)],
                           pending, TRUE)
      <4>1. [r EXCEPT !.page = rest] = Now(receiver, "payload", receiver.got \o frame, rest)
        BY <1>1, <2>7, NowIs
      <4>2. ManagerOK(Now(receiver, "payload", receiver.got \o frame, Behind(frame, room)),
                      [staging EXCEPT !.payload = @ \o Filled(receiver.page, frame, room)],
                      pending)
        <5>1. Len(receiver.got \o frame) <= receiver.size
          BY <1>2, <2>4
        <5>2. QED
          BY <2>7, <3>2, <5>1, WritePageOK
      <4>3. Behind(frame, room) = rest /\ Filled(receiver.page, frame, room) = receiver.page \o part
        BY DEF Behind, Filled
      <4>4. Now(receiver, "payload", receiver.got \o frame, rest).got = receiver.got \o frame
        BY <1>1 DEF Now, Receivers
      <4>5. QED
        BY <2>1, <3>4, <4>1, <4>2, <4>3, <4>4 DEF Outcome, OutcomeOK
    <3>5. QED
      BY <3>1, <3>3, <3>4 DEF PageWritten, If
  <2>8. QED
    BY <2>1, <2>5, <2>6, <2>7
<1>5. QED
  BY <1>3, <1>4

\* The rest of finish: READY is reached only with a whole package, which is pending.
LEMMA SealOK ==
    ASSUME ManagerNow, receiver.state = "payload", NEW st \in StagingSlots,
           NEW o \in SealResults(st)
    PROVE  /\ OutcomeOK(o)
           /\ \/ ~o.ok /\ o.receiver.state = "failed"
              \/ o.receiver.state = "ready" /\ o.pending = Received
<1> DEFINE sealed == [st EXCEPT !.manifest = Received]
           full == [receiver EXCEPT !.page = <<>>]
           done == [full EXCEPT !.committed = TRUE]
           ready == [done EXCEPT !.state = "ready"]
<1>1. receiver \in Receivers /\ pending \in Packages \cup {NoPackage}
      /\ Len(receiver.got) <= receiver.size
  BY ReceiverNow
<1>2. Received \in Packages /\ Received # NoPackage
  <2>1. Len(receiver.got) >= ManifestSize /\ ManifestSize > 0 /\ ManifestSize \in Nat
    BY ReceiverNow DEF ManagerNow, ManagerOK, PayloadOK
  <2>2. receiver.got \in Seq(PackageUnits) /\ Len(receiver.got) \in Nat
    BY ReceiverNow
  <2>3. 1 \in 1..Len(receiver.got)
    BY <2>1, <2>2
  <2>4. receiver.got[1] \in PackageUnits
    BY <2>2, <2>3, ElementOfSeq
  <2>5. QED
    BY <2>4, PackageAssumption DEF PackageUnits, Received
<1>3. sealed \in StagingSlots /\ sealed.manifest = Received
  BY <1>2 DEF StagingSlots
<1>4. <<>> \in Seq(PackageUnits) /\ Len(<<>>) = 0 /\ PageSize \in Nat /\ PageSize > 0
  BY EmptySeq, SizeAssumption
<1>5. full \in Receivers
  BY <1>1, <1>4 DEF Receivers
<1>6. full.got = receiver.got /\ full.page = <<>> /\ full.size = receiver.size
  BY <1>1 DEF Receivers
<1> HIDE DEF sealed, full
<1>7. done \in Receivers
  BY <1>5 DEF Receivers
<1>8. done.got = receiver.got /\ done.page = <<>> /\ done.size = receiver.size
      /\ done.committed = TRUE
  BY <1>5, <1>6 DEF Receivers
<1> HIDE DEF done
<1>9. ready \in Receivers
  BY <1>7 DEF Receivers
<1>10. ready.got = receiver.got /\ ready.page = <<>> /\ ready.size = receiver.size
      /\ ready.committed = TRUE /\ ready.state = "ready"
  BY <1>7, <1>8 DEF Receivers
<1> HIDE DEF ready
<1>11. ASSUME NEW torn \in StagingSlots, NEW p \in Packages \cup {NoPackage},
              NEW r \in {full, done}, o = Failure(r, torn, p)
       PROVE  OutcomeOK(o) /\ ~o.ok /\ o.receiver.state = "failed"
  <2>1. r \in Receivers
    BY <1>5, <1>7
  <2>2. Len(r.got) <= r.size
    BY <1>1, <1>6, <1>8
  <2>3. Len(r.page) <= PageSize
    BY <1>4, <1>6, <1>8
  <2>4. /\ OutcomeOK(Failure(r, torn, p)) /\ Failure(r, torn, p).ok = FALSE
        /\ Failure(r, torn, p).receiver.state = "failed"
    BY <2>1, <2>2, <2>3, FailureOK
  <2>5. QED
    BY <1>11, <2>4
<1>12. CASE StagedWhole(sealed, Received) /\ o = Outcome(ready, sealed, Received, TRUE)
  <2>1. ReadyOK(ready, sealed, Received)
    BY <1>2, <1>3, <1>10, <1>12 DEF ReadyOK
  <2>2. Len(ready.page) < PageSize /\ Len(ready.page) <= PageSize /\ Len(ready.got) <= ready.size
    BY <1>1, <1>4, <1>10
  <2>3. ManagerOK(ready, sealed, Received)
    BY <1>2, <1>3, <1>9, <1>10, <2>1, <2>2 DEF ManagerOK
  <2>4. QED
    BY <1>10, <1>12, <2>3 DEF Outcome, OutcomeOK
<1>13. \/ o = Failure(full, st, pending)
       \/ \E torn \in {st, sealed} : o = Failure(full, torn, pending)
       \/ StagedWhole(sealed, Received) /\ o = Outcome(ready, sealed, Received, TRUE)
       \/ \E p \in {pending, Received} : o = Failure(done, sealed, p)
       \/ o = Failure(done, sealed, pending)
  BY DEF SealResults, Doubt, If, sealed, full, done, ready
<1>14. CASE \/ o = Failure(full, st, pending)
            \/ \E torn \in {st, sealed} : o = Failure(full, torn, pending)
  BY <1>1, <1>3, <1>11, <1>14
<1>15. CASE \/ \E p \in {pending, Received} : o = Failure(done, sealed, p)
            \/ o = Failure(done, sealed, pending)
  BY <1>1, <1>2, <1>3, <1>11, <1>15
<1>16. QED
  BY <1>12, <1>13, <1>14, <1>15

\* FirmwareStagingReceiver::finish.
LEMMA FinishReceiveOK ==
    ASSUME ManagerNow, NEW o \in FinishReceive
    PROVE  /\ OutcomeOK(o)
           /\ \/ ~o.ok /\ o.receiver = receiver
              \/ ~o.ok /\ o.receiver.state = "failed"
              \/ receiver.state = "payload" /\ o.receiver.state = "ready" /\ o.pending = Received
<1>1. receiver \in Receivers /\ staging \in StagingSlots
      /\ pending \in Packages \cup {NoPackage}
      /\ Len(receiver.got) <= receiver.size /\ Len(receiver.page) <= PageSize
  BY ReceiverNow
<1>2. CASE o = Refusal
  BY <1>2, SameOK, RefusalIsSame
<1>3. CASE o = Failure(receiver, staging, pending)
  BY <1>1, <1>3, FailureOK
<1>4. CASE o # Refusal /\ o # Failure(receiver, staging, pending)
  <2>1. receiver.state = "payload"
    BY <1>4 DEF FinishReceive
  <2>2. ASSUME NEW st \in StagingSlots, o \in SealResults(st)
        PROVE  /\ OutcomeOK(o)
               /\ \/ ~o.ok /\ o.receiver.state = "failed"
                  \/ o.receiver.state = "ready" /\ o.pending = Received
    BY <2>1, <2>2, SealOK
  <2> DEFINE padded == [staging EXCEPT !.payload = @ \o Padded(receiver.page)]
  <2>3. o \in SealResults(staging) \/ o \in SealResults(padded)
    BY <1>4 DEF FinishReceive, If
  <2>4. padded \in StagingSlots
    <3>1. receiver.page \in Seq(PackageUnits)
      BY ReceiverNow
    <3>2. receiver.page \in Seq(PackageUnits \cup {Blank})
      BY <3>1, Wider
    <3>3. Blank \in PackageUnits \cup {Blank}
      OBVIOUS
    <3>4. PICK pad \in Seq(PackageUnits \cup {Blank}) : Padded(receiver.page) = receiver.page \o pad
      BY <1>1, <3>2, <3>3, PaddedType
    <3>5. Padded(receiver.page) \in Seq(PackageUnits \cup {Blank})
      BY <3>2, <3>4, ConcatProperties
    <3>6. staging.payload \in Seq(PackageUnits \cup {Blank})
      BY ReceiverNow
    <3>7. staging.payload \o Padded(receiver.page) \in Seq(PackageUnits \cup {Blank})
      BY <3>5, <3>6, ConcatProperties
    <3>8. QED
      BY <1>1, <3>7 DEF StagingSlots
  <2> HIDE DEF padded
  <2>5. QED
    BY <1>1, <2>1, <2>2, <2>3, <2>4
<1>5. QED
  BY <1>2, <1>3, <1>4

-----------------------------------------------------------------------------
(* The firmware transfer: the program *)

ProgramTyped ==
    /\ step \in Staging \cup {"off", "offer", "staged", "failed"}
    /\ package \in Packages \cup {NoPackage}
    /\ tries \in 0..MaxRetries

\* One program at a time.
Apart == ~(pc \in Running /\ step \in Staging)

\* What TransferInv says, in parts that are disturbed apart.
LEMMA TransferParts ==
    ASSUME TransferInv
    PROVE  /\ CoreInv /\ ManagerNow /\ ProgramTyped /\ Apart
           /\ ProgramOK /\ PrefixOK /\ OfferOK
BY DEF TransferInv, TransferTypes, FirmwareInv, ManagerNow, ProgramTyped, Apart

\* The types of both transfers, from those of the parts.
LEMMA TypesWhole ==
    ASSUME CoreInv, ManagerNow, ProgramTyped, Apart
    PROVE  TransferTypes
<1>1. TypeOK
  BY DEF CoreInv
<1>2. /\ receiver.state \in {"idle", "manifest", "erasing", "payload", "ready", "failed"}
      /\ receiver.got \in Seq(Packages \X Nat)
      /\ receiver.erased \in 0..StagingSectors /\ receiver.committed \in BOOLEAN
      /\ staging.manifest \in Packages \cup {NoPackage}
  BY DEF ManagerNow, ManagerOK, Receivers, StagingSlots, PackageUnits
<1>3. Len(receiver.got) <= receiver.size /\ pending \in Packages \cup {NoPackage}
  BY ReceiverNow
<1>4. Len(receiver.page) < PageSize + (IF receiver.state = "failed" THEN 1 ELSE 0)
  <2>1. Len(receiver.page) \in Nat /\ PageSize \in Nat
    BY ReceiverNow
  <2>2. Len(receiver.page) <= PageSize /\ (receiver.state # "failed" => Len(receiver.page) < PageSize)
    BY DEF ManagerNow, ManagerOK
  <2>3. QED
    BY <2>1, <2>2
<1>5. receiver.state = "ready" => receiver.committed /\ pending = staging.manifest
  BY DEF ManagerNow, ManagerOK, ReadyOK
<1>6. QED
  BY <1>1, <1>2, <1>3, <1>4, <1>5 DEF TransferTypes, ProgramTyped, Apart

\* The same after a step.
LEMMA TypesWholePrimed ==
    ASSUME CoreInv', ManagerNow', ProgramTyped', Apart'
    PROVE  TransferTypes'
<1>1. TypeOK'
  BY DEF CoreInv
<1>2. (/\ receiver.state \in {"idle", "manifest", "erasing", "payload", "ready", "failed"}
       /\ receiver.got \in Seq(Packages \X Nat)
       /\ receiver.size \in Nat /\ receiver.page \in Seq(Packages \X Nat)
       /\ receiver.erased \in 0..StagingSectors /\ receiver.committed \in BOOLEAN
       /\ staging.manifest \in Packages \cup {NoPackage})'
  BY DEF ManagerNow, ManagerOK, Receivers, StagingSlots, PackageUnits
<1>3. (Len(receiver.got) <= receiver.size /\ pending \in Packages \cup {NoPackage})'
  BY DEF ManagerNow, ManagerOK
<1>4. (Len(receiver.page) < PageSize + (IF receiver.state = "failed" THEN 1 ELSE 0))'
  <2>1. Len(receiver.page)' \in Nat /\ PageSize \in Nat
    BY <1>2, LenProperties, SizeAssumption
  <2>2. (Len(receiver.page) <= PageSize /\ (receiver.state # "failed" => Len(receiver.page) < PageSize))'
    BY DEF ManagerNow, ManagerOK
  <2>3. QED
    BY <2>1, <2>2
<1>5. (receiver.state = "ready" => receiver.committed /\ pending = staging.manifest)'
  BY DEF ManagerNow, ManagerOK, ReadyOK
<1>6. QED
  BY <1>1, <1>2, <1>3, <1>4, <1>5 DEF TransferTypes, ProgramTyped, Apart

\* TransferInv after a step, from its parts.
LEMMA TransferWhole ==
    ASSUME CoreInv', ManagerNow', ProgramTyped', Apart', ProgramOK', PrefixOK', OfferOK'
    PROVE  TransferInv'
BY TypesWholePrimed DEF TransferInv, FirmwareInv, ManagerNow

\* Where neither the uploader nor the session moves, CoreInv stays.
LEMMA CoreSame ==
    ASSUME CoreInv, UNCHANGED vars
    PROVE  CoreInv'
<1>1. /\ DeviceTyped /\ MailTyped /\ WantTyped /\ RunTyped
      /\ UploaderOK /\ SessionOK /\ StatusOK /\ SuccessMeansStored
  BY CoreParts DEF CoreInv
<1>2. DeviceTyped' /\ MailTyped' /\ WantTyped' /\ RunTyped'
  BY <1>1 DEF DeviceTyped, SessionTyped, MailTyped, WantTyped, RunTyped
<1>3. UploaderOK' /\ SessionOK' /\ StatusOK' /\ SuccessMeansStored'
  BY <1>1 DEF UploaderOK, SessionOK, StatusOK, SuccessMeansStored, WantStored
<1>4. QED
  BY <1>2, <1>3, CoreWhole

\* Where the manager does not move, ManagerNow stays.
LEMMA FirmwareSame ==
    ASSUME ManagerNow, UNCHANGED <<receiver, staging, pending>>
    PROVE  ManagerNow'
BY DEF ManagerNow

\* What is known of a request and of its reply.
LEMMA Requested ==
    ASSUME NEW results, NEW x \in Request(results)
    PROVE  /\ x.outcome \in results \cup {Refusal}
           /\ x.reply.ok =>
                 /\ x.outcome \in results /\ x.outcome.ok
                 /\ x.reply.state = x.outcome.receiver.state
                 /\ x.reply.offset = Len(x.outcome.receiver.got)
<1>1. CASE \E o \in results : x = [outcome |-> o, reply |-> StatusOf(o)]
  BY <1>1 DEF StatusOf
<1>2. CASE \E o \in results \cup {Refusal} : x = [outcome |-> o, reply |-> NoReply]
  BY <1>2 DEF NoReply
<1>3. QED
  BY <1>1, <1>2 DEF Request, Answered, Unanswered

\* A status request changes nothing, and its reply is true.
LEMMA Informed ==
    ASSUME ManagerNow, NEW x \in Request(Inform), Happens(x.outcome)
    PROVE  /\ UNCHANGED <<receiver, staging, pending>>
           /\ x.reply.ok => x.reply.state = receiver.state /\ x.reply.offset = Len(receiver.got)
<1>1. x.outcome \in {Same(TRUE), Same(FALSE)}
  BY Requested, RefusalIsSame DEF Inform
<1>2. /\ x.outcome.receiver = receiver /\ x.outcome.staging = staging
      /\ x.outcome.pending = pending
  BY <1>1, SameOK
<1>3. QED
  BY <1>2, Requested DEF Happens

\* All that a step of the program has to keep.
ProgramInv == ProgramTyped /\ ProgramOK /\ PrefixOK /\ OfferOK

\* The program goes where nothing is said of the receiver.
LEMMA Aside ==
    ASSUME package' \in Packages, accepted' \in 0..Total(package'), tries' \in 0..MaxRetries,
           \/ step' = "abort"
           \/ step' = "failed"
           \/ step' \in {"info", "begin"} /\ accepted' = 0 /\ tries' < MaxRetries
    PROVE  ProgramInv'
BY DEF ProgramInv, ProgramTyped, ProgramOK, PrefixOK, OfferOK, Staging

\* The program goes where the receiver has what it has counted.
LEMMA Along ==
    ASSUME package' \in Packages, accepted' \in 0..Total(package'),
           tries' \in 0..MaxRetries, tries' < MaxRetries,
           step' \in {"data", "recover", "erasing", "resync", "end"},
           step' \in {"data", "recover"} => accepted' < Total(package'),
           Receiving' =>
              \/ receiver'.got = First(package', accepted')
              \/ step' = "recover" /\ receiver'.got = First(package', accepted' + Len(Frame'))
    PROVE  ProgramInv'
BY DEF ProgramInv, ProgramTyped, ProgramOK, PrefixOK, OfferOK, Staging, First

\* A frame that has been acknowledged.
LEMMA AcceptKeeps ==
    ASSUME package \in Packages, accepted \in 0..Total(package), accepted < Total(package),
           NEW state, Accept(state),
           Receiving' => receiver'.got = First(package, accepted + Len(Frame))
    PROVE  ProgramInv'
<1>1. /\ package' = package /\ accepted' = accepted + Len(Frame) /\ tries' = 0
      /\ step' \in {"erasing", "resync", Following(accepted')}
  BY DEF Accept
<1>2. accepted + Len(Frame) \in 0..Total(package)
  BY FrameType
<1>3. Total(package) \in Nat
  BY DataType
<1>4. Total(package') = Total(package)
  BY <1>1
<1>5. /\ step' \in {"erasing", "resync", "data", "end"}
      /\ step' = "data" => accepted' # Total(package)
  BY <1>1 DEF Following
<1>6. accepted' \in 0..Total(package') /\ (step' = "data" => accepted' < Total(package'))
  BY <1>1, <1>2, <1>3, <1>4, <1>5
<1>7. tries' \in 0..MaxRetries /\ tries' < MaxRetries
  BY <1>1, SizeAssumption
<1>8. Receiving' => receiver'.got = First(package', accepted')
  BY <1>1
<1>9. QED
  BY <1>1, <1>5, <1>6, <1>7, <1>8, Along

\* A frame in doubt.
LEMMA RecoverKeeps ==
    ASSUME package \in Packages, accepted \in 0..Total(package), accepted < Total(package),
           tries \in 0..MaxRetries, tries < MaxRetries, Recover,
           Receiving' => \/ receiver'.got = First(package, accepted)
                         \/ receiver'.got = First(package, accepted + Len(Frame))
    PROVE  ProgramInv'
<1>1. /\ package' = package /\ accepted' = accepted /\ tries' = tries + 1
      /\ step' = IF tries + 1 < MaxRetries THEN "recover" ELSE "abort"
  BY DEF Recover
<1>2. Frame' = Frame /\ Total(package') = Total(package)
  BY <1>1 DEF Frame
<1>3. tries' \in 0..MaxRetries
  BY <1>1, SizeAssumption
<1>4. CASE tries + 1 < MaxRetries
  <2>1. step' = "recover" /\ tries' < MaxRetries
    BY <1>1, <1>4
  <2>2. Receiving' => \/ receiver'.got = First(package', accepted')
                      \/ receiver'.got = First(package', accepted' + Len(Frame'))
    BY <1>1, <1>2
  <2>3. QED
    BY <1>1, <1>2, <1>3, <2>1, <2>2, Along
<1>5. CASE ~(tries + 1 < MaxRetries)
  BY <1>1, <1>2, <1>3, <1>5, Aside
<1>6. QED
  BY <1>4, <1>5

\* The program stops, or goes to a step in which it counts on nothing.
LEMMA AsideKeeps ==
    ASSUME package \in Packages, accepted \in 0..Total(package), tries \in 0..MaxRetries,
           GoOn("abort") \/ Stop("failed")
    PROVE  ProgramInv'
<1>1. package' = package /\ accepted' \in 0..Total(package) /\ tries' \in 0..MaxRetries
      /\ step' \in {"abort", "failed"}
  BY DataType, SizeAssumption DEF GoOn, Stop
<1>2. Total(package') = Total(package)
  BY <1>1
<1>3. QED
  BY <1>1, <1>2, Aside

\* The counters, while the program runs.
LEMMA ProgramNow ==
    ASSUME TransferInv, step \in Staging
    PROVE  /\ package \in Packages /\ accepted \in 0..Total(package) /\ tries \in 0..MaxRetries
           /\ step # "abort" => tries < MaxRetries
           /\ step \in {"info", "begin"} => accepted = 0
           /\ step \in {"data", "recover"} => accepted < Total(package)
           /\ ManagerNow /\ CoreInv
           /\ Total(package) \in Nat /\ Total(package) > 0 /\ MaxRetries \in Nat
<1>1. package \in Packages
  BY TransferParts DEF ProgramOK
<1>2. Total(package) \in Nat /\ Total(package) > 0 /\ MaxRetries \in Nat
  BY <1>1, DataType, SizeAssumption
<1>3. QED
  BY <1>2, TransferParts DEF ProgramOK, ProgramTyped

\* The step that asks what the manager supports keeps the invariant.
LEMMA InfoKeeps ==
    ASSUME TransferInv, Send("info", Inform, AfterInfo)
    PROVE  ManagerNow' /\ ProgramInv'
<1>1. step = "info" /\ step \in Staging
  BY DEF Send, Staging
<1>2. PICK x \in Request(Inform) : Happens(x.outcome) /\ AfterInfo(x.reply)
  BY DEF Send
<1>3. /\ package \in Packages /\ accepted = 0 /\ accepted \in 0..Total(package)
      /\ tries \in 0..MaxRetries /\ tries < MaxRetries /\ ManagerNow
      /\ Total(package) \in Nat /\ MaxRetries \in Nat /\ MaxRetries > 0
  BY <1>1, ProgramNow, SizeAssumption
<1>4. /\ UNCHANGED <<receiver, staging, pending>>
      /\ x.reply.ok => x.reply.state = receiver.state /\ x.reply.offset = Len(receiver.got)
  BY <1>2, <1>3, Informed
<1>5. ManagerNow'
  BY <1>3, <1>4, FirmwareSame
<1>6. CASE Stop("failed")
  BY <1>3, <1>5, <1>6, AsideKeeps
<1>7. CASE GoOn("begin")
  <2>1. package' = package /\ accepted' = 0 /\ tries' = tries /\ step' = "begin"
    BY <1>3, <1>7 DEF GoOn
  <2>2. Total(package') = Total(package)
    BY <2>1
  <2>3. QED
    BY <1>3, <1>5, <2>1, <2>2, Aside
<1>8. CASE x.reply.ok /\ x.reply.state = "ready" /\ Stop("offer")
  <2>1. package' = package /\ accepted' = 0 /\ tries' = 0 /\ step' = "offer"
    BY <1>8 DEF Stop
  <2>2. receiver'.state = "ready"
    BY <1>4, <1>8
  <2>3. ProgramInv'
    BY <1>3, <2>1, <2>2 DEF ProgramInv, ProgramTyped, ProgramOK, PrefixOK, OfferOK, Staging
  <2>4. QED
    BY <1>5, <2>3
<1>9. QED
  BY <1>2, <1>6, <1>7, <1>8 DEF AfterInfo

\* The step that opens the receiver keeps the invariant.
LEMMA BegunKeeps ==
    ASSUME TransferInv, Send("begin", BeginReceive(package), AfterBegun)
    PROVE  ManagerNow' /\ ProgramInv'
<1>1. step = "begin" /\ step \in Staging
  BY DEF Send, Staging
<1>2. PICK x \in Request(BeginReceive(package)) : Happens(x.outcome) /\ AfterBegun(x.reply)
  BY DEF Send
<1>3. /\ package \in Packages /\ accepted = 0 /\ accepted \in 0..Total(package)
      /\ tries \in 0..MaxRetries /\ tries < MaxRetries /\ ManagerNow
      /\ Total(package) \in Nat /\ Total(package) > 0
  BY <1>1, ProgramNow
<1>4. x.outcome \in BeginReceive(package) \cup {Refusal}
  BY <1>2, Requested
<1>5. \A o \in BeginReceive(package) :
         OutcomeOK(o) /\ ((~o.ok /\ o.receiver = receiver) \/ o.receiver.got = <<>>)
  BY <1>3, BeginReceiveOK
<1>6. OutcomeOK(Refusal)
  BY <1>3, SameOK, RefusalIsSame
<1>7. ManagerNow'
  BY <1>2, <1>4, <1>5, <1>6 DEF Happens, OutcomeOK, ManagerNow
<1>8. CASE GoOn("abort")
  BY <1>3, <1>7, <1>8, AsideKeeps
<1>9. CASE x.reply.ok /\ GoOn("data")
  <2>1. package' = package /\ accepted' = accepted /\ tries' = tries /\ step' = "data"
    BY <1>9 DEF GoOn
  <2>2. x.outcome \in BeginReceive(package) /\ x.outcome.ok
    BY <1>2, <1>9, Requested
  <2>3. receiver'.got = <<>>
    BY <1>2, <1>5, <2>2 DEF Happens
  <2>4. First(package', accepted') = <<>>
    <3>1. SubSeq(Data(package), 1, 0) = <<>>
      BY SubSeqEmpty
    <3>2. First(package, 0) = <<>>
      BY <3>1 DEF First
    <3>3. QED
      BY <1>3, <2>1, <3>2
  <2>5. Total(package') = Total(package)
    BY <2>1
  <2>6. QED
    BY <1>3, <1>7, <2>1, <2>3, <2>4, <2>5, Along
<1>10. QED
  BY <1>2, <1>8, <1>9 DEF AfterBegun

\* The step that sends a frame of a package keeps the invariant.
LEMMA WriteKeeps ==
    ASSUME TransferInv, step = "data", Send("data", WriteReceive(accepted, Frame), AfterWrite)
    PROVE  ManagerNow' /\ ProgramInv'
<1>1. step \in Staging
  BY DEF Staging
<1>2. PICK x \in Request(WriteReceive(accepted, Frame)) :
         Happens(x.outcome) /\ AfterWrite(x.reply)
  BY DEF Send
<1>3. /\ package \in Packages /\ accepted \in 0..Total(package) /\ accepted < Total(package)
      /\ tries \in 0..MaxRetries /\ tries < MaxRetries /\ ManagerNow
  BY <1>1, ProgramNow
<1>4. /\ Frame \in Seq(PackageUnits) /\ Len(Frame) <= FrameSize
      /\ First(package, accepted) \o Frame = First(package, accepted + Len(Frame))
  BY <1>3, FrameType
<1>5. x.outcome \in WriteReceive(accepted, Frame) \cup {Refusal}
  BY <1>2, Requested
<1>6. \A o \in WriteReceive(accepted, Frame) :
         /\ OutcomeOK(o)
         /\ \/ ~o.ok /\ o.receiver = receiver
            \/ ~o.ok /\ o.receiver.state = "failed"
            \/ /\ receiver.state \in {"manifest", "payload"} /\ accepted = Len(receiver.got)
               /\ o.receiver.got = receiver.got \o Frame
  BY <1>3, <1>4, WriteReceiveOK
<1>7. OutcomeOK(Refusal) /\ Refusal.receiver = receiver /\ Refusal.ok = FALSE
  BY <1>3, SameOK, RefusalIsSame
<1>8. ManagerNow'
  BY <1>2, <1>5, <1>6, <1>7 DEF Happens, OutcomeOK, ManagerNow
<1>9. Receiving => receiver.got = First(package, accepted)
  BY TransferParts DEF PrefixOK
<1>10. receiver' = x.outcome.receiver
  BY <1>2 DEF Happens
<1>11. \/ ~x.outcome.ok /\ (Receiving' => receiver'.got = First(package, accepted))
       \/ Receiving' => receiver'.got = First(package, accepted + Len(Frame))
  <2>1. CASE x.outcome = Refusal
    <3>1. receiver' = receiver /\ ~x.outcome.ok
      BY <1>7, <1>10, <2>1
    <3>2. QED
      BY <1>9, <3>1 DEF Receiving
  <2>2. CASE x.outcome \in WriteReceive(accepted, Frame)
    <3>1. CASE ~x.outcome.ok /\ x.outcome.receiver = receiver
      BY <1>9, <1>10, <3>1 DEF Receiving
    <3>2. CASE x.outcome.receiver.state = "failed"
      BY <1>10, <3>2 DEF Receiving
    <3>3. CASE /\ receiver.state \in {"manifest", "payload"}
               /\ x.outcome.receiver.got = receiver.got \o Frame
      <4>1. Receiving
        BY <3>3 DEF Receiving
      <4>2. receiver'.got = First(package, accepted) \o Frame
        BY <1>9, <1>10, <3>3, <4>1
      <4>3. QED
        BY <1>4, <4>2
    <3>4. QED
      BY <1>6, <2>2, <3>1, <3>2, <3>3
  <2>3. QED
    BY <1>5, <2>1, <2>2
<1>12. CASE x.reply.ok /\ Accept(x.reply.state)
  <2>1. x.outcome.ok
    BY <1>2, <1>12, Requested
  <2>2. Receiving' => receiver'.got = First(package, accepted + Len(Frame))
    BY <1>11, <2>1
  <2>3. QED
    BY <1>3, <1>8, <1>12, <2>2, AcceptKeeps
<1>13. CASE Recover
  <2>1. Receiving' => \/ receiver'.got = First(package, accepted)
                      \/ receiver'.got = First(package, accepted + Len(Frame))
    BY <1>11
  <2>2. QED
    BY <1>3, <1>8, <1>13, <2>1, RecoverKeeps
<1>14. QED
  BY <1>2, <1>12, <1>13 DEF AfterWrite

\* The first n units of a package are n units.
LEMMA FirstLen ==
    ASSUME NEW p \in Packages, NEW n \in 0..Total(p)
    PROVE  Len(First(p, n)) = n
<1>1. Data(p) \in Seq(PackageUnits) /\ Len(Data(p)) = Total(p)
  BY DataType
<1>2. QED
  BY <1>1, CutFrame DEF First

\* The step that asks, after a frame in doubt, how far the receiver is.
LEMMA PositionKeeps ==
    ASSUME TransferInv, Send("recover", Inform, AfterPosition)
    PROVE  ManagerNow' /\ ProgramInv'
<1>1. step = "recover" /\ step \in Staging
  BY DEF Send, Staging
<1>2. PICK x \in Request(Inform) : Happens(x.outcome) /\ AfterPosition(x.reply)
  BY DEF Send
<1>3. /\ package \in Packages /\ accepted \in 0..Total(package) /\ accepted < Total(package)
      /\ tries \in 0..MaxRetries /\ tries < MaxRetries /\ ManagerNow
  BY <1>1, ProgramNow
<1>4. /\ UNCHANGED <<receiver, staging, pending>>
      /\ x.reply.ok => x.reply.state = receiver.state /\ x.reply.offset = Len(receiver.got)
  BY <1>2, <1>3, Informed
<1>5. ManagerNow'
  BY <1>3, <1>4, FirmwareSame
<1>6. /\ Len(First(package, accepted)) = accepted
      /\ Len(First(package, accepted + Len(Frame))) = accepted + Len(Frame)
      /\ Len(Frame) > 0 /\ Len(Frame) \in Nat
  BY <1>3, FirstLen, FrameType
<1>7. Receiving' => \/ receiver'.got = First(package, accepted)
                    \/ receiver'.got = First(package, accepted + Len(Frame))
  BY <1>1, <1>4, TransferParts DEF PrefixOK, Receiving
<1>8. Len(First(package, accepted)) # Len(First(package, accepted + Len(Frame)))
  BY <1>3, <1>6
<1>9. CASE /\ x.reply.ok /\ x.reply.offset = accepted + Len(Frame)
           /\ Accept("payload")
  <2>1. Len(receiver'.got) = accepted + Len(Frame)
    BY <1>4, <1>9
  <2>2. Receiving' => receiver'.got = First(package, accepted + Len(Frame))
    BY <1>6, <1>7, <1>8, <2>1
  <2>3. QED
    BY <1>3, <1>5, <1>9, <2>2, AcceptKeeps
<1>10. CASE x.reply.ok /\ x.reply.offset = accepted /\ GoOn("data")
  <2>1. package' = package /\ accepted' = accepted /\ tries' = tries /\ step' = "data"
    BY <1>10 DEF GoOn
  <2>2. Len(receiver'.got) = accepted
    BY <1>4, <1>10
  <2>3. Receiving' => receiver'.got = First(package, accepted)
    BY <1>6, <1>7, <1>8, <2>2
  <2>4. Total(package') = Total(package)
    BY <2>1
  <2>5. Receiving' => receiver'.got = First(package', accepted')
    BY <2>1, <2>3
  <2>6. QED
    BY <1>3, <1>5, <2>1, <2>4, <2>5, Along
<1>11. CASE Recover
  BY <1>3, <1>5, <1>7, <1>11, RecoverKeeps
<1>12. QED
  BY <1>2, <1>9, <1>10, <1>11 DEF AfterPosition

\* After a query: the data follow where the receiver is, or the program gives up.
LEMMA FollowKeeps ==
    ASSUME TransferInv, step \in {"resync", "erasing"}, UNCHANGED <<receiver, package, accepted, tries>>,
           step' \in {"abort", "erasing", "resync", Following(accepted)}
    PROVE  ProgramInv'
<1>1. step \in Staging
  BY DEF Staging
<1>2. /\ package \in Packages /\ accepted \in 0..Total(package) /\ Total(package) \in Nat
      /\ tries \in 0..MaxRetries /\ tries < MaxRetries /\ MaxRetries \in Nat
  BY <1>1, ProgramNow
<1>3. Total(package') = Total(package)
  OBVIOUS
<1>4. Receiving' => receiver'.got = First(package', accepted')
  BY TransferParts DEF PrefixOK, Receiving
<1>5. CASE step' = "abort"
  BY <1>2, <1>3, <1>5, Aside
<1>6. CASE step' # "abort"
  <2>1. step' \in {"data", "erasing", "resync", "end"}
    BY <1>6 DEF Following
  <2>2. step' = "data" => accepted' < Total(package')
    BY <1>2, <1>3, <1>6 DEF Following
  <2>3. QED
    BY <1>2, <1>3, <1>4, <2>1, <2>2, Along
<1>7. QED
  BY <1>5, <1>6

\* The step that asks where the receiver is keeps the invariant.
LEMMA ResyncKeeps ==
    ASSUME TransferInv, Send("resync", Inform, AfterResync)
    PROVE  ManagerNow' /\ ProgramInv'
<1>1. step = "resync" /\ step \in Staging
  BY DEF Send, Staging
<1>2. PICK x \in Request(Inform) : Happens(x.outcome) /\ AfterResync(x.reply)
  BY DEF Send
<1>3. ManagerNow
  BY <1>1, ProgramNow
<1>4. UNCHANGED <<receiver, staging, pending>>
  BY <1>2, <1>3, Informed
<1>5. ManagerNow'
  BY <1>3, <1>4, FirmwareSame
<1>6. UNCHANGED <<package, accepted, tries>> /\ step' \in {"abort", Following(accepted)}
  BY <1>2 DEF AfterResync
<1>7. QED
  BY <1>1, <1>4, <1>5, <1>6, FollowKeeps

\* The step that waits for the erasure keeps the invariant.
LEMMA WaitKeeps ==
    ASSUME TransferInv, step = "erasing", NEW x \in Request(Inform),
           Happens(x.outcome), AfterWait(x.reply)
    PROVE  ManagerNow' /\ ProgramInv'
<1>1. step \in Staging
  BY DEF Staging
<1>2. ManagerNow
  BY <1>1, ProgramNow
<1>3. UNCHANGED <<receiver, staging, pending>>
  BY <1>2, Informed
<1>4. ManagerNow'
  BY <1>2, <1>3, FirmwareSame
<1>5. /\ UNCHANGED <<package, accepted, tries>>
      /\ step' \in {"abort", "erasing", "resync", Following(accepted)}
  BY DEF AfterWait
<1>6. QED
  BY <1>3, <1>4, <1>5, FollowKeeps

\* The step that finishes the package keeps the invariant.
LEMMA SealKeeps ==
    ASSUME TransferInv, step = "end", Send("end", FinishReceive, AfterSeal)
    PROVE  ManagerNow' /\ ProgramInv'
<1>1. step \in Staging
  BY DEF Staging
<1>2. PICK x \in Request(FinishReceive) : Happens(x.outcome) /\ AfterSeal(x.reply)
  BY DEF Send
<1>3. /\ package \in Packages /\ accepted \in 0..Total(package) /\ tries \in 0..MaxRetries
      /\ ManagerNow /\ MaxRetries \in Nat /\ Total(package) \in Nat
  BY <1>1, ProgramNow
<1>4. x.outcome \in FinishReceive \cup {Refusal}
  BY <1>2, Requested
<1>5. \A o \in FinishReceive :
         /\ OutcomeOK(o)
         /\ \/ ~o.ok /\ o.receiver = receiver
            \/ ~o.ok /\ o.receiver.state = "failed"
            \/ receiver.state = "payload" /\ o.receiver.state = "ready" /\ o.pending = Received
  BY <1>3, FinishReceiveOK
<1>6. OutcomeOK(Refusal)
  BY <1>3, SameOK, RefusalIsSame
<1>7. ManagerNow'
  BY <1>2, <1>4, <1>5, <1>6 DEF Happens, OutcomeOK, ManagerNow
<1>8. CASE GoOn("abort")
  BY <1>3, <1>7, <1>8, AsideKeeps
<1>9. CASE x.reply.ok /\ x.reply.state = "ready" /\ Stop("staged")
  <2>1. x.outcome \in FinishReceive /\ x.outcome.ok
    BY <1>2, <1>9, Requested
  <2>2. receiver.state = "payload" /\ receiver'.state = "ready" /\ pending' = Received
    BY <1>2, <1>5, <2>1 DEF Happens
  <2>3. receiver.got = First(package, accepted)
    BY <2>2, TransferParts DEF PrefixOK, Receiving
  <2>4. Len(receiver.got) >= ManifestSize /\ ManifestSize > 0 /\ ManifestSize \in Nat
    BY <1>3, <2>2, ReceiverNow DEF ManagerNow, ManagerOK, PayloadOK
  <2>5. accepted \in 1..Total(package)
    BY <1>3, <2>3, <2>4, FirstLen
  <2>6. Received = package
    BY <1>3, <2>3, <2>5, FirstUnit DEF Received, First
  <2>7. package' = package /\ accepted' = 0 /\ tries' = 0 /\ step' = "staged"
    BY <1>9 DEF Stop
  <2>8. ProgramInv'
    BY <1>3, <2>2, <2>6, <2>7 DEF ProgramInv, ProgramTyped, ProgramOK, PrefixOK, OfferOK, Staging
  <2>9. QED
    BY <1>7, <2>8
<1>10. QED
  BY <1>2, <1>8, <1>9 DEF AfterSeal

\* The step that gives a package up keeps the invariant.
LEMMA StopKeeps ==
    ASSUME TransferInv, Send("abort", AbortReceive, LAMBDA reply : Stop("failed"))
    PROVE  ManagerNow' /\ ProgramInv'
<1>1. step = "abort" /\ step \in Staging
  BY DEF Send, Staging
<1>2. PICK x \in Request(AbortReceive) : Happens(x.outcome) /\ Stop("failed")
  BY DEF Send
<1>3. /\ package \in Packages /\ accepted \in 0..Total(package) /\ tries \in 0..MaxRetries
      /\ ManagerNow
  BY <1>1, ProgramNow
<1>4. x.outcome \in AbortReceive \cup {Refusal}
  BY <1>2, Requested
<1>5. \A o \in AbortReceive : OutcomeOK(o)
  BY <1>3, AbortReceiveOK
<1>6. OutcomeOK(Refusal)
  BY <1>3, SameOK, RefusalIsSame
<1>7. ManagerNow'
  BY <1>2, <1>4, <1>5, <1>6 DEF Happens, OutcomeOK, ManagerNow
<1>8. QED
  BY <1>2, <1>3, <1>7, AsideKeeps

\* The program stays where it is.
LEMMA ProgramSame ==
    ASSUME TransferInv, UNCHANGED program,
           Receiving' => Receiving /\ receiver'.got = receiver.got,
           receiver.state = "ready" => receiver'.state = "ready",
           pending' = pending
    PROVE  ProgramInv'
<1>1. ProgramTyped /\ ProgramOK /\ PrefixOK /\ OfferOK
  BY TransferParts
<1>2. UNCHANGED <<step, package, accepted, tries>>
  OBVIOUS
<1>3. ProgramTyped'
  BY <1>1, <1>2 DEF ProgramTyped
<1>4. ProgramOK'
  BY <1>1, <1>2 DEF ProgramOK
<1>5. PrefixOK'
  <2>1. Frame' = Frame
    BY <1>2 DEF Frame
  <2>2. SUFFICES ASSUME step \in {"data", "recover", "erasing", "resync", "end"}, Receiving'
                 PROVE  \/ receiver.got = First(package, accepted)
                        \/ step = "recover" /\ receiver.got = First(package, accepted + Len(Frame))
    BY <1>2, <2>1 DEF PrefixOK
  <2>3. QED
    BY <1>1, <2>2 DEF PrefixOK
<1>6. OfferOK'
  BY <1>1, <1>2 DEF OfferOK
<1>7. QED
  BY <1>3, <1>4, <1>5, <1>6 DEF ProgramInv

\* A program that is gone counts on nothing.
LEMMA GoneKeeps ==
    ASSUME ProgramGone
    PROVE  ProgramInv' /\ Apart'
<1>1. step' = "off" /\ package' = NoPackage /\ accepted' = 0 /\ tries' = 0
  BY DEF ProgramGone
<1>2. tries' \in 0..MaxRetries
  BY <1>1, SizeAssumption
<1>3. QED
  BY <1>1, <1>2 DEF ProgramInv, ProgramTyped, ProgramOK, PrefixOK, OfferOK, Apart, Staging

\* TransferInv after a step of one program, from the parts.
LEMMA StepWhole ==
    ASSUME CoreInv', ManagerNow', ProgramInv', Apart'
    PROVE  TransferInv'
BY TransferWhole DEF ProgramInv

\* Every step of the program that stages a package keeps the invariant.
LEMMA StageKeeps ==
    ASSUME TransferInv, StageFirmware \/ WaitUnanswered
    PROVE  TransferInv'
<1>1. UNCHANGED vars
  BY DEF StageFirmware, WaitUnanswered
<1>2. step \in Staging
  BY DEF StageFirmware, WaitUnanswered, Send, Staging
<1>3. CoreInv' /\ Apart'
  BY <1>1, <1>2, TransferParts, CoreSame DEF Apart
<1>4. ASSUME step = "erasing",
             \E x \in Answered(Inform) \cup Unanswered(Inform) :
                Happens(x.outcome) /\ AfterWait(x.reply)
      PROVE  ManagerNow' /\ ProgramInv'
  BY <1>4, WaitKeeps DEF Request
<1>5. ManagerNow' /\ ProgramInv'
  <2>1. ASSUME StageFirmware PROVE ManagerNow' /\ ProgramInv'
    <3>1. \/ Send("info", Inform, AfterInfo)
          \/ Send("begin", BeginReceive(package), AfterBegun)
          \/ step = "data" /\ Send("data", WriteReceive(accepted, Frame), AfterWrite)
          \/ Send("recover", Inform, AfterPosition)
          \/ Send("resync", Inform, AfterResync)
          \/ /\ step = "erasing"
             /\ \E x \in Answered(Inform) : Happens(x.outcome) /\ AfterWait(x.reply)
          \/ step = "end" /\ Send("end", FinishReceive, AfterSeal)
          \/ Send("abort", AbortReceive, LAMBDA reply : Stop("failed"))
      BY <2>1 DEF StageFirmware
    <3>2. QED
      BY <1>4, <3>1, InfoKeeps, BegunKeeps, WriteKeeps, PositionKeeps, ResyncKeeps, SealKeeps,
         StopKeeps
  <2>2. ASSUME WaitUnanswered PROVE ManagerNow' /\ ProgramInv'
    BY <1>4, <2>2 DEF WaitUnanswered
  <2>3. QED
    BY <2>1, <2>2
<1>6. QED
  BY <1>3, <1>5, StepWhole

\* The service loop erases a sector, or opens the receiver for the payload.
LEMMA ServiceKeeps ==
    ASSUME TransferInv, ServiceStep
    PROVE  TransferInv'
<1>1. receiver.state = "erasing" /\ UNCHANGED <<vars, pending, program>>
  BY DEF ServiceStep
<1>2. ManagerNow /\ CoreInv /\ Apart
  BY TransferParts
<1>3. /\ receiver \in Receivers /\ staging \in StagingSlots
      /\ pending \in Packages \cup {NoPackage}
      /\ Len(receiver.got) <= receiver.size /\ Len(receiver.page) <= PageSize
  BY <1>2, ReceiverNow
<1>4. ErasingOK(receiver, staging) /\ Len(receiver.page) < PageSize
  BY <1>1, <1>2 DEF ManagerNow, ManagerOK
<1>5. Erased \in StagingSlots /\ Erased.payload = <<>>
  BY ErasedTyped DEF Erased
<1>6. StagingSectors \in Nat /\ StagingSectors > 0 /\ receiver.erased \in 0..StagingSectors
  BY <1>3, PackageAssumption DEF Receivers
<1>7. CASE /\ receiver.erased = StagingSectors
           /\ receiver' = [receiver EXCEPT !.state = "payload"] /\ UNCHANGED staging
  <2>1. receiver' \in Receivers
    BY <1>3, <1>7 DEF Receivers
  <2>2. /\ receiver'.state = "payload" /\ receiver'.got = receiver.got
        /\ receiver'.page = receiver.page /\ receiver'.size = receiver.size
    BY <1>3, <1>7 DEF Receivers
  <2>3. staging.payload = <<>> /\ receiver.page = <<>> /\ Len(receiver.got) = ManifestSize
    BY <1>4, <1>6, <1>7 DEF ErasingOK
  <2>4. Payload(receiver.got) = <<>>
    <3>1. ManifestSize + 1 \in Int /\ ManifestSize \in Int /\ ManifestSize < ManifestSize + 1
      BY PackageAssumption
    <3>2. SubSeq(receiver.got, ManifestSize + 1, ManifestSize) = <<>>
      BY <3>1, SubSeqEmpty
    <3>3. QED
      BY <2>3, <3>2 DEF Payload
  <2>5. <<>> \o <<>> = <<>> /\ ManifestSize >= ManifestSize
    BY EmptySeq, PackageAssumption
  <2>6. PayloadOK(receiver', staging)
    BY <2>2, <2>3, <2>4, <2>5 DEF PayloadOK, Payload
  <2>7. ManagerOK(receiver', staging, pending)
    BY <1>3, <1>4, <2>1, <2>2, <2>6 DEF ManagerOK
  <2>8. ManagerNow'
    BY <1>1, <1>7, <2>7 DEF ManagerNow
  <2>9. QED
    <3>1. ProgramInv'
      BY <1>1, <2>2, ProgramSame DEF Receiving
    <3>2. CoreInv' /\ Apart'
      BY <1>1, <1>2, CoreSame DEF Apart
    <3>3. QED
      BY <2>8, <3>1, <3>2, StepWhole
<1>8. CASE /\ receiver.erased < StagingSectors /\ staging' = Erased
           /\ receiver' = [receiver EXCEPT !.erased = @ + 1]
  <2>0. receiver.erased + 1 \in 0..StagingSectors
    BY <1>6, <1>8
  <2>1. receiver' \in Receivers
    BY <1>3, <1>8, <2>0 DEF Receivers
  <2>2. /\ receiver'.state = "erasing" /\ receiver'.got = receiver.got
        /\ receiver'.page = receiver.page /\ receiver'.size = receiver.size
    BY <1>1, <1>3, <1>8 DEF Receivers
  <2>3. ErasingOK(receiver', Erased)
    BY <1>4, <1>5, <2>2 DEF ErasingOK
  <2>4. ManagerOK(receiver', Erased, pending)
    BY <1>3, <1>4, <1>5, <2>1, <2>2, <2>3 DEF ManagerOK
  <2>5. ManagerNow'
    BY <1>1, <1>8, <2>4 DEF ManagerNow
  <2>6. QED
    <3>1. ProgramInv'
      BY <1>1, <2>2, ProgramSame DEF Receiving
    <3>2. CoreInv' /\ Apart'
      BY <1>1, <1>2, CoreSame DEF Apart
    <3>3. QED
      BY <2>5, <3>1, <3>2, StepWhole
<1>9. CASE staging' = Erased /\ receiver' = [receiver EXCEPT !.state = "failed"]
  <2>1. receiver' \in Receivers
    BY <1>3, <1>9 DEF Receivers
  <2>2. /\ receiver'.state = "failed" /\ receiver'.got = receiver.got
        /\ receiver'.page = receiver.page /\ receiver'.size = receiver.size
    BY <1>3, <1>9 DEF Receivers
  <2>3. ManagerOK(receiver', Erased, pending)
    BY <1>3, <1>5, <2>1, <2>2 DEF ManagerOK
  <2>4. ManagerNow'
    BY <1>1, <1>9, <2>3 DEF ManagerNow
  <2>5. QED
    <3>1. ProgramInv'
      BY <1>1, <2>2, ProgramSame DEF Receiving
    <3>2. CoreInv' /\ Apart'
      BY <1>1, <1>2, CoreSame DEF Apart
    <3>3. QED
      BY <2>4, <3>1, <3>2, StepWhole
<1>10. QED
  BY <1>7, <1>8, <1>9 DEF ServiceStep

\* A restart of the manager keeps the invariant.
LEMMA RestartKeeps ==
    ASSUME TransferInv, Restarted
    PROVE  TransferInv'
<1>1. /\ PowerCycle /\ receiver' = NoReceiver /\ staging' = Remains /\ pending' = NoPackage
      /\ ProgramGone /\ UNCHANGED faults
  BY DEF Restarted
<1>2. CoreInv /\ ManagerNow
  BY TransferParts
<1>3. CoreInv'
  BY <1>1, <1>2, QuietKeeps
<1>4. ManagerOK(NoReceiver, Remains, NoPackage)
  BY <1>2, ErasedTyped, IdleOK
<1>5. ManagerNow'
  BY <1>1, <1>4 DEF ManagerNow
<1>6. QED
  BY <1>1, <1>3, <1>5, GoneKeeps, StepWhole

\* The steps of the user, and failures of the K2.
LEMMA UserKeeps ==
    ASSUME TransferInv, (\E p \in Packages : PressU(p)) \/ PackageFails \/ Apply \/ Reset
    PROVE  TransferInv'
<1>1. CoreInv /\ ManagerNow /\ Apart
  BY TransferParts
<1>2. ASSUME UNCHANGED vars, UNCHANGED manager, ProgramInv', Apart' PROVE TransferInv'
  BY <1>1, <1>2, CoreSame, FirmwareSame, StepWhole
<1>3. MaxRetries \in Nat /\ MaxRetries > 0
  BY SizeAssumption
<1>4. ASSUME NEW p \in Packages, PressU(p) PROVE TransferInv'
  <2>1. /\ pc \notin Running /\ step' = "info" /\ package' = p /\ accepted' = 0 /\ tries' = 0
        /\ UNCHANGED <<vars, manager>>
    BY <1>4 DEF PressU
  <2>2. Total(p) \in Nat
    BY DataType
  <2>3. ProgramInv'
    BY <1>3, <2>1, <2>2, Aside
  <2>4. Apart'
    BY <2>1 DEF Apart
  <2>5. QED
    BY <1>2, <2>1, <2>3, <2>4
<1>5. ASSUME PackageFails PROVE TransferInv'
  <2>1. step \in {"begin", "data", "end"} /\ (Stop("failed") \/ GoOn("abort"))
        /\ UNCHANGED <<vars, manager>>
    BY <1>5 DEF PackageFails
  <2>2. step \in Staging
    BY <2>1 DEF Staging
  <2>3. ProgramInv'
    BY <2>1, <2>2, ProgramNow, AsideKeeps
  <2>4. Apart'
    BY <1>1, <2>1, <2>2 DEF Apart
  <2>5. QED
    BY <1>2, <2>1, <2>3, <2>4
<1>6. ASSUME step \in {"offer", "staged"}, Stop("failed"), UNCHANGED <<vars, manager>>
      PROVE  TransferInv'
  <2>1. step' = "failed" /\ accepted' = 0 /\ tries' = 0 /\ package' = package
    BY <1>6 DEF Stop
  <2>2. ProgramInv'
    BY <1>3, <2>1, TransferParts
    DEF ProgramInv, ProgramTyped, ProgramOK, PrefixOK, OfferOK, Staging
  <2>3. Apart'
    BY <2>1 DEF Apart, Staging
  <2>4. QED
    BY <1>2, <1>6, <2>2, <2>3
<1>7. ASSUME Apply PROVE TransferInv'
  BY <1>6, <1>7, RestartKeeps DEF Apply
<1>8. ASSUME ResetK2, UNCHANGED <<faults, firmware>> PROVE TransferInv'
  <2>1. CoreInv'
    BY <1>1, <1>8, QuietKeeps
  <2>2. ManagerNow'
    BY <1>1, <1>8, FirmwareSame
  <2>3. ProgramInv'
    BY <1>8, ProgramSame DEF Receiving
  <2>4. Apart'
    BY <1>8 DEF ResetK2, StartAnew, Apart, Running
  <2>5. QED
    BY <2>1, <2>2, <2>3, <2>4, StepWhole
<1>9. ASSUME Reset PROVE TransferInv'
  BY <1>2, <1>8, <1>9, GoneKeeps DEF Reset
<1>10. QED
  BY <1>4, <1>5, <1>7, <1>9

\* A step of a core transfer, or of the FPGA, beside the receiver.
LEMMA BesideKeeps ==
    ASSUME TransferInv, UNCHANGED firmware, CoreInv', step \in Staging => pc' = pc
    PROVE  TransferInv'
<1>1. ManagerNow /\ Apart
  BY TransferParts
<1>2. ManagerNow'
  BY <1>1, FirmwareSame
<1>3. ProgramInv'
  BY ProgramSame DEF Receiving
<1>4. Apart'
  BY <1>1 DEF Apart
<1>5. QED
  BY <1>2, <1>3, <1>4, StepWhole

\* Every step keeps the invariant.
LEMMA StepKeeps ==
    ASSUME FaultsApart, TransferInv, [K2Next]_allVars
    PROVE  TransferInv'
<1>1. CoreInv /\ ManagerNow /\ Apart
  BY TransferParts
<1>2. ASSUME SendCore PROVE TransferInv'
  <2>1. Receiving \in BOOLEAN
    BY DEF Receiving
  <2>2. CoreInv'
    BY <1>1, <1>2, <2>1, TransferKeeps DEF SendCore
  <2>3. QED
    BY <1>2, <2>2, BesideKeeps DEF SendCore
<1>3. ASSUME step \notin Staging, (\E f \in Files, k \in Slots : Start(f, k)) \/ FileFails,
             UNCHANGED <<faults, firmware>>
      PROVE  TransferInv'
  BY <1>1, <1>3, QuietKeeps, BesideKeeps
<1>4. ASSUME Poll, UNCHANGED <<faults, firmware>> PROVE TransferInv'
  <2>1. CoreInv'
    BY <1>1, <1>4, QuietKeeps
  <2>2. pc' = pc
    BY <1>4 DEF Poll
  <2>3. QED
    BY <1>4, <2>1, <2>2, BesideKeeps
<1>5. ASSUME UNCHANGED allVars PROVE TransferInv'
  <2>1. CoreInv'
    BY <1>1, <1>5, CoreSame
  <2>2. QED
    BY <1>5, <2>1, BesideKeeps
<1>6. QED
  BY <1>2, <1>3, <1>4, <1>5, StageKeeps, ServiceKeeps, RestartKeeps, UserKeeps DEF K2Next

\* The invariant holds at the start.
LEMMA TransferBegins ==
    ASSUME K2Init
    PROVE  TransferInv
<1>1. /\ receiver = NoReceiver /\ staging = Erased /\ pending = NoPackage
      /\ step = "off" /\ package = NoPackage /\ accepted = 0 /\ tries = 0
  BY DEF K2Init, FirmwareInit
<1>2. CoreInv
  BY CoreBegins DEF K2Init
<1>3. ManagerNow
  BY <1>1, ErasedTyped, IdleOK DEF ManagerNow
<1>4. ProgramTyped /\ ProgramOK /\ PrefixOK /\ OfferOK /\ Apart
  BY <1>1, SizeAssumption DEF ProgramTyped, ProgramOK, PrefixOK, OfferOK, Apart, Staging
<1>5. TransferTypes
  BY <1>2, <1>3, <1>4, TypesWhole
<1>6. QED
  BY <1>2, <1>3, <1>4, <1>5 DEF TransferInv, FirmwareInv, ManagerNow

-----------------------------------------------------------------------------
(* What holds of every behaviour of the two transfers *)

\* The inductive invariant: the uploader and the session, the program and the
\* receiver fit together at every step.
THEOREM TransferInvariantHolds ==
    ASSUME FaultsApart
    PROVE  K2Spec => []TransferInv
<1>1. K2Init => TransferInv
  BY TransferBegins
<1>2. TransferInv /\ [K2Next]_allVars => TransferInv'
  BY StepKeeps
<1>3. QED
  BY <1>1, <1>2, PTL DEF K2Spec

\* The types of the state of both transfers (supervisor_service.cpp,
\* firmware_staging.cpp, k2uploader.asm, k2coremgr.asm).
THEOREM TransferTyped ==
    ASSUME FaultsApart
    PROVE  K2Spec => []TransferTypes
<1>1. TransferInv => TransferTypes
  BY DEF TransferInv
<1>2. QED
  BY <1>1, TransferInvariantHolds, PTL

\* A slot lists a whole file or nothing, whatever is lost, late or interrupted
\* (write_page and the commit of the upload session).
THEOREM SlotsWhole ==
    ASSUME FaultsApart
    PROVE  K2Spec => []StoredWhole
<1>1. TransferInv => StoredWhole
  BY DEF TransferInv, CoreInv, StoredWhole
<1>2. QED
  BY <1>1, TransferInvariantHolds, PTL

\* A slot changes only at the end of the running transfer, only to its file and only
\* where it was asked to (k2uploader.asm; EXEC_UPLOAD_END).
THEOREM OnlyWantedStored ==
    ASSUME FaultsApart
    PROVE  K2Spec => OnlyWanted
<1>1. ASSUME TransferInv, [K2Next]_allVars
      PROVE  [Wanted]_vars
  <2>1. CoreInv
    BY <1>1, TransferParts
  <2>2. ASSUME stored' = stored PROVE Wanted
    BY <2>2 DEF Wanted
  <2>3. ASSUME SendCore PROVE Wanted
    <3>1. Receiving \in BOOLEAN
      BY DEF Receiving
    <3>2. QED
      BY <2>1, <2>3, <3>1, TransferWanted DEF SendCore
  <2>4. ASSUME ~SendCore PROVE stored' = stored
    BY <1>1, <2>4 DEF K2Next, Start, FileFails, Poll, PressU, StageFirmware, WaitUnanswered,
         PackageFails, Apply, ServiceStep, Reset, ResetK2, Restarted, PowerCycle
  <2>5. QED
    BY <2>2, <2>3, <2>4
<1>2. [Wanted]_vars =>
         [\A k \in Slots : stored'[k] # stored[k] =>
             pc = "end" /\ k = want.slot /\ stored'[k] = Content(want.file)]_vars
  BY DEF Wanted
<1>3. QED
  BY <1>1, <1>2, TransferInvariantHolds, PTL DEF K2Spec, OnlyWanted

\* What the two programs tell their user is so: "Upload verified by size/CRC", a
\* package offered for installation, a package staged.
THEOREM ReportsTrue ==
    ASSUME FaultsApart
    PROVE  K2Spec => []ReportsAreTrue
<1>1. TransferInv => ReportsAreTrue
  BY DEF TransferInv, CoreInv, FirmwareInv, OfferOK, ManagerOK, ReadyOK, ReportsAreTrue
<1>2. QED
  BY <1>1, TransferInvariantHolds, PTL

\* The receiver has the beginning of the package, up to the frame acknowledged or the
\* one in doubt, in flash or in the page buffer (k2coremgr.asm:2465).
THEOREM ReceiverInStep ==
    ASSUME FaultsApart
    PROVE  K2Spec => []InStep
<1>1. ASSUME TransferInv PROVE InStep
  <2>1. SUFFICES ASSUME step \in {"data", "recover", "erasing", "resync", "end"}, Receiving
                 PROVE  /\ receiver.got = SubSeq(Data(package), 1, Len(receiver.got))
                        /\ Len(receiver.got) \in {accepted, accepted + Len(Frame)}
                        /\ receiver.state = "payload" =>
                              staging.payload \o receiver.page = Payload(receiver.got)
    BY DEF InStep
  <2>2. step \in Staging
    BY <2>1 DEF Staging
  <2>3. /\ package \in Packages /\ accepted \in 0..Total(package)
        /\ step = "recover" => accepted < Total(package)
    BY <1>1, <2>2, ProgramNow
  <2>4. PICK n \in {accepted, accepted + Len(Frame)} :
           n \in 0..Total(package) /\ receiver.got = First(package, n)
    BY <1>1, <2>1, <2>3, TransferParts, FrameType DEF PrefixOK
  <2>5. Len(receiver.got) = n
    BY <2>3, <2>4, FirstLen
  <2>6. receiver.state = "payload" => staging.payload \o receiver.page = Payload(receiver.got)
    BY <1>1, TransferParts DEF ManagerNow, ManagerOK, PayloadOK
  <2>7. QED
    BY <2>4, <2>5, <2>6 DEF First
<1>2. QED
  BY <1>1, TransferInvariantHolds, PTL
=============================================================================
