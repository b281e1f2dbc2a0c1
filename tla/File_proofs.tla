---- MODULE File_proofs ----
(***************************************************************************)
(* Proofs about File: for every content, size, position and system, and    *)
(* whatever another process does, the calls give back what they take, keep *)
(* the positions they have to keep, and read and write the bytes they say. *)
(***************************************************************************)
EXTENDS File, SequenceTheorems, TLAPS

----------------------------------------------------------------------------
(***************************************************************************)
(* The inductive invariant.                                                *)
(***************************************************************************)

\* Which call is at which place.
Places ==
    /\ pc # "ready" => call.op # "none"
    /\ pc \in {"open", "close"} => call.named
    /\ pc \in {"size", "size_end", "size_back"} => call.op \in {"size", "entire"}
    /\ pc \in {"position", "restore"} => call.op = "entire"
    /\ pc = "read" => call.op \in {"read", "entire"}
    /\ pc = "write" => call.op = "write"
    /\ call.op = "read" => ~call.named /\ pc \in {"ready", "read"}
    /\ call.allocates => call.op \in {"read", "entire"}

\* The file opened by its name is open, and the block allocated, between these places only.
Resources ==
    /\ files["named"].open = (call.named /\ pc \notin {"ready", "open"})
    /\ held = (call.allocates /\ (\/ pc \in {"position", "read", "restore"}
                                  \/ pc \in {"ready", "close"} /\ ok))
    /\ ok => pc \in {"ready", "close", "restore"}

\* How much has been done of what is to be done.
Amounts ==
    /\ Len(out) = IF call.op \in {"read", "entire"} THEN call.done ELSE 0
    /\ call.op \in {"read", "entire"} => call.done <= call.size
    /\ call.op = "write" => call.done <= Len(call.data)
    /\ pc \in {"open", "size", "size_end", "size_back", "position"} => call.done = 0
    /\ (ok /\ call.op \in {"read", "entire"}) => call.done = call.size
    /\ (ok /\ call.op = "write") => call.done = Len(call.data)

\* The position at each place of a call, in terms of the one at its beginning.  If the seek back
\* has failed it is the end of the file.
Seeks ==
    /\ pc = "open" => call.start = 0
    /\ pc \in {"size", "size_end"} => Pos = call.start
    /\ pc \in {"size_end", "size_back"} => call.curr_pos = call.start
    /\ pc = "size_back" => Pos = call.size
    /\ pc \in {"open", "size", "size_end", "size_back"} => ~call.strayed
    /\ (pc = "position" /\ ~call.strayed) => Pos = call.start
    /\ (pc = "position" /\ call.strayed /\ ~touched) => Pos = call.size
    /\ (pc \in {"read", "restore"} /\ call.op = "entire") =>
          /\ Pos = call.prev_pos + call.done
          /\ ~call.strayed => call.prev_pos = call.start
          /\ (call.strayed /\ ~touched) => call.prev_pos = call.size
    /\ call.op = "read" => Pos = call.start + call.done
    /\ (call.op = "write" /\ (pc = "write" \/ ~call.named)) => Pos = call.start + call.done
    /\ (pc = "ready" /\ call.op \in {"size", "entire"} /\ ~call.named /\ ~call.strayed)
          => Pos = call.start

\* The bytes so far, as long as nobody else has written to the file.
BytesSoFar ==
    ~touched =>
        /\ call.op = "read" =>
              /\ out = SubSeq(content, call.start + 1, call.start + call.done)
              /\ call.done = 0 \/ call.start + call.done <= Len(content)
        /\ (/\ call.op \in {"size", "entire"}
            /\ pc \in {"size_back", "position", "read", "restore"} \/ ok)
              => call.size = Len(content)
        /\ (call.op = "entire" /\ pc \in {"read", "restore"}) =>
              /\ out = SubSeq(content, call.prev_pos + 1, call.prev_pos + call.done)
              /\ call.done = 0 \/ call.prev_pos + call.done <= Len(content)
        /\ (call.op = "entire" /\ pc \in {"ready", "close"} /\ ok) => out = content
        /\ call.op = "write" =>
              content = Written(call.before, call.start, SubSeq(call.data, 1, call.done))

IInv ==
    /\ TypeOK
    /\ Places
    /\ Resources
    /\ Amounts
    /\ Seeks
    /\ BytesSoFar

----------------------------------------------------------------------------
(***************************************************************************)
(* Bytes: what a write in pieces puts into the file, and what a read in    *)
(* pieces takes from it.                                                   *)
(***************************************************************************)

LEMMA WrittenNothing ==
    ASSUME NEW bytes, NEW pos
    PROVE  Written(bytes, pos, << >>) = bytes
BY DEF Written

LEMMA WrittenBytes ==
    ASSUME NEW bytes \in Seq(Byte), NEW pos \in Nat, NEW piece \in Seq(Byte), piece # << >>
    PROVE  LET end == pos + Len(piece)
           IN  /\ Written(bytes, pos, piece) \in Seq(Byte)
               /\ Len(Written(bytes, pos, piece)) = IF end > Len(bytes) THEN end ELSE Len(bytes)
               /\ \A n \in 1 .. Len(Written(bytes, pos, piece)) :
                     Written(bytes, pos, piece)[n] =
                        IF pos < n /\ n <= end THEN piece[n - pos]
                        ELSE IF n <= Len(bytes) THEN bytes[n] ELSE Zero
<1> DEFINE end == pos + Len(piece)
           length == IF end > Len(bytes) THEN end ELSE Len(bytes)
           byte(n) == IF pos < n /\ n <= end THEN piece[n - pos]
                      ELSE IF n <= Len(bytes) THEN bytes[n] ELSE Zero
<1>1. Len(bytes) \in Nat /\ Len(piece) \in Nat
  BY LenProperties
<1>2. end \in Nat /\ length \in Nat
  BY <1>1
<1>3. ASSUME NEW n \in 1 .. length PROVE byte(n) \in Byte
  <2>1. CASE pos < n /\ n <= end
    <3>1. n - pos \in 1 .. Len(piece)
      BY <1>1, <1>2, <2>1
    <3> QED BY <2>1, <3>1, LenProperties
  <2>2. CASE ~(pos < n /\ n <= end) /\ n <= Len(bytes)
    <3>1. n \in 1 .. Len(bytes)
      BY <1>1, <1>2, <2>2
    <3> QED BY <2>2, <3>1, LenProperties
  <2> QED BY <2>1, <2>2, FileAssumption
<1>4. Written(bytes, pos, piece) = [n \in 1 .. length |-> byte(n)]
  BY DEF Written
<1> HIDE DEF length, byte
<1>5. [n \in 1 .. length |-> byte(n)] \in Seq(Byte)
  BY <1>2, <1>3
<1>6. Len([n \in 1 .. length |-> byte(n)]) = length
  BY <1>2
<1>7. \A n \in 1 .. length : [k \in 1 .. length |-> byte(k)][n] = byte(n)
  OBVIOUS
<1> QED BY <1>4, <1>5, <1>6, <1>7 DEF length, byte

LEMMA WrittenType ==
    ASSUME NEW bytes \in Seq(Byte), NEW pos \in Nat, NEW piece \in Seq(Byte)
    PROVE  Written(bytes, pos, piece) \in Seq(Byte)
BY WrittenNothing, WrittenBytes

LEMMA PieceFacts ==
    ASSUME NEW data \in Seq(Byte), NEW done \in Nat, NEW n \in Nat \ {0}, done + n <= Len(data)
    PROVE  /\ SubSeq(data, done + 1, done + n) \in Seq(Byte)
           /\ SubSeq(data, done + 1, done + n) # << >>
           /\ Len(SubSeq(data, done + 1, done + n)) = n
           /\ \A k \in 1 .. n : SubSeq(data, done + 1, done + n)[k] = data[done + k]
<1>1. \A k \in done + 1 .. done + n : k \in 1 .. Len(data)
  BY LenProperties
<1>2. \A k \in done + 1 .. done + n : data[k] \in Byte
  BY <1>1, LenProperties
<1>3. /\ SubSeq(data, done + 1, done + n) \in Seq(Byte)
      /\ Len(SubSeq(data, done + 1, done + n)) =
            IF done + 1 <= done + n THEN (done + n) - (done + 1) + 1 ELSE 0
      /\ \A k \in 1 .. (done + n) - (done + 1) + 1 :
            SubSeq(data, done + 1, done + n)[k] = data[(done + 1) + k - 1]
  BY <1>2, SubSeqProperties, done + 1 \in Int, done + n \in Int
<1>4. Len(SubSeq(data, done + 1, done + n)) = n
  BY <1>3
<1>5. SubSeq(data, done + 1, done + n) # << >>
  BY <1>4
<1>6. ASSUME NEW k \in 1 .. n PROVE SubSeq(data, done + 1, done + n)[k] = data[done + k]
  <2>1. k \in 1 .. (done + n) - (done + 1) + 1 /\ (done + 1) + k - 1 = done + k
    OBVIOUS
  <2> QED BY <1>3, <2>1
<1> QED BY <1>3, <1>4, <1>5, <1>6

\* Two pieces that follow each other are written as one.
LEMMA WrittenPieces ==
    ASSUME NEW bytes \in Seq(Byte), NEW pos \in Nat, NEW data \in Seq(Byte),
           NEW done \in Nat, NEW n \in Nat \ {0}, done + n <= Len(data)
    PROVE  Written(Written(bytes, pos, SubSeq(data, 1, done)), pos + done,
                   SubSeq(data, done + 1, done + n))
              = Written(bytes, pos, SubSeq(data, 1, done + n))
<1> DEFINE next == SubSeq(data, done + 1, done + n)
           whole == SubSeq(data, 1, done + n)
<1>1. /\ next \in Seq(Byte) /\ next # << >> /\ Len(next) = n
      /\ \A k \in 1 .. n : next[k] = data[done + k]
  BY PieceFacts
<1>2. /\ whole \in Seq(Byte) /\ whole # << >> /\ Len(whole) = done + n
      /\ \A k \in 1 .. done + n : whole[k] = data[k]
  <2>1. done + n \in Nat \ {0} /\ 0 + (done + n) <= Len(data) /\ 0 + 1 = 1 /\ 0 + (done + n) = done + n
    OBVIOUS
  <2>2. /\ SubSeq(data, 0 + 1, 0 + (done + n)) \in Seq(Byte)
        /\ SubSeq(data, 0 + 1, 0 + (done + n)) # << >>
        /\ Len(SubSeq(data, 0 + 1, 0 + (done + n))) = done + n
        /\ \A k \in 1 .. done + n : SubSeq(data, 0 + 1, 0 + (done + n))[k] = data[0 + k]
    BY <2>1, PieceFacts
  <2> QED BY <2>1, <2>2
<1>3. CASE done = 0
  <2>1. SubSeq(data, 1, done) = << >>
    BY <1>3, SubSeqEmpty
  <2>2. Written(bytes, pos, SubSeq(data, 1, done)) = bytes
    BY <2>1, WrittenNothing
  <2>3. pos + done = pos /\ done + 1 = 1 /\ done + n = n
    BY <1>3
  <2> QED BY <2>2, <2>3
<1>4. CASE done # 0
  <2> DEFINE first == SubSeq(data, 1, done)
             once == Written(bytes, pos, first)
  <2>1. /\ first \in Seq(Byte) /\ first # << >> /\ Len(first) = done
        /\ \A k \in 1 .. done : first[k] = data[k]
    <3>1. done \in Nat \ {0} /\ 0 + done <= Len(data) /\ 0 + 1 = 1 /\ 0 + done = done
      BY <1>4, LenProperties
    <3>2. /\ SubSeq(data, 0 + 1, 0 + done) \in Seq(Byte)
          /\ SubSeq(data, 0 + 1, 0 + done) # << >>
          /\ Len(SubSeq(data, 0 + 1, 0 + done)) = done
          /\ \A k \in 1 .. done : SubSeq(data, 0 + 1, 0 + done)[k] = data[0 + k]
      BY <3>1, PieceFacts
    <3> QED BY <3>1, <3>2
  <2> HIDE DEF next, whole, first
  <2>2. /\ once \in Seq(Byte)
        /\ Len(once) = IF pos + done > Len(bytes) THEN pos + done ELSE Len(bytes)
        /\ \A k \in 1 .. Len(once) :
              once[k] = IF pos < k /\ k <= pos + done THEN first[k - pos]
                        ELSE IF k <= Len(bytes) THEN bytes[k] ELSE Zero
    BY <2>1, WrittenBytes
  <2> HIDE DEF once
  <2> DEFINE twice == Written(once, pos + done, next)
             atonce == Written(bytes, pos, whole)
  <2>3. /\ twice \in Seq(Byte)
        /\ Len(twice) = IF pos + done + n > Len(once) THEN pos + done + n ELSE Len(once)
        /\ \A k \in 1 .. Len(twice) :
              twice[k] = IF pos + done < k /\ k <= pos + done + n THEN next[k - (pos + done)]
                         ELSE IF k <= Len(once) THEN once[k] ELSE Zero
    <3>1. pos + done \in Nat
      OBVIOUS
    <3> HIDE DEF twice
    <3> DEFINE from == pos + done
    <3>2. from \in Nat
      BY <3>1
    <3> HIDE DEF from
    <3>3. LET end == from + Len(next)
          IN  /\ Written(once, from, next) \in Seq(Byte)
              /\ Len(Written(once, from, next)) = IF end > Len(once) THEN end ELSE Len(once)
              /\ \A k \in 1 .. Len(Written(once, from, next)) :
                    Written(once, from, next)[k] =
                       IF from < k /\ k <= end THEN next[k - from]
                       ELSE IF k <= Len(once) THEN once[k] ELSE Zero
      <4>1. once \in Seq(Byte) /\ next \in Seq(Byte) /\ next # << >>
        BY <1>1, <2>2
      <4> QED BY ONLY <3>2, <4>1, WrittenBytes
    <3> QED BY <1>1, <3>3 DEF from, twice
  <2>4. /\ atonce \in Seq(Byte)
        /\ Len(atonce) = IF pos + (done + n) > Len(bytes) THEN pos + (done + n) ELSE Len(bytes)
        /\ \A k \in 1 .. Len(atonce) :
              atonce[k] = IF pos < k /\ k <= pos + (done + n) THEN whole[k - pos]
                          ELSE IF k <= Len(bytes) THEN bytes[k] ELSE Zero
    BY <1>2, WrittenBytes
  <2> HIDE DEF twice, atonce
  <2>5. Len(bytes) \in Nat /\ Len(once) \in Nat /\ Len(twice) \in Nat /\ Len(atonce) \in Nat
    BY <2>2, <2>3, <2>4, LenProperties
  <2>6. Len(twice) = Len(atonce)
    BY <2>2, <2>3, <2>4, <2>5
  <2>7. ASSUME NEW k \in 1 .. Len(twice) PROVE twice[k] = atonce[k]
    <3>1. CASE pos + done < k /\ k <= pos + done + n
      <4>1. k - (pos + done) \in 1 .. n /\ done + (k - (pos + done)) = k - pos
            /\ k - pos \in 1 .. done + n
        BY <2>5, <3>1
      <4>2. next[k - (pos + done)] = data[k - pos] /\ whole[k - pos] = data[k - pos]
        BY <1>1, <1>2, <4>1
      <4>3. twice[k] = next[k - (pos + done)]
        BY <2>3, <3>1
      <4>4. pos < k /\ k <= pos + (done + n)
        BY <2>5, <3>1
      <4>5. atonce[k] = whole[k - pos]
        BY <2>4, <2>6, <4>4
      <4> QED BY <4>2, <4>3, <4>5
    <3>2. CASE pos < k /\ k <= pos + done
      <4>1. k - pos \in 1 .. done /\ k - pos \in 1 .. done + n /\ k <= Len(once) /\ k \in 1 .. Len(once)
            /\ k <= pos + (done + n) /\ ~(pos + done < k)
        BY <2>2, <2>5, <3>2
      <4>2. first[k - pos] = data[k - pos] /\ whole[k - pos] = data[k - pos]
        BY <1>2, <2>1, <4>1
      <4>3. twice[k] = once[k]
        BY <2>3, <4>1
      <4>4. once[k] = first[k - pos]
        BY <2>2, <3>2, <4>1
      <4>5. atonce[k] = whole[k - pos]
        BY <2>4, <2>6, <3>2, <4>1
      <4> QED BY <4>2, <4>3, <4>4, <4>5
    <3>3. CASE ~(pos < k /\ k <= pos + done + n)
      <4>1. ~(pos + done < k /\ k <= pos + done + n) /\ ~(pos < k /\ k <= pos + done)
            /\ ~(pos < k /\ k <= pos + (done + n))
        BY <2>5, <3>3
      <4>2. atonce[k] = IF k <= Len(bytes) THEN bytes[k] ELSE Zero
        BY <2>4, <2>6, <4>1
      <4>3. twice[k] = IF k <= Len(once) THEN once[k] ELSE Zero
        BY <2>3, <4>1
      <4>4. k <= Len(once) => once[k] = IF k <= Len(bytes) THEN bytes[k] ELSE Zero
        BY <2>2, <2>5, <4>1
      <4>5. k <= Len(bytes) => k <= Len(once)
        BY <2>2, <2>5
      <4> QED BY <4>2, <4>3, <4>4, <4>5
    <3> QED BY <2>5, <3>1, <3>2, <3>3
  <2>8. twice = atonce
    BY <2>3, <2>4, <2>6, <2>7, SeqEqual
  <2> QED BY <2>8 DEF next, whole, first, once, twice, atonce
<1> QED BY <1>3, <1>4

----------------------------------------------------------------------------
(***************************************************************************)
(* Each step keeps the invariant.                                          *)
(***************************************************************************)

LEMMA Constants ==
    /\ << >> \in Seq(Byte) /\ Len(<< >>) = 0
    /\ Data \cup {<< >>} \subseteq Seq(Byte)
    /\ Contents \subseteq Seq(Byte)
    /\ Positions \subseteq Nat /\ Sizes \subseteq Nat /\ MaxLength \in Nat
<1>1. << >> \in Seq(Byte) /\ Len(<< >>) = 0
  OBVIOUS
<1>2. Data \subseteq Seq(Byte) /\ Contents \subseteq Seq(Byte)
  BY FileAssumption
<1>3. Positions \subseteq Nat /\ Sizes \subseteq Nat /\ MaxLength \in Nat
  BY FileAssumption
<1>4. Data \cup {<< >>} \subseteq Seq(Byte)
  BY <1>1, <1>2
<1> QED BY <1>1, <1>2, <1>3, <1>4

LEMMA StutterOK ==
    ASSUME IInv, UNCHANGED vars
    PROVE  IInv'
BY DEF vars, disk, IInv, TypeOK, Places, Resources, Amounts, Seeks, BytesSoFar, Pos, Handle

LEMMA LengthsAreNat ==
    ASSUME TypeOK
    PROVE  /\ Len(content) \in Nat /\ Len(out) \in Nat /\ Len(call.data) \in Nat
           /\ call.data \in Seq(Byte)
<1>1. call.data \in Data \cup {<< >>}
  BY DEF TypeOK, Calls
<1>2. call.data \in Seq(Byte)
  BY <1>1, Constants
<1> QED BY <1>2, LenProperties DEF TypeOK

\* The fields of a call that only few steps change.
Alike(c, d) ==
    /\ c.op = d.op /\ c.named = d.named /\ c.allocates = d.allocates /\ c.data = d.data
    /\ c.done = d.done /\ c.start = d.start /\ c.before = d.before

LEMMA DoneIs ==
    ASSUME call \in Calls, NEW done \in Nat, call' = [call EXCEPT !.done = done]
    PROVE  /\ call' \in Calls /\ call'.done = done
           /\ call'.op = call.op /\ call'.named = call.named /\ call'.allocates = call.allocates
           /\ call'.size = call.size /\ call'.data = call.data /\ call'.start = call.start
           /\ call'.before = call.before /\ call'.strayed = call.strayed
           /\ call'.prev_pos = call.prev_pos
BY DEF Calls

LEMMA MoveIsWellTyped ==
    ASSUME TypeOK, NEW pos \in Nat, MoveTo(pos)
    PROVE  /\ files' \in [{"caller", "named"} -> Cut_File]
           /\ files'[Handle].pos = pos
           /\ files'["caller"].open = files["caller"].open
           /\ files'["named"].open = files["named"].open
           /\ call.named => files'["caller"] = files["caller"]
BY DEF MoveTo, TypeOK, Handle, Cut_File

LEMMA NoCallIsCall ==
    /\ NoCall \in Calls
    /\ NoCall.op = "none" /\ NoCall.named = FALSE /\ NoCall.allocates = FALSE
    /\ NoCall.size = 0 /\ NoCall.done = 0
BY Constants DEF NoCall, NewCall, Calls

LEMMA InitOK == Init => IInv
<1> SUFFICES ASSUME Init PROVE IInv
  OBVIOUS
<1>1. content \in Seq(Byte)
  BY Constants DEF Init
<1>2. Closed \in Cut_File /\ Closed.open = FALSE
  BY DEF Closed, Cut_File
<1>3. files \in [{"caller", "named"} -> Cut_File] /\ files["named"].open = FALSE
  BY <1>2 DEF Init
<1>4. TypeOK
  <2>1. out = << >> /\ out \in Seq(Byte) /\ Len(out) <= call.size
    BY Constants, NoCallIsCall DEF Init
  <2> QED BY <1>1, <1>3, <2>1, NoCallIsCall DEF Init, TypeOK
<1>5. Places /\ Resources
  BY <1>3, NoCallIsCall DEF Init, Places, Resources
<1>6. Amounts /\ Seeks /\ BytesSoFar
  BY Constants, NoCallIsCall DEF Init, Amounts, Seeks, BytesSoFar
<1> QED BY <1>4, <1>5, <1>6 DEF IInv

\* A call that is over in one step leaves nothing to remember.
LEMMA AnswerOK ==
    ASSUME IInv, NEW yes \in BOOLEAN, Answer(yes), pc = "ready",
           files' \in [{"caller", "named"} -> Cut_File], files'["named"].open = FALSE,
           exists' \in BOOLEAN, content' \in Seq(Byte)
    PROVE  IInv'
<1>1. /\ call' = NoCall /\ out' = << >> /\ held' = FALSE /\ ok' = yes /\ touched' = FALSE
      /\ system' = system /\ pc' = "ready"
  BY DEF Answer
<1>2. TypeOK'
  <2>1. out' \in Seq(Byte) /\ Len(out') <= call'.size
    BY <1>1, Constants, NoCallIsCall
  <2> QED BY <1>1, <2>1, NoCallIsCall DEF IInv, TypeOK
<1>3. Places' /\ Resources'
  BY <1>1, NoCallIsCall DEF Places, Resources
<1>4. Amounts' /\ Seeks' /\ BytesSoFar'
  BY <1>1, Constants, NoCallIsCall DEF Amounts, Seeks, BytesSoFar
<1> QED BY <1>2, <1>3, <1>4 DEF IInv

LEMMA OpenAsIsWellTyped ==
    ASSUME TypeOK, NEW h \in {"caller", "named"}, NEW w \in BOOLEAN, NEW k \in BOOLEAN, OpenAs(h, w, k)
    PROVE  /\ files' \in [{"caller", "named"} -> Cut_File]
           /\ files'[h] = [open |-> TRUE, writable |-> w, pos |-> 0]
           /\ \A g \in {"caller", "named"} \ {h} : files'[g] = files[g]
           /\ exists' \in BOOLEAN
           /\ content' \in Seq(Byte)
<1>1. [open |-> TRUE, writable |-> w, pos |-> 0] \in Cut_File
  BY DEF Cut_File
<1>2. files' = [files EXCEPT ![h] = [open |-> TRUE, writable |-> w, pos |-> 0]] /\ exists' = TRUE
      /\ (content' = << >> \/ content' = content)
  BY DEF OpenAs
<1>3. << >> \in Seq(Byte)
  OBVIOUS
<1> QED BY <1>1, <1>2, <1>3 DEF TypeOK

LEMMA OpenOK ==
    ASSUME IInv, NEW w \in BOOLEAN, NEW k \in BOOLEAN, Open(w, k)
    PROVE  IInv'
<1>1. TypeOK /\ pc = "ready" /\ files["named"].open = FALSE
  BY DEF IInv, Open, Resources, TypeOK, Cut_File
<1>2. CASE OpenAs("caller", w, k) /\ Answer(TRUE)
  <2>1. /\ files' \in [{"caller", "named"} -> Cut_File] /\ files'["named"] = files["named"]
        /\ exists' \in BOOLEAN /\ content' \in Seq(Byte)
    BY <1>1, <1>2, OpenAsIsWellTyped
  <2> QED BY <1>1, <1>2, <2>1, AnswerOK
<1>3. CASE Answer(FALSE) /\ UNCHANGED <<disk, files>>
  BY <1>1, <1>3, AnswerOK DEF TypeOK, disk
<1> QED BY <1>2, <1>3 DEF Open

LEMMA CloseOK ==
    ASSUME IInv, Close
    PROVE  IInv'
<1>1. TypeOK /\ pc = "ready" /\ files["named"].open = FALSE
  BY DEF IInv, Close, Resources, TypeOK, Cut_File
<1>2. Closed \in Cut_File
  BY DEF Closed, Cut_File
<1>3. files' \in [{"caller", "named"} -> Cut_File] /\ files'["named"] = files["named"]
  BY <1>1, <1>2 DEF Close, TypeOK
<1> QED BY <1>1, <1>3, AnswerOK DEF Close, TypeOK, disk

LEMMA SetPositionOK ==
    ASSUME IInv, NEW position \in Positions, SetPosition(position)
    PROVE  IInv'
<1>1. TypeOK /\ pc = "ready" /\ files["named"].open = FALSE /\ position \in Nat
  BY Constants DEF IInv, SetPosition, Resources, TypeOK, Cut_File
<1>2. files' \in [{"caller", "named"} -> Cut_File] /\ files'["named"] = files["named"]
  BY ZenonT(40), <1>1 DEF SetPosition, TypeOK, Cut_File
<1>3. PICK yes \in BOOLEAN : Answer(yes)
  BY DEF SetPosition
<1> QED BY <1>1, <1>2, <1>3, AnswerOK DEF SetPosition, TypeOK, disk

\* How the procedures use Begin.
LEMMA BeginOK ==
    ASSUME IInv, NEW op \in {"size", "read", "entire", "write"}, NEW named \in BOOLEAN,
           NEW allocates \in BOOLEAN, NEW size \in Nat, NEW data \in Data \cup {<< >>},
           Begin(op, named, allocates, size, data),
           op = "read" => ~named,
           allocates => op \in {"read", "entire"}
    PROVE  IInv'
<1> DEFINE start  == IF named THEN 0 ELSE files["caller"].pos
           before == IF op = "write" THEN content ELSE << >>
<1>1. TypeOK /\ << >> \in Seq(Byte) /\ Len(<< >>) = 0
  BY Constants DEF IInv
<1>2. start \in Nat /\ before \in Seq(Byte)
  BY <1>1 DEF TypeOK, Cut_File
<1>3. data \in Seq(Byte) /\ Len(data) \in Nat
  BY Constants, LenProperties
<1>4. call' = NewCall(op, named, allocates, size, data, start, before)
  BY DEF Begin
<1> HIDE DEF before
<1>5. call' \in Calls
  BY <1>2, <1>4 DEF NewCall, Calls
<1>6. /\ call'.op = op /\ call'.named = named /\ call'.allocates = allocates
      /\ call'.size = size /\ call'.data = data /\ call'.done = 0
      /\ call'.start = start /\ call'.before = before /\ call'.strayed = FALSE
  BY <1>4 DEF NewCall
<1>7. /\ pc' = IF named THEN "open" ELSE FirstStep(op)
      /\ out' = << >> /\ held' = (op = "read" /\ allocates) /\ ok' = FALSE /\ touched' = FALSE
      /\ system' = system /\ content' = content /\ exists' = exists /\ files' = files
      /\ pc = "ready"
  BY DEF Begin, disk
<1>8. TypeOK'
  <2>1. out' \in Seq(Byte) /\ Len(out') <= call'.size
    BY <1>1, <1>6, <1>7
  <2>2. pc' \in {"open", "size", "read", "write"} /\ held' \in BOOLEAN
    BY <1>7 DEF FirstStep
  <2> QED BY <1>1, <1>5, <1>7, <2>1, <2>2 DEF TypeOK
<1>9. Places'
  BY <1>6, <1>7 DEF Places, FirstStep
<1>10. Resources'
  BY <1>6, <1>7 DEF IInv, Resources, FirstStep
<1>11. Amounts'
  BY <1>1, <1>3, <1>6, <1>7 DEF Amounts, FirstStep
<1>12. Seeks'
  <2>1. ~named => Pos' = start
    BY <1>6, <1>7 DEF Pos, Handle
  <2>2. start + 0 = start /\ (named => start = 0)
    BY <1>2
  <2> HIDE DEF start
  <2> QED BY <1>6, <1>7, <2>1, <2>2 DEF Seeks, FirstStep
<1>13. BytesSoFar'
  <2>1. /\ call'.op = op /\ call'.done = 0 /\ call'.start = start /\ call'.before = before
        /\ call'.data = data /\ out' = << >> /\ content' = content /\ ok' = FALSE
        /\ pc' \in {"open", "size", "read", "write"} /\ (pc' = "read" => op = "read")
    BY <1>6, <1>7 DEF FirstStep
  <2>2. SubSeq(content, start + 1, start + 0) = << >> /\ SubSeq(data, 1, 0) = << >>
    BY <1>2, SubSeqEmpty
  <2>3. op = "write" => content = Written(before, start, << >>)
    BY WrittenNothing DEF before
  <2> HIDE DEF start
  <2> QED BY <2>1, <2>2, <2>3 DEF BytesSoFar
<1> QED BY <1>8, <1>9, <1>10, <1>11, <1>12, <1>13 DEF IInv

LEMMA NamedOpenAs ==
    ASSUME OpenAs("named", call.op = "write", call.op # "write")
    PROVE  OpenAs("named", TRUE, FALSE) \/ OpenAs("named", FALSE, TRUE)
<1>1. CASE call.op = "write"
  <2>1. (call.op = "write") = TRUE /\ (call.op # "write") = FALSE
    BY <1>1
  <2> QED BY <2>1
<1>2. CASE call.op # "write"
  <2>1. (call.op = "write") = FALSE /\ (call.op # "write") = TRUE
    BY <1>2
  <2> QED BY <2>1
<1> QED BY <1>1, <1>2

LEMMA NamedOpenOK ==
    ASSUME IInv, NamedOpen
    PROVE  IInv'
<1>1. TypeOK /\ pc = "open" /\ call.named
  BY DEF IInv, NamedOpen, Places
<1>2. CASE OpenAs("named", call.op = "write", call.op # "write")
           /\ call' = [call EXCEPT !.before = IF call.op = "write" THEN content' ELSE << >>]
           /\ pc' = FirstStep(call.op)
  <2> DEFINE before == IF call.op = "write" THEN content' ELSE << >>
  <2>1. /\ files' \in [{"caller", "named"} -> Cut_File]
        /\ files'["named"].open = TRUE /\ files'["named"].pos = 0
        /\ exists' \in BOOLEAN /\ content' \in Seq(Byte)
    <3>1. OpenAs("named", TRUE, FALSE) \/ OpenAs("named", FALSE, TRUE)
      <4>1. OpenAs("named", call.op = "write", call.op # "write")
        BY <1>2
      <4> QED BY <4>1, NamedOpenAs, Zenon
    <3>2. CASE OpenAs("named", TRUE, FALSE)
      <4>1. /\ files' \in [{"caller", "named"} -> Cut_File]
            /\ files'["named"] = [open |-> TRUE, writable |-> TRUE, pos |-> 0]
            /\ exists' \in BOOLEAN /\ content' \in Seq(Byte)
        BY <1>1, <3>2, OpenAsIsWellTyped
      <4> QED BY <4>1
    <3>3. CASE OpenAs("named", FALSE, TRUE)
      <4>1. /\ files' \in [{"caller", "named"} -> Cut_File]
            /\ files'["named"] = [open |-> TRUE, writable |-> FALSE, pos |-> 0]
            /\ exists' \in BOOLEAN /\ content' \in Seq(Byte)
        BY <1>1, <3>3, OpenAsIsWellTyped
      <4> QED BY <4>1
    <3> QED BY <3>1, <3>2, <3>3
  <2>2. before \in Seq(Byte)
    BY <2>1, Constants
  <2>3. call' = [call EXCEPT !.before = before]
    BY <1>2
  <2> HIDE DEF before
  <2>4. call' \in Calls
    BY <1>1, <2>2, <2>3 DEF TypeOK, Calls
  <2>5. /\ call'.op = call.op /\ call'.named = call.named /\ call'.allocates = call.allocates
        /\ call'.size = call.size /\ call'.data = call.data /\ call'.done = call.done
        /\ call'.start = call.start /\ call'.strayed = call.strayed /\ call'.before = before
    BY <1>1, <2>3 DEF TypeOK, Calls
  <2>6. pc' = FirstStep(call.op) /\ call.op \in {"size", "entire", "write"}
    BY <1>1, <1>2 DEF IInv, TypeOK, Calls, Places
  <2>7. UNCHANGED <<system, out, held, ok, touched>>
    BY DEF NamedOpen
  <2>8. TypeOK'
    BY <1>1, <2>1, <2>4, <2>5, <2>6, <2>7 DEF TypeOK, FirstStep
  <2>9. Places'
    BY <1>1, <2>5, <2>6 DEF IInv, Places, FirstStep
  <2>10. Resources'
    BY <1>1, <2>1, <2>5, <2>6, <2>7 DEF IInv, Resources, FirstStep
  <2>11. Amounts'
    BY <1>1, <2>5, <2>6, <2>7 DEF IInv, Amounts, Resources, FirstStep
  <2>12. call.done = 0 /\ call.start = 0 /\ ~call.strayed /\ ~ok
    BY <1>1 DEF IInv, Amounts, Seeks, Resources
  <2>13. Seeks'
    <3>1. Pos' = 0 /\ 0 + 0 = 0
      BY <1>1, <2>1, <2>5 DEF Pos, Handle
    <3> QED BY <2>5, <2>6, <2>12, <3>1 DEF Seeks, FirstStep
  <2>14. BytesSoFar'
    <3>1. SubSeq(call.data, 1, 0) = << >>
      BY SubSeqEmpty
    <3>2. call.op = "write" => content' = Written(before, 0, << >>)
      BY WrittenNothing DEF before
    <3> QED BY <2>5, <2>6, <2>7, <2>12, <3>1, <3>2 DEF BytesSoFar, FirstStep
  <2> QED BY <2>8, <2>9, <2>10, <2>11, <2>13, <2>14 DEF IInv
<1>3. CASE pc' = "ready" /\ UNCHANGED <<disk, files, call>>
  BY <1>1, <1>3 DEF NamedOpen, disk, IInv, TypeOK, Places, Resources, Amounts, Seeks, BytesSoFar, Handle, Pos, Calls, Cut_File
<1> QED BY <1>2, <1>3 DEF NamedOpen

LEMMA NamedCloseOK ==
    ASSUME IInv, NamedClose
    PROVE  IInv'
<1> USE DEF NamedClose, disk
<1>1. TypeOK'
  BY DEF IInv, TypeOK, Closed, Cut_File
<1>2. Places'
  BY DEF IInv, Places
<1>3. Resources'
  BY DEF IInv, TypeOK, Calls, Places, Resources, Closed
<1>4. Amounts'
  BY DEF IInv, Amounts
<1>5. Seeks'
  BY DEF IInv, TypeOK, Places, Seeks, Pos, Handle
<1>6. BytesSoFar'
  BY DEF IInv, Places, BytesSoFar
<1> QED BY <1>1, <1>2, <1>3, <1>4, <1>5, <1>6 DEF IInv

----------------------------------------------------------------------------
\* The calls that know the size: what they know besides it is known.
LEMMA SizeIsOK ==
    ASSUME IInv, NEW n \in Nat, NEW known \in Calls, NEW strayed \in BOOLEAN,
           Alike(known, call), known.strayed = strayed, SizeIs(n, known),
           pc \in {"size", "size_back"},
           UNCHANGED <<system, disk, out, touched>>,
           files' \in [{"caller", "named"} -> Cut_File],
           files'["named"].open = files["named"].open,
           ~touched => n = Len(content),
           ~strayed => files'[Handle].pos = call.start,
           (strayed /\ ~touched) => files'[Handle].pos = n
    PROVE  IInv'
<1>1. /\ TypeOK /\ call.op \in {"size", "entire"} /\ call.done = 0
      /\ Len(out) = 0 /\ out \in Seq(Byte) /\ ok = FALSE /\ held = FALSE
  BY DEF IInv, TypeOK, Calls, Places, Amounts, Resources
<1>2. call.named \in BOOLEAN /\ call.allocates \in BOOLEAN
  BY <1>1 DEF TypeOK, Calls
<1>5. call' \in Calls /\ call'.size = n
  BY DEF SizeIs, Calls
<1>6. Alike(call', call) /\ call'.strayed = strayed
  BY DEF SizeIs, Calls, Alike
<1> USE DEF Alike
<1>7. Handle' = Handle /\ Pos' = files'[Handle].pos
  BY <1>6 DEF Handle, Pos
<1>8. /\ content' = content /\ exists' = exists /\ system' = system /\ out' = out /\ touched' = touched
  BY DEF disk
<1>9. \/ /\ call.op = "size" /\ ok' = TRUE /\ held' = held
         /\ pc' = IF call.named THEN "close" ELSE "ready"
      \/ /\ call.op = "entire" /\ ok' = ok /\ held' = call.allocates /\ pc' = "position"
  BY <1>1 DEF SizeIs, Finish
<1>10. TypeOK'
  <2>1. ok' \in BOOLEAN /\ held' \in BOOLEAN /\ pc' \in {"ready", "position", "close"}
    BY <1>1, <1>2, <1>9
  <2>2. Len(out) <= n
    BY <1>1
  <2> QED BY <1>1, <1>5, <1>8, <2>1, <2>2 DEF TypeOK
<1>11. Places'
  BY <1>6, <1>9 DEF IInv, Places
<1>12. Resources'
  <2>1. files["named"].open = call.named
    BY <1>1, <1>2 DEF IInv, Resources
  <2>2. call'.named = call.named /\ call'.allocates = call.allocates
    BY <1>6
  <2>3. call.op = "size" => call.allocates = FALSE
    BY <1>2 DEF IInv, Places
  <2>4. CASE call.op = "size" /\ ok' = TRUE /\ held' = held
             /\ pc' = IF call.named THEN "close" ELSE "ready"
    BY <1>1, <1>2, <2>1, <2>2, <2>3, <2>4 DEF Resources
  <2>5. CASE call.op = "entire" /\ ok' = ok /\ held' = call.allocates /\ pc' = "position"
    BY <1>1, <1>2, <2>1, <2>2, <2>5 DEF Resources
  <2> QED BY <1>9, <2>4, <2>5
<1>13. Amounts'
  BY <1>1, <1>5, <1>6, <1>8, <1>9 DEF IInv, Amounts
<1>14. Seeks'
  BY <1>1, <1>5, <1>6, <1>7, <1>8, <1>9 DEF Seeks
<1>15. BytesSoFar'
  <2>1. call.op = "size" => ok'
    BY <1>9
  <2>2. ~touched' => call'.size = Len(content')
    BY <1>5, <1>8
  <2> QED BY <1>1, <1>6, <1>9, <2>1, <2>2 DEF BytesSoFar
<1> QED BY <1>10, <1>11, <1>12, <1>13, <1>14, <1>15 DEF IInv

LEMMA SizeWindowsOK ==
    ASSUME IInv, SizeWindows
    PROVE  IInv'
<1>1. TypeOK /\ pc = "size" /\ call.strayed = FALSE /\ Pos = call.start
  BY DEF IInv, SizeWindows, Seeks, TypeOK, Calls
<1>2. call \in Calls /\ Len(content) \in Nat
  BY <1>1, LengthsAreNat DEF TypeOK
<1>3. SizeIs(Len(content), call) /\ UNCHANGED <<system, disk, files, out, touched>>
  BY DEF SizeWindows
<1>4. files' \in [{"caller", "named"} -> Cut_File] /\ files'[Handle].pos = call.start
  BY <1>1, <1>3 DEF TypeOK, Pos
<1> QED BY <1>1, <1>2, <1>3, <1>4, SizeIsOK DEF Alike

LEMMA SizeBackOK ==
    ASSUME IInv, SizeBack
    PROVE  IInv'
<1>1. /\ TypeOK /\ pc = "size_back" /\ call.strayed = FALSE
      /\ call.curr_pos = call.start /\ Pos = call.size
      /\ ~touched => call.size = Len(content)
  BY DEF IInv, SizeBack, Seeks, Places, BytesSoFar, TypeOK, Calls
<1>2. call \in Calls /\ call.size \in Nat /\ call.curr_pos \in Nat
  BY <1>1 DEF TypeOK, Calls
<1>3. UNCHANGED <<system, disk, out, touched>>
  BY DEF SizeBack
<1>4. CASE MoveTo(call.curr_pos) /\ SizeIs(call.size, call)
  <2>1. /\ files' \in [{"caller", "named"} -> Cut_File] /\ files'[Handle].pos = call.start
        /\ files'["named"].open = files["named"].open
    BY <1>1, <1>2, <1>4, MoveIsWellTyped
  <2> QED BY <1>1, <1>2, <1>3, <1>4, <2>1, SizeIsOK DEF Alike
<1>5. CASE UNCHANGED files /\ SizeIs(call.size, [call EXCEPT !.strayed = TRUE])
  <2> DEFINE known == [call EXCEPT !.strayed = TRUE]
  <2>1. known \in Calls /\ Alike(known, call) /\ known.strayed = TRUE
    BY <1>2 DEF Calls, Alike
  <2>2. SizeIs(call.size, known)
    BY <1>5
  <2> HIDE DEF known
  <2>3. /\ files' \in [{"caller", "named"} -> Cut_File] /\ files'[Handle].pos = call.size
        /\ files'["named"].open = files["named"].open
    BY <1>1, <1>5 DEF TypeOK, Pos
  <2> QED BY <1>1, <1>2, <1>3, <2>1, <2>2, <2>3, SizeIsOK
<1> QED BY <1>4, <1>5 DEF SizeBack

LEMMA SizeCurrentOK ==
    ASSUME IInv, SizeCurrent
    PROVE  IInv'
<1> USE DEF SizeCurrent, disk, Calls
<1>1. Pos \in Nat
  BY DEF IInv, TypeOK, Cut_File, Pos, Handle
<1>2. TypeOK'
  BY <1>1 DEF IInv, TypeOK
<1>3. Places'
  BY DEF IInv, TypeOK, Places
<1>4. Resources'
  BY DEF IInv, TypeOK, Resources
<1>5. Amounts'
  BY DEF IInv, TypeOK, Amounts
<1>6. Seeks'
  BY DEF IInv, TypeOK, Seeks, Pos, Handle
<1>7. BytesSoFar'
  BY DEF IInv, TypeOK, Places, Resources, BytesSoFar
<1> QED BY <1>2, <1>3, <1>4, <1>5, <1>6, <1>7 DEF IInv

LEMMA SizeEndOK ==
    ASSUME IInv, SizeEnd
    PROVE  IInv'
<1>1. TypeOK /\ pc = "size_end" /\ Len(content) \in Nat /\ call \in Calls
  BY LengthsAreNat DEF IInv, SizeEnd, TypeOK
<1>2. MoveTo(Len(content)) /\ call' = [call EXCEPT !.size = Len(content)]
      /\ pc' = "size_back" /\ UNCHANGED <<system, disk, out, held, ok, touched>>
  BY DEF SizeEnd
<1>3. /\ call' \in Calls /\ Alike(call', call) /\ call'.size = Len(content)
      /\ call'.strayed = call.strayed /\ call'.curr_pos = call.curr_pos
  BY <1>1, <1>2 DEF Calls, Alike
<1> USE DEF Alike
<1>4. /\ files' \in [{"caller", "named"} -> Cut_File] /\ files'[Handle].pos = Len(content)
      /\ files'["named"].open = files["named"].open
  BY <1>1, <1>2, MoveIsWellTyped
<1>5. Pos' = Len(content) /\ content' = content
  BY <1>2, <1>3, <1>4 DEF Pos, Handle, disk
<1>6. Len(out) = 0 /\ call.op \in {"size", "entire"} /\ call.done = 0 /\ ~ok /\ ~call.strayed
      /\ call.curr_pos = call.start
  BY <1>1 DEF IInv, Amounts, Places, Resources, Seeks
<1>7. TypeOK'
  BY <1>1, <1>2, <1>3, <1>4, <1>6 DEF TypeOK, disk
<1>8. Places'
  BY <1>1, <1>2, <1>3 DEF IInv, Places
<1>9. Resources'
  BY <1>1, <1>2, <1>3, <1>4 DEF IInv, Resources
<1>10. Amounts'
  BY <1>1, <1>2, <1>3, <1>6 DEF Amounts
<1>11. Seeks'
  BY <1>2, <1>3, <1>5, <1>6 DEF Seeks
<1>12. BytesSoFar'
  BY <1>2, <1>3, <1>5, <1>6 DEF BytesSoFar
<1> QED BY <1>7, <1>8, <1>9, <1>10, <1>11, <1>12 DEF IInv

\* A call that fails before it has read anything.
LEMMA FailOK ==
    ASSUME IInv, Fail, pc \in {"size", "size_end", "position"}
    PROVE  IInv'
<1>1. /\ ok' = FALSE /\ pc' = (IF call.named THEN "close" ELSE "ready") /\ held' = FALSE
      /\ UNCHANGED <<system, exists, content, files, call, out, touched>>
  BY DEF Fail, Finish, IInv, TypeOK, disk
<1>2. TypeOK'
  BY <1>1 DEF IInv, TypeOK
<1>3. Places'
  BY <1>1 DEF IInv, Places
<1>4. Resources'
  BY <1>1 DEF IInv, TypeOK, Calls, Resources
<1>5. Amounts'
  BY <1>1 DEF IInv, Amounts
<1>6. Seeks'
  BY <1>1 DEF IInv, Places, Seeks, Pos, Handle
<1>7. BytesSoFar'
  BY <1>1 DEF IInv, Places, BytesSoFar
<1> QED BY <1>2, <1>3, <1>4, <1>5, <1>6, <1>7 DEF IInv

----------------------------------------------------------------------------
\* Reading.

LEMMA PositionKnownOK ==
    ASSUME IInv, PositionKnown
    PROVE  IInv'
<1>1. /\ TypeOK /\ call \in Calls /\ pc = "position" /\ call.op = "entire" /\ call.done = 0
      /\ Len(out) = 0 /\ out \in Seq(Byte) /\ ~ok
  BY DEF IInv, PositionKnown, TypeOK, Places, Amounts, Resources
<1>2. Pos \in Nat
  BY <1>1 DEF TypeOK, Cut_File, Pos, Handle
<1>3. /\ call' = [call EXCEPT !.prev_pos = Pos] /\ pc' = "read"
      /\ UNCHANGED <<system, exists, content, files, out, held, ok, touched>>
  BY DEF PositionKnown, disk
<1>4. /\ call' \in Calls /\ Alike(call', call) /\ call'.size = call.size
      /\ call'.strayed = call.strayed /\ call'.prev_pos = Pos
  BY <1>1, <1>2, <1>3 DEF Calls, Alike
<1> USE DEF Alike
<1>5. Pos' = Pos
  BY <1>3, <1>4 DEF Pos, Handle
<1>6. TypeOK'
  BY <1>1, <1>3, <1>4 DEF TypeOK
<1>7. Places'
  BY <1>1, <1>3, <1>4 DEF IInv, Places
<1>8. Resources'
  BY <1>1, <1>3, <1>4 DEF IInv, Resources
<1>9. Amounts'
  BY <1>1, <1>3, <1>4 DEF IInv, Amounts
<1>10. Seeks'
  <2>1. /\ ~call.strayed => Pos = call.start
        /\ (call.strayed /\ ~touched) => Pos = call.size
    BY <1>1 DEF IInv, Seeks
  <2>2. Pos' = call'.prev_pos + call'.done
    BY <1>1, <1>2, <1>4, <1>5
  <2> QED BY <1>1, <1>3, <1>4, <1>5, <2>1, <2>2 DEF Seeks
<1>11. BytesSoFar'
  <2>1. out = << >>
    BY <1>1, EmptySeq
  <2>2. SubSeq(content, Pos + 1, Pos + 0) = << >>
    BY <1>2, SubSeqEmpty
  <2>3. ~touched => call.size = Len(content)
    BY <1>1 DEF IInv, BytesSoFar
  <2> QED BY <1>1, <1>3, <1>4, <2>1, <2>2, <2>3 DEF BytesSoFar
<1> QED BY <1>6, <1>7, <1>8, <1>9, <1>10, <1>11 DEF IInv

\* Two pieces of the file that follow each other are one.
LEMMA ReadPieces ==
    ASSUME NEW bytes \in Seq(Byte), NEW from \in Nat, NEW done \in Nat, NEW n \in Nat \ {0},
           from + done + n <= Len(bytes)
    PROVE  SubSeq(bytes, from + 1, from + done) \o SubSeq(bytes, from + done + 1, from + done + n)
              = SubSeq(bytes, from + 1, from + (done + n))
<1> DEFINE m == from + 1
           k == from + done
           l == from + done + n
<1>1. Len(bytes) \in Nat
  BY LenProperties
<1>2. m \in 1 .. Len(bytes) + 1 /\ k \in m - 1 .. Len(bytes) /\ l \in k .. Len(bytes)
  BY <1>1
<1>3. l = from + (done + n)
  OBVIOUS
<1> HIDE DEF m, k, l
<1>4. SubSeq(bytes, m, k) \o SubSeq(bytes, k + 1, l) = SubSeq(bytes, m, l)
  BY <1>2, ConcatAdjacentSubSeq
<1> QED BY <1>3, <1>4 DEF m, k, l

LEMMA ReadOK ==
    ASSUME IInv, NEW n \in 1 .. MaxLength, Read(n)
    PROVE  IInv'
<1> DEFINE piece == SubSeq(content, Pos + 1, Pos + n)
           from  == IF call.op = "read" THEN call.start ELSE call.prev_pos
<1>1. /\ TypeOK /\ call \in Calls /\ pc = "read" /\ call.op \in {"read", "entire"}
      /\ content \in Seq(Byte) /\ out \in Seq(Byte) /\ n \in Nat \ {0}
  BY Constants DEF IInv, Read, TypeOK, Places
<1>2. /\ call.done < call.size /\ n <= call.size - call.done /\ Pos + n <= Len(content)
      /\ out' = out \o piece /\ call' = [call EXCEPT !.done = call.done + n] /\ MoveTo(Pos + n)
      /\ UNCHANGED <<system, exists, content, pc, held, ok, touched>>
  BY DEF Read, LeftToRead, Place, disk
<1>3. /\ call.done \in Nat /\ call.size \in Nat /\ Pos \in Nat /\ Len(content) \in Nat
      /\ from \in Nat /\ Len(out) = call.done
  <2>1. call.done \in Nat /\ call.size \in Nat /\ from \in Nat
    BY <1>1 DEF Calls
  <2>2. Pos \in Nat
    BY <1>1 DEF TypeOK, Cut_File, Pos, Handle
  <2>3. Len(out) = call.done
    BY <1>1 DEF IInv, Amounts
  <2> QED BY <1>1, <2>1, <2>2, <2>3, LengthsAreNat
<1>4. piece \in Seq(Byte) /\ Len(piece) = n
  BY ZenonT(40), <1>1, <1>2, <1>3, PieceFacts
<1>5. Pos = from + call.done
  BY <1>1 DEF IInv, Seeks
<1>6. /\ call' \in Calls /\ call'.done = call.done + n
      /\ call'.op = call.op /\ call'.named = call.named /\ call'.allocates = call.allocates
      /\ call'.size = call.size /\ call'.data = call.data /\ call'.start = call.start
      /\ call'.before = call.before /\ call'.strayed = call.strayed
      /\ call'.prev_pos = call.prev_pos
  <2>1. call.done + n \in Nat
    BY <1>1, <1>3
  <2> QED BY <1>1, <1>2, <2>1, DoneIs
<1> HIDE DEF piece, from
<1>7. out' \in Seq(Byte) /\ Len(out') = call.done + n
  BY ZenonT(40), <1>1, <1>2, <1>3, <1>4, ConcatProperties
<1>8. /\ files' \in [{"caller", "named"} -> Cut_File] /\ files'[Handle].pos = Pos + n
      /\ files'["named"].open = files["named"].open
  <2>1. Pos + n \in Nat
    BY <1>1, <1>3
  <2> QED BY <1>1, <1>2, <2>1, MoveIsWellTyped
<1>9. Pos' = Pos + n
  BY <1>6, <1>8 DEF Pos, Handle
<1>10. TypeOK'
  <2>1. Len(out') <= call'.size
    BY <1>1, <1>2, <1>3, <1>6, <1>7
  <2> QED BY <1>1, <1>2, <1>6, <1>7, <1>8, <2>1 DEF TypeOK
<1>11. Places'
  BY <1>1, <1>2, <1>6 DEF IInv, Places
<1>12. Resources'
  BY <1>1, <1>2, <1>6, <1>8 DEF IInv, Resources
<1>13. ok = FALSE
  BY <1>1 DEF IInv, Resources, TypeOK
<1>14. Amounts'
  <2>1. call.done + n <= call.size
    BY <1>1, <1>2, <1>3
  <2> QED BY <1>1, <1>2, <1>6, <1>7, <1>13, <2>1 DEF Amounts
<1>15. Seeks'
  <2>1. Pos' = from + (call.done + n)
    BY <1>3, <1>5, <1>9
  <2>2. call.op = "entire" =>
           /\ ~call.strayed => call.prev_pos = call.start
           /\ (call.strayed /\ ~touched) => call.prev_pos = call.size
    BY <1>1 DEF IInv, Seeks
  <2> QED BY <1>1, <1>2, <1>6, <2>1, <2>2 DEF Seeks, from
<1>16. BytesSoFar'
  <2>1. ~touched =>
           /\ out = SubSeq(content, from + 1, from + call.done)
           /\ call.op = "entire" => call.size = Len(content)
    BY <1>1 DEF IInv, BytesSoFar, from
  <2>2. from + call.done + n <= Len(content)
    BY <1>2, <1>5
  <2>3. SubSeq(content, from + 1, from + call.done)
           \o SubSeq(content, from + call.done + 1, from + call.done + n)
           = SubSeq(content, from + 1, from + (call.done + n))
    <3> DEFINE done == call.done
    <3>1. done \in Nat /\ from \in Nat /\ n \in Nat \ {0} /\ content \in Seq(Byte)
      BY <1>1, <1>3
    <3>2. from + done + n <= Len(content)
      BY <2>2
    <3>3. SUFFICES SubSeq(content, from + 1, from + done)
                      \o SubSeq(content, from + done + 1, from + done + n)
                      = SubSeq(content, from + 1, from + (done + n))
      OBVIOUS
    <3> HIDE DEF done
    <3> QED BY <3>1, <3>2, ReadPieces
  <2>4. piece = SubSeq(content, from + call.done + 1, from + call.done + n)
    BY <1>5 DEF piece
  <2>5. ~touched => out' = SubSeq(content, from + 1, from + (call.done + n))
    BY <1>2, <2>1, <2>3, <2>4
  <2>6. from + (call.done + n) <= Len(content)
    BY <1>1, <1>3, <2>2
  <2> QED BY <1>1, <1>2, <1>6, <1>13, <2>1, <2>5, <2>6 DEF BytesSoFar, from
<1> QED BY <1>10, <1>11, <1>12, <1>14, <1>15, <1>16 DEF IInv

LEMMA ReadEndOK ==
    ASSUME IInv, NEW yes \in BOOLEAN, ReadEnd(yes)
    PROVE  IInv'
<1>1. /\ TypeOK /\ call \in Calls /\ pc = "read" /\ call.op \in {"read", "entire"}
      /\ ok = FALSE /\ held = call.allocates /\ call.allocates \in BOOLEAN
  BY DEF IInv, ReadEnd, TypeOK, Calls, Places, Resources
<1>2. /\ yes = (call.done = call.size) /\ ok' = yes
      /\ UNCHANGED <<system, exists, content, files, call, out, touched>>
      /\ call.op = "entire" => pc' = "restore" /\ held' = held
      /\ call.op = "read" => pc' = "ready" /\ held' = (held /\ yes)
  BY <1>1 DEF ReadEnd, Finish, disk, IInv, Places
<1>3. TypeOK'
  BY <1>1, <1>2 DEF TypeOK
<1>4. Places'
  BY <1>1, <1>2 DEF IInv, Places
<1>5. Resources'
  <2>1. files'["named"].open = (call'.named /\ pc' \notin {"ready", "open"})
    BY <1>1, <1>2 DEF IInv, Resources, Places
  <2>2. held' = (call'.allocates /\ (\/ pc' \in {"position", "read", "restore"}
                                     \/ pc' \in {"ready", "close"} /\ ok'))
    BY <1>1, <1>2
  <2> QED BY <1>1, <1>2, <2>1, <2>2 DEF Resources
<1>6. Amounts'
  BY <1>1, <1>2 DEF IInv, Amounts
<1>7. Seeks'
  BY <1>1, <1>2 DEF IInv, Seeks, Pos, Handle
<1>8. BytesSoFar'
  BY <1>1, <1>2 DEF IInv, BytesSoFar
<1> QED BY <1>3, <1>4, <1>5, <1>6, <1>7, <1>8 DEF IInv

LEMMA RestoreOK ==
    ASSUME IInv, Restore
    PROVE  IInv'
<1>1. /\ TypeOK /\ call \in Calls /\ pc = "restore" /\ call.op = "entire"
      /\ held = call.allocates /\ call.allocates \in BOOLEAN /\ ok \in BOOLEAN
      /\ call.prev_pos \in Nat /\ call.named \in BOOLEAN /\ call.done \in Nat /\ call.size \in Nat
  BY DEF IInv, Restore, TypeOK, Calls, Places, Resources
<1>2. /\ ok' = ok /\ held' = (held /\ ok) /\ pc' = (IF call.named THEN "close" ELSE "ready")
      /\ UNCHANGED <<system, exists, content, out, touched>>
  BY DEF Restore, Finish, disk
<1>3. /\ call' \in Calls /\ Alike(call', call) /\ call'.size = call.size
      /\ call'.prev_pos = call.prev_pos
      /\ files' \in [{"caller", "named"} -> Cut_File]
      /\ files'["named"].open = files["named"].open
      /\ ~call'.strayed => files'[Handle].pos = call.prev_pos /\ ~call.strayed
  <2>1. CASE MoveTo(call.prev_pos) /\ UNCHANGED call
    BY <1>1, <2>1, MoveIsWellTyped DEF Alike
  <2>2. CASE UNCHANGED files /\ call' = [call EXCEPT !.strayed = TRUE]
    BY <1>1, <2>2 DEF TypeOK, Calls, Alike
  <2> QED BY <2>1, <2>2 DEF Restore
<1> USE DEF Alike
<1>4. TypeOK'
  <2>1. held' \in BOOLEAN /\ pc' \in {"close", "ready"}
    BY <1>1, <1>2
  <2> QED BY <1>1, <1>2, <1>3, <2>1 DEF TypeOK
<1>5. Places'
  BY <1>1, <1>2, <1>3 DEF IInv, Places
<1>6. Resources'
  <2>1. files'["named"].open = (call'.named /\ pc' \notin {"ready", "open"})
    BY <1>1, <1>2, <1>3 DEF IInv, Resources
  <2>2. held' = (call'.allocates /\ (\/ pc' \in {"position", "read", "restore"}
                                     \/ pc' \in {"ready", "close"} /\ ok'))
    BY <1>1, <1>2, <1>3
  <2>3. ok' => pc' \in {"ready", "close", "restore"}
    BY <1>2
  <2> QED BY <2>1, <2>2, <2>3 DEF Resources
<1>7. Amounts'
  BY <1>1, <1>2, <1>3 DEF IInv, Amounts
<1>8. Seeks'
  <2>1. ~call.strayed => call.prev_pos = call.start
    BY <1>1 DEF IInv, Seeks
  <2>2. Pos' = files'[Handle].pos
    BY <1>3 DEF Pos, Handle
  <2> QED BY <1>1, <1>2, <1>3, <2>1, <2>2 DEF Seeks
<1>9. BytesSoFar'
  <2>1. ~touched /\ ok => out = content
    <3> SUFFICES ASSUME ~touched, ok PROVE out = content
      OBVIOUS
    <3>1. /\ out = SubSeq(content, call.prev_pos + 1, call.prev_pos + call.done)
          /\ call.done = 0 \/ call.prev_pos + call.done <= Len(content)
          /\ call.size = Len(content) /\ call.done = call.size
      BY <1>1 DEF IInv, BytesSoFar, Amounts
    <3>2. content \in Seq(Byte)
      BY <1>1 DEF TypeOK
    <3>3. CASE call.done = 0
      <4>1. SubSeq(content, call.prev_pos + 1, call.prev_pos + call.done) = << >>
        BY <1>1, <3>3, SubSeqEmpty
      <4>2. content = << >>
        BY <3>1, <3>2, <3>3, EmptySeq
      <4> QED BY <3>1, <4>1, <4>2
    <3>4. CASE call.done # 0
      <4>1. call.prev_pos = 0 /\ call.prev_pos + 1 = 1 /\ call.prev_pos + call.done = Len(content)
        BY <1>1, <3>1, <3>4
      <4>2. SubSeq(content, 1, Len(content)) = content
        BY <3>2, SubSeqFull
      <4> QED BY <3>1, <4>1, <4>2
    <3> QED BY <3>3, <3>4
  <2>2. ~touched => call.size = Len(content)
    BY <1>1 DEF IInv, BytesSoFar
  <2> QED BY <1>1, <1>2, <1>3, <2>1, <2>2 DEF BytesSoFar
<1> QED BY <1>4, <1>5, <1>6, <1>7, <1>8, <1>9 DEF IInv

----------------------------------------------------------------------------
\* Writing, and another process.

LEMMA WriteOK ==
    ASSUME IInv, NEW n \in 1 .. MaxLength, Write(n)
    PROVE  IInv'
<1> DEFINE piece == SubSeq(call.data, call.done + 1, call.done + n)
<1>1. /\ TypeOK /\ call \in Calls /\ pc = "write" /\ call.op = "write" /\ ok = FALSE
      /\ content \in Seq(Byte) /\ n \in Nat \ {0} /\ Len(out) = 0 /\ call.data \in Seq(Byte)
      /\ Len(call.data) \in Nat
  <2>1. TypeOK /\ call \in Calls /\ pc = "write" /\ call.op = "write" /\ ok = FALSE /\ Len(out) = 0
        /\ content \in Seq(Byte)
    BY DEF IInv, Write, TypeOK, Places, Resources, Amounts
  <2>2. n \in Nat \ {0}
    BY Constants
  <2> QED BY <2>1, <2>2, LengthsAreNat
<1>2. /\ call.done + n <= Len(call.data) /\ content' = Written(content, Pos, piece)
      /\ call' = [call EXCEPT !.done = call.done + n] /\ MoveTo(Pos + n)
      /\ UNCHANGED <<system, exists, pc, out, held, ok, touched>>
  BY DEF Write, Piece
<1>3. call.done \in Nat /\ call.start \in Nat /\ call.before \in Seq(Byte) /\ Pos \in Nat
  BY <1>1 DEF Calls, TypeOK, Cut_File, Pos, Handle
<1>4. Pos = call.start + call.done
  BY <1>1 DEF IInv, Seeks
<1>5. piece \in Seq(Byte)
  BY <1>1, <1>2, <1>3, PieceFacts
<1>6. content' \in Seq(Byte)
  <2> HIDE DEF piece
  <2> QED BY <1>1, <1>2, <1>3, <1>5, WrittenType
<1>7. ~touched => content' = Written(call.before, call.start, SubSeq(call.data, 1, call.done + n))
  <2>1. ~touched => content = Written(call.before, call.start, SubSeq(call.data, 1, call.done))
    BY <1>1 DEF IInv, BytesSoFar
  <2>2. Written(Written(call.before, call.start, SubSeq(call.data, 1, call.done)),
                call.start + call.done, piece)
           = Written(call.before, call.start, SubSeq(call.data, 1, call.done + n))
    BY SMTT(30), <1>1, <1>2, <1>3, WrittenPieces
  <2> HIDE DEF piece
  <2> QED BY <1>2, <1>4, <2>1, <2>2
<1> HIDE DEF piece
<1>8. /\ call' \in Calls /\ call'.done = call.done + n
      /\ call'.op = call.op /\ call'.named = call.named /\ call'.allocates = call.allocates
      /\ call'.size = call.size /\ call'.data = call.data /\ call'.start = call.start
      /\ call'.before = call.before /\ call'.strayed = call.strayed
  <2>1. call.done + n \in Nat
    BY <1>1, <1>3
  <2> QED BY <1>1, <1>2, <2>1, DoneIs
<1>9. /\ files' \in [{"caller", "named"} -> Cut_File] /\ files'[Handle].pos = Pos + n
      /\ files'["named"].open = files["named"].open
  BY <1>1, <1>2, <1>3, MoveIsWellTyped
<1>10. Pos' = call.start + (call.done + n)
  BY <1>3, <1>4, <1>8, <1>9 DEF Pos, Handle
<1>11. TypeOK'
  BY <1>1, <1>2, <1>6, <1>8, <1>9 DEF TypeOK
<1>12. Places'
  BY <1>1, <1>2, <1>8 DEF IInv, Places
<1>13. Resources'
  BY <1>1, <1>2, <1>8, <1>9 DEF IInv, Resources
<1>14. Amounts'
  BY <1>1, <1>2, <1>8 DEF Amounts
<1>15. Seeks'
  BY <1>1, <1>2, <1>8, <1>10 DEF Seeks
<1>16. BytesSoFar'
  BY <1>1, <1>2, <1>7, <1>8 DEF BytesSoFar
<1> QED BY <1>11, <1>12, <1>13, <1>14, <1>15, <1>16 DEF IInv

LEMMA WriteEndOK ==
    ASSUME IInv, NEW yes \in BOOLEAN, WriteEnd(yes)
    PROVE  IInv'
<1>1. /\ TypeOK /\ call \in Calls /\ pc = "write" /\ call.op = "write" /\ call.allocates = FALSE
      /\ held = FALSE /\ ok = FALSE /\ call.named \in BOOLEAN
  BY DEF IInv, WriteEnd, TypeOK, Calls, Places, Resources
<1>2. /\ yes = (call.done = Len(call.data)) /\ ok' = yes /\ held' = FALSE
      /\ pc' = (IF call.named THEN "close" ELSE "ready")
      /\ UNCHANGED <<system, exists, content, files, call, out, touched>>
  BY <1>1 DEF WriteEnd, Finish, disk
<1>3. TypeOK'
  BY <1>1, <1>2 DEF TypeOK
<1>4. Places'
  BY <1>1, <1>2 DEF IInv, Places
<1>5. Resources'
  BY <1>1, <1>2 DEF IInv, Resources
<1>6. Amounts'
  BY <1>1, <1>2 DEF IInv, Amounts
<1>7. Seeks'
  BY <1>1, <1>2 DEF IInv, Seeks, Pos, Handle
<1>8. BytesSoFar'
  BY <1>1, <1>2 DEF IInv, BytesSoFar
<1> QED BY <1>3, <1>4, <1>5, <1>6, <1>7, <1>8 DEF IInv

LEMMA OtherOK ==
    ASSUME IInv, NEW b \in Byte \ {Zero}, Other(b)
    PROVE  IInv'
<1>1. /\ TypeOK /\ content \in Seq(Byte) /\ exists' = TRUE /\ touched' = TRUE
      /\ UNCHANGED <<system, files, pc, call, out, held, ok>>
  BY DEF IInv, Other, TypeOK
<1>2. content' \in Seq(Byte)
  <2>1. content' = << >> \/ content' = content \/ content' = Append(content, b)
    BY DEF Other
  <2>2. Append(content, b) \in Seq(Byte)
    BY <1>1, AppendProperties
  <2> QED BY <1>1, <2>1, <2>2, Constants
<1>3. TypeOK'
  BY <1>1, <1>2 DEF TypeOK
<1>4. Places' /\ Resources' /\ Amounts'
  BY <1>1 DEF IInv, Places, Resources, Amounts
<1>5. Seeks' /\ BytesSoFar'
  BY <1>1 DEF IInv, Seeks, BytesSoFar, Pos, Handle
<1> QED BY <1>3, <1>4, <1>5 DEF IInv

----------------------------------------------------------------------------
(***************************************************************************)
(* The theorems.                                                           *)
(***************************************************************************)

LEMMA CallStepOK ==
    ASSUME IInv, CallStep
    PROVE  IInv'
<1>1. CASE NamedOpen \/ NamedClose
  BY <1>1, NamedOpenOK, NamedCloseOK
<1>2. CASE SizeWindows \/ SizeCurrent \/ SizeEnd \/ SizeBack
  BY <1>2, SizeWindowsOK, SizeCurrentOK, SizeEndOK, SizeBackOK
<1>3. CASE SizeFails \/ PositionFails
  BY <1>3, FailOK DEF SizeFails, PositionFails
<1>4. CASE PositionKnown \/ Restore
  BY <1>4, PositionKnownOK, RestoreOK
<1>5. ASSUME NEW n \in 1 .. MaxLength, Read(n) \/ Write(n) PROVE IInv'
  BY <1>5, ReadOK, WriteOK
<1>6. ASSUME NEW yes \in BOOLEAN, ReadEnd(yes) \/ WriteEnd(yes) PROVE IInv'
  BY <1>6, ReadEndOK, WriteEndOK
<1>7. CASE ReadNothing
  BY <1>7, StutterOK DEF ReadNothing
<1> QED BY <1>1, <1>2, <1>3, <1>4, <1>5, <1>6, <1>7 DEF CallStep

LEMMA NextOK ==
    ASSUME IInv, [Next]_vars
    PROVE  IInv'
<1>1. ASSUME NEW w \in BOOLEAN, NEW k \in BOOLEAN, Open(w, k) PROVE IInv'
  BY <1>1, OpenOK
<1>2. CASE Close
  BY <1>2, CloseOK
<1>3. ASSUME NEW position \in Positions, SetPosition(position) PROVE IInv'
  BY <1>3, SetPositionOK
<1>4. ASSUME NEW named \in BOOLEAN, GetSize(named) PROVE IInv'
  BY <1>4, BeginOK DEF GetSize
<1>5. ASSUME NEW allocates \in BOOLEAN, NEW size \in Sizes, ReadFile(allocates, size) PROVE IInv'
  <2>1. size \in Nat
    BY Constants
  <2> QED BY <1>5, <2>1, BeginOK DEF ReadFile
<1>6. ASSUME NEW named \in BOOLEAN, NEW allocates \in BOOLEAN, ReadEntire(named, allocates)
      PROVE  IInv'
  <2>1. (allocates \/ named) \in BOOLEAN
    OBVIOUS
  <2>2. PICK blocks \in BOOLEAN : Begin("entire", named, blocks, 0, << >>)
    BY <1>6, <2>1 DEF ReadEntire
  <2> QED BY <2>2, BeginOK
<1>7. ASSUME NEW named \in BOOLEAN, NEW data \in Data, WriteFile(named, data) PROVE IInv'
  BY <1>7, BeginOK DEF WriteFile
<1>8. CASE CallStep
  BY <1>8, CallStepOK
<1>9. ASSUME NEW b \in Byte \ {Zero}, Other(b) PROVE IInv'
  BY <1>9, OtherOK
<1>10. CASE UNCHANGED vars
  BY <1>10, StutterOK
<1> QED BY <1>1, <1>2, <1>3, <1>4, <1>5, <1>6, <1>7, <1>8, <1>9, <1>10 DEF Next

LEMMA Invariance == Spec => []IInv
<1>1. Init => IInv
  BY InitOK
<1>2. IInv /\ [Next]_vars => IInv'
  BY NextOK
<1> QED BY <1>1, <1>2, PTL DEF Spec

\* The variables keep their types, and a call never reads more bytes than the block it reads into
\* has room for, whatever is in the file and however much each read of the system gives.
THEOREM TypesAreKept == Spec => []TypeOK
<1>1. IInv => TypeOK
  BY DEF IInv
<1> QED BY <1>1, Invariance, PTL

\* On every way out of a call, the file that it opened by its name is closed, and the block it
\* allocated is the caller's if the answer is yes and freed if it is no.
THEOREM CallsLeaveNothing == Spec => []NothingLeaks
<1>1. IInv => NothingLeaks
  BY DEF IInv, TypeOK, Calls, Resources, NothingLeaks
<1> QED BY <1>1, Invariance, PTL

\* Asking for the size and reading an entire file leave the position of the caller's file where
\* it was, also when they fail in the middle, unless a seek fails whose answer they ignore.
THEOREM PositionsAreKept == Spec => []PositionIsKept
<1>1. IInv => PositionIsKept
  BY DEF IInv, Seeks, Pos, Handle, PositionIsKept
<1> QED BY <1>1, Invariance, PTL

\* A read that answers yes has given as many bytes as it should, also when another process writes to
\* the file meanwhile; if none does, they are those that the file has at its position, in however
\* many pieces it was read, and a size is the length of the file.
THEOREM ReadsAreRight == Spec => []ReadsAreTrue
<1>1. ASSUME IInv PROVE ReadsAreTrue
  <2> SUFFICES ASSUME pc = "ready", ok
               PROVE  /\ call.op \in {"read", "entire"} => Len(out) = call.size
                      /\ call.op = "read" =>
                            /\ files["caller"].pos = call.start + call.size
                            /\ ~touched => out = SubSeq(content, call.start + 1, call.start + call.size)
                      /\ (call.op = "entire" /\ ~touched) => out = content
                      /\ (call.op = "size" /\ ~touched) => call.size = Len(content)
    BY DEF ReadsAreTrue
  <2>0. call.op \in {"read", "entire"} => Len(out) = call.size /\ call.done = call.size
    BY <1>1 DEF IInv, Amounts
  <2>1. CASE call.op = "read"
    <3>1. call.named = FALSE
      BY <1>1, <2>1 DEF IInv, TypeOK, Calls, Places
    <3>2. Pos = call.start + call.done /\ Pos = files["caller"].pos
      BY <1>1, <2>1, <3>1 DEF IInv, Seeks, Pos, Handle
    <3>3. ~touched => out = SubSeq(content, call.start + 1, call.start + call.done)
      BY <1>1, <2>1 DEF IInv, BytesSoFar
    <3> QED BY <2>0, <2>1, <3>2, <3>3
  <2>2. CASE call.op # "read"
    BY <1>1, <2>0, <2>2 DEF IInv, BytesSoFar
  <2> QED BY <2>1, <2>2
<1> QED BY <1>1, Invariance, PTL

\* At every moment of a write, and after one that has failed, the file has what it had before with
\* the first part of the data put at the position, and nothing else of it is changed; all of the
\* data if the answer is yes.
THEOREM WritesAreCutShortAtMost == Spec => []WritesArePrefixes
<1>1. ASSUME IInv PROVE WritesArePrefixes
  <2>1. call.op = "write" /\ ~touched =>
           content = Written(call.before, call.start, SubSeq(call.data, 1, call.done))
    BY <1>1 DEF IInv, BytesSoFar
  <2>2. call.op = "write" /\ ~call.named => files["caller"].pos = call.start + call.done
    BY <1>1 DEF IInv, Seeks, Pos, Handle
  <2>3. call.op = "write" /\ ok => call.done = Len(call.data)
    BY <1>1 DEF IInv, Amounts
  <2> QED BY <2>1, <2>2, <2>3 DEF WritesArePrefixes
<1> QED BY <1>1, Invariance, PTL

\* The loop of a read runs without end only where the caller has asked for more than there is from
\* its position, or for the entire file from behind its start.
THEOREM StuckReadsAskTooMuch == Spec => []StuckOnlyPastTheEnd
<1>1. ASSUME IInv PROVE StuckOnlyPastTheEnd
  <2> SUFFICES ASSUME pc = "read", call.done < call.size, Pos >= Len(content), ~touched
               PROVE  IF call.op = "read" THEN call.start + call.size > Len(content)
                                          ELSE call.start > 0 \/ call.strayed
    BY DEF StuckOnlyPastTheEnd, Stuck
  <2>1. /\ call.done \in Nat /\ call.size \in Nat /\ call.start \in Nat /\ call.prev_pos \in Nat
        /\ Len(content) \in Nat
    BY <1>1, LengthsAreNat DEF IInv, TypeOK, Calls
  <2>2. CASE call.op = "read"
    <3>1. Pos = call.start + call.done
      BY <1>1, <2>2 DEF IInv, Seeks
    <3>2. call.start + call.size > Len(content)
      BY <2>1, <3>1
    <3> QED BY <2>2, <3>2
  <2>3. CASE call.op = "entire"
    <3>1. /\ Pos = call.prev_pos + call.done /\ call.size = Len(content)
          /\ ~call.strayed => call.prev_pos = call.start
      BY <1>1, <2>3 DEF IInv, Seeks, BytesSoFar
    <3>2. call.prev_pos > 0
      BY <2>1, <3>1
    <3> QED BY <2>3, <3>1, <3>2
  <2> QED BY <1>1, <2>2, <2>3 DEF IInv, Places
<1> QED BY <1>1, Invariance, PTL
====
