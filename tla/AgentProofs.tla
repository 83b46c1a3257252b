---------------------------- MODULE AgentProofs ----------------------------
(***************************************************************************)
(* Theorems about Agent and its event stream, for any number of sessions   *)
(* and requests, any window and any names.                                 *)
(*                                                                         *)
(* What the server has written to the stream of a session and its reader   *)
(* has not consumed is one sequence, whichever yamux holds it: Pipe.  The  *)
(* heart of the invariant, Kept, follows an operator's close event along   *)
(* it: from the call that writes it, past the events of others that may be *)
(* mixed into it, to the reader that either stops the agent or loses the   *)
(* stream.                                                                 *)
(***************************************************************************)
EXTENDS Agent, SequenceTheorems, TLAPS

TagChunk  == <<"tag", NoWriter>>
FinChunk  == <<"fin", NoWriter>>
CloseHeadChunk == <<"head", Closer>>
CloseBodyChunk == <<"body", Closer>>

-----------------------------------------------------------------------------
(* The close event in a pipe p, whose reader is in state r, in a frame of  *)
(* f, and has stopped the agent if s.                                      *)

\* Both parts of the event are among the next k chunks, in order.
EventAhead(p, k) ==
    \E i, j \in 1 .. k : i < j /\ p[i] = CloseHeadChunk /\ p[j] = CloseBodyChunk

\* Or only the second one is, and the reader is in the frame of the first.
RestAhead(p, k, r, f) ==
    r = "body" /\ f = Closer /\ \E j \in 1 .. k : p[j] = CloseBodyChunk

\* The reader of the next k chunks stops the agent, has done so, or never
\* comes to the end of the stream.
WillStop(p, k, r, f, s) ==
    \/ s
    \/ r \in {"garbled", "cutoff"}
    \/ EventAhead(p, k)
    \/ RestAhead(p, k, r, f)

HalfWritten(p, r, f, s) ==
    \/ s
    \/ r \in {"garbled", "cutoff"}
    \/ \E i \in 1 .. Len(p) : p[i] = CloseHeadChunk
    \/ r = "body" /\ f = Closer

\* The end of the stream comes from a close, and behind the close event if
\* there is one.  cl is the close, w that what it writes reaches the pipe.
Kept(p, r, f, s, w, cl) ==
    /\ r = "finished" \/ (\E k \in 1 .. Len(p) : p[k] = FinChunk)
          => cl.at \in {"session", "done"}
    /\ cl.final =>
          /\ cl.at = "body" /\ w => HalfWritten(p, r, f, s)
          /\ cl.at = "finish" /\ w => WillStop(p, Len(p), r, f, s)
          /\ \A k \in 1 .. Len(p) : p[k] = FinChunk => WillStop(p, k, r, f, s)
          /\ r = "finished" => s

\* What the chunks of the close are, and that no other writer writes them.
LEMMA ChunkFacts ==
    /\ {TagChunk, FinChunk, CloseHeadChunk, CloseBodyChunk} \subseteq Chunks
    /\ \A x \in Chunks : x[1] = "fin" <=> x = FinChunk
    /\ TagChunk # FinChunk /\ TagChunk # CloseHeadChunk /\ TagChunk # CloseBodyChunk
    /\ CloseHeadChunk # FinChunk /\ CloseBodyChunk # FinChunk
    /\ CloseHeadChunk # CloseBodyChunk
    /\ \A e \in Emitters, part \in {"head", "body"} :
          <<part, e>> \in Chunks /\ <<part, e>> # FinChunk
    /\ CloseHeadChunk[2] = Closer
    /\ \A x \in Chunks : x # FinChunk => x[2] \in Writers \cup {NoWriter}
  BY EventStreamAssumption
     DEF Chunks, Writers, TagChunk, FinChunk, CloseHeadChunk, CloseBodyChunk

\* A chunk of somebody else is written behind what is there.
LEMMA KeptByOthers ==
    ASSUME NEW p \in Seq(Chunks), NEW x \in Chunks, x # FinChunk,
           NEW r, NEW f, NEW s \in BOOLEAN, NEW w \in BOOLEAN, NEW cl,
           Kept(p, r, f, s, w, cl)
    PROVE  Kept(Append(p, x), r, f, s, w, cl)
<1> DEFINE q == Append(p, x)
<1>1. /\ q \in Seq(Chunks)
      /\ Len(q) = Len(p) + 1
      /\ \A i \in 1 .. Len(p) : q[i] = p[i]
      /\ q[Len(p) + 1] = x
      /\ Len(p) \in Nat
  BY AppendProperties, LenProperties
<1> HIDE DEF q
<1>2. \A k \in 1 .. Len(q) : q[k] = FinChunk => k \in 1 .. Len(p)
  BY <1>1
<1>3. ASSUME NEW k \in 1 .. Len(p), NEW m \in k .. Len(q), WillStop(p, k, r, f, s)
      PROVE  WillStop(q, m, r, f, s)
  <2>1. 1 .. k \subseteq 1 .. m /\ \A i \in 1 .. k : q[i] = p[i]
    BY <1>1
  <2>2. EventAhead(p, k) => EventAhead(q, m)
    BY <2>1 DEF EventAhead
  <2>3. RestAhead(p, k, r, f) => RestAhead(q, m, r, f)
    BY <2>1 DEF RestAhead
  <2>4. QED BY <1>3, <2>2, <2>3 DEF WillStop
<1>4. Len(p) = 0 /\ WillStop(p, Len(p), r, f, s) => WillStop(q, Len(q), r, f, s)
  BY <1>1 DEF WillStop, EventAhead, RestAhead
<1>5. WillStop(p, Len(p), r, f, s) => WillStop(q, Len(q), r, f, s)
  BY <1>1, <1>3, <1>4
<1>6. HalfWritten(p, r, f, s) => HalfWritten(q, r, f, s)
  BY <1>1 DEF HalfWritten
<1>7. \A k \in 1 .. Len(p) : WillStop(p, k, r, f, s) => WillStop(q, k, r, f, s)
  BY <1>1, <1>3
<1>8. \A k \in 1 .. Len(p) : q[k] = p[k]
  BY <1>1
<1>9. Kept(q, r, f, s, w, cl)
  BY <1>2, <1>5, <1>6, <1>7, <1>8 DEF Kept
<1>10. QED BY <1>9 DEF q

\* The close event's first part is written.
LEMMA KeptByHead ==
    ASSUME NEW p \in Seq(Chunks), NEW r, NEW f, NEW s \in BOOLEAN, NEW w \in BOOLEAN,
           NEW cl, NEW cl2, cl.at = "head", cl2.at = "body", cl2.final = cl.final,
           Kept(p, r, f, s, w, cl)
    PROVE  Kept(Append(p, CloseHeadChunk), r, f, s, w, cl2)
<1> DEFINE q == Append(p, CloseHeadChunk)
<1>1. Kept(q, r, f, s, w, cl)
  BY KeptByOthers, ChunkFacts
<1>2. Len(q) \in 1 .. Len(q) /\ q[Len(q)] = CloseHeadChunk
  BY ChunkFacts, AppendProperties, LenProperties
<1> HIDE DEF q
<1>3. HalfWritten(q, r, f, s)
  BY <1>2 DEF HalfWritten
<1>4. Kept(q, r, f, s, w, cl2)
  BY <1>1, <1>3 DEF Kept
<1>5. QED BY <1>4 DEF q

\* And the second: from here on the event is whole in the pipe.
LEMMA KeptByBody ==
    ASSUME NEW p \in Seq(Chunks), NEW r, NEW f, NEW s \in BOOLEAN,
           NEW cl, NEW cl2, cl.at = "body", cl2.at = "finish", cl2.final = cl.final,
           Kept(p, r, f, s, TRUE, cl)
    PROVE  Kept(Append(p, CloseBodyChunk), r, f, s, TRUE, cl2)
<1> DEFINE q == Append(p, CloseBodyChunk)
<1>1. Kept(q, r, f, s, TRUE, cl)
  BY KeptByOthers, ChunkFacts
<1>2. /\ Len(p) \in Nat /\ Len(q) = Len(p) + 1
      /\ q[Len(q)] = CloseBodyChunk
      /\ \A i \in 1 .. Len(p) : q[i] = p[i]
  BY ChunkFacts, AppendProperties, LenProperties
<1> HIDE DEF q
<1>3. ASSUME HalfWritten(p, r, f, s)
      PROVE  WillStop(q, Len(q), r, f, s)
  <2>1. ASSUME NEW i \in 1 .. Len(p), p[i] = CloseHeadChunk
        PROVE  EventAhead(q, Len(q))
    <3>1. i \in 1 .. Len(q) /\ Len(q) \in 1 .. Len(q) /\ i < Len(q) /\ q[i] = CloseHeadChunk
      BY <1>2, <2>1
    <3>2. QED BY <1>2, <3>1 DEF EventAhead
  <2>2. ASSUME r = "body", f = Closer
        PROVE  RestAhead(q, Len(q), r, f)
    <3>1. Len(q) \in 1 .. Len(q)
      BY <1>2
    <3>2. QED BY <1>2, <2>2, <3>1 DEF RestAhead
  <2>3. QED BY <1>3, <2>1, <2>2 DEF HalfWritten, WillStop
<1>4. cl.final => HalfWritten(p, r, f, s)
  BY DEF Kept
<1>5. Kept(q, r, f, s, TRUE, cl2)
  BY <1>1, <1>3, <1>4 DEF Kept
<1>6. QED BY <1>5 DEF q

\* The end of the stream comes behind the event.
LEMMA KeptByFin ==
    ASSUME NEW p \in Seq(Chunks), NEW r, NEW f, NEW s \in BOOLEAN, NEW w \in BOOLEAN,
           NEW cl, NEW cl2, cl.at = "finish", cl2.at = "session", cl2.final = cl.final,
           Kept(p, r, f, s, TRUE, cl)
    PROVE  Kept(Append(p, FinChunk), r, f, s, w, cl2)
<1> DEFINE q == Append(p, FinChunk)
<1>1. /\ Len(p) \in Nat /\ Len(q) = Len(p) + 1
      /\ \A i \in 1 .. Len(p) : q[i] = p[i]
  BY ChunkFacts, AppendProperties, LenProperties
<1> HIDE DEF q
<1>2. /\ r # "finished"
      /\ \A k \in 1 .. Len(p) : p[k] # FinChunk
      /\ cl.final => WillStop(p, Len(p), r, f, s)
  BY DEF Kept
<1>3. ASSUME NEW k \in 1 .. Len(q), q[k] = FinChunk
      PROVE  k = Len(q)
  BY <1>1, <1>2, <1>3
<1>4. ASSUME WillStop(p, Len(p), r, f, s)
      PROVE  WillStop(q, Len(q), r, f, s)
  <2>1. EventAhead(p, Len(p)) => EventAhead(q, Len(q))
    <3>1. 1 .. Len(p) \subseteq 1 .. Len(q)
      BY <1>1
    <3>2. QED BY <1>1, <3>1 DEF EventAhead
  <2>2. RestAhead(p, Len(p), r, f) => RestAhead(q, Len(q), r, f)
    BY <1>1 DEF RestAhead
  <2>3. QED BY <1>4, <2>1, <2>2 DEF WillStop
<1>5. Kept(q, r, f, s, w, cl2)
  BY <1>2, <1>3, <1>4 DEF Kept
<1>6. QED BY <1>5 DEF q

\* The close goes on without being heard: nothing can be written any more.
LEMMA KeptUnheard ==
    ASSUME NEW p, NEW r, NEW f, NEW s, NEW w, NEW cl, NEW cl2,
           cl2.final = cl.final,
           cl.at \in {"session", "done"} => cl2.at \in {"session", "done"},
           Kept(p, r, f, s, w, cl)
    PROVE  Kept(p, r, f, s, FALSE, cl2)
  BY DEF Kept

\* A close begins.
LEMMA KeptByBegin ==
    ASSUME NEW p, NEW r, NEW f, NEW s, NEW w, NEW cl, NEW cl2,
           cl.at = "idle", cl2.at \in {"head", "finish", "session"},
           cl2.at = "finish" => ~cl2.final,
           Kept(p, r, f, s, w, cl)
    PROVE  Kept(p, r, f, s, w, cl2)
  BY DEF Kept

\* The agent is told to stop elsewhere, or less can be written.
LEMMA KeptLess ==
    ASSUME NEW p, NEW r, NEW f, NEW s \in BOOLEAN, NEW s2 \in BOOLEAN, NEW w, NEW w2, NEW cl,
           s => s2, w2 => w,
           Kept(p, r, f, s, w, cl)
    PROVE  Kept(p, r, f, s2, w2, cl)
  BY DEF Kept, WillStop, HalfWritten

\* What is beyond the first chunks is lost with the session.
LEMMA KeptByLoss ==
    ASSUME NEW p \in Seq(Chunks), NEW q \in Seq(Chunks), Len(q) <= Len(p),
           \A k \in 1 .. Len(q) : q[k] = p[k],
           NEW r, NEW f, NEW s, NEW w, NEW cl,
           Kept(p, r, f, s, w, cl)
    PROVE  Kept(q, r, f, s, FALSE, cl)
<1>1. Len(p) \in Nat /\ Len(q) \in Nat
  BY LenProperties
<1>2. \A k \in 1 .. Len(q) : k \in 1 .. Len(p)
  BY <1>1
<1>3. ASSUME NEW k \in 1 .. Len(q), WillStop(p, k, r, f, s)
      PROVE  WillStop(q, k, r, f, s)
  <2>1. \A i \in 1 .. k : q[i] = p[i]
    BY <1>1
  <2>2. QED BY <1>3, <2>1 DEF WillStop, EventAhead, RestAhead
<1>4. QED BY <1>2, <1>3 DEF Kept

-----------------------------------------------------------------------------
(* The reader.                                                             *)

LEMMA TailFacts ==
    ASSUME NEW p \in Seq(Chunks), p # <<>>
    PROVE  /\ Tail(p) \in Seq(Chunks)
           /\ Len(p) \in Nat \ {0} /\ Len(Tail(p)) = Len(p) - 1
           /\ Head(p) = p[1] /\ p[1] \in Chunks
           /\ \A k \in 1 .. Len(Tail(p)) : Tail(p)[k] = p[k + 1]
  BY HeadTailProperties, LenProperties, EmptySeq

\* The reader gets somewhere without consuming anything, or gives up.
LEMMA KeptByMove ==
    ASSUME NEW p, NEW r, NEW r2, NEW f, NEW f2, NEW s, NEW w, NEW cl,
           \/ r2 \in {"garbled", "cutoff"}
           \/ r \notin {"body", "garbled", "cutoff"} /\ r2 # "finished",
           Kept(p, r, f, s, w, cl)
    PROVE  Kept(p, r2, f2, s, w, cl)
  BY DEF Kept, WillStop, HalfWritten, RestAhead

\* It consumes a chunk that is not the event's, at the start of a frame.
LEMMA KeptBySkip ==
    ASSUME NEW p \in Seq(Chunks), p # <<>>,
           Head(p) \notin {FinChunk, CloseHeadChunk},
           NEW r, NEW r2, r \in {"tag", "head"}, r2 \in {"head", "body"},
           NEW f, NEW f2, NEW s, NEW w, NEW cl,
           Kept(p, r, f, s, w, cl)
    PROVE  Kept(Tail(p), r2, f2, s, w, cl)
<1> DEFINE q == Tail(p)
<1>1. /\ Len(p) \in Nat \ {0} /\ Len(q) = Len(p) - 1
      /\ p[1] \notin {FinChunk, CloseHeadChunk}
      /\ \A k \in 1 .. Len(q) : q[k] = p[k + 1]
  BY TailFacts
<1> HIDE DEF q
<1>2. ASSUME NEW k \in 1 .. Len(p), p[k] # p[1]
      PROVE  k - 1 \in 1 .. Len(q) /\ q[k - 1] = p[k]
  BY <1>1, <1>2
<1>3. ASSUME NEW k \in 0 .. Len(q), EventAhead(p, k + 1)
      PROVE  EventAhead(q, k)
  <2>1. PICK i \in 1 .. k + 1, j \in 1 .. k + 1 :
               i < j /\ p[i] = CloseHeadChunk /\ p[j] = CloseBodyChunk
    BY <1>3 DEF EventAhead
  <2>2. i # 1
    BY <1>1, <2>1
  <2>3. i - 1 \in 1 .. k /\ j - 1 \in 1 .. k /\ i - 1 < j - 1
    BY <1>1, <2>1, <2>2
  <2>4. i - 1 \in 1 .. Len(q) /\ j - 1 \in 1 .. Len(q)
    BY <1>1, <2>3
  <2>5. q[i - 1] = p[i] /\ q[j - 1] = p[j]
    BY <1>1, <2>4
  <2>6. QED BY <2>1, <2>3, <2>5 DEF EventAhead
<1>4. ASSUME NEW k \in 0 .. Len(q), WillStop(p, k + 1, r, f, s)
      PROVE  WillStop(q, k, r2, f2, s)
  BY <1>3, <1>4 DEF WillStop, RestAhead
<1>5. HalfWritten(p, r, f, s) => HalfWritten(q, r2, f2, s)
  BY <1>1, <1>2 DEF HalfWritten
<1>6. cl.at = "finish" /\ w /\ cl.final => WillStop(q, Len(q), r2, f2, s)
  <2>1. Len(q) \in 0 .. Len(q) /\ Len(p) = Len(q) + 1
    BY <1>1
  <2>2. QED BY <1>4, <2>1 DEF Kept
<1>7. ASSUME NEW k \in 1 .. Len(q), q[k] = FinChunk
      PROVE  /\ cl.at \in {"session", "done"}
             /\ cl.final => WillStop(q, k, r2, f2, s)
  <2>1. k \in 0 .. Len(q) /\ k + 1 \in 1 .. Len(p) /\ p[k + 1] = FinChunk
    BY <1>1, <1>7
  <2>2. QED BY <1>4, <2>1 DEF Kept
<1>8. Kept(q, r2, f2, s, w, cl)
  BY <1>5, <1>6, <1>7 DEF Kept
<1>9. QED BY <1>8 DEF q

\* It consumes the event's first part, and is in its frame.
LEMMA KeptByEventHead ==
    ASSUME NEW p \in Seq(Chunks), p # <<>>, Head(p) = CloseHeadChunk,
           NEW f, NEW s, NEW w, NEW cl,
           Kept(p, "head", f, s, w, cl)
    PROVE  Kept(Tail(p), "body", Closer, s, w, cl)
<1> DEFINE q == Tail(p)
<1>1. /\ Len(p) \in Nat \ {0} /\ Len(q) = Len(p) - 1
      /\ p[1] = CloseHeadChunk
      /\ \A k \in 1 .. Len(q) : q[k] = p[k + 1]
  BY TailFacts
<1> HIDE DEF q
<1>2. ASSUME NEW k \in 0 .. Len(q), WillStop(p, k + 1, "head", f, s)
      PROVE  WillStop(q, k, "body", Closer, s)
  <2>1. ASSUME EventAhead(p, k + 1)
        PROVE  RestAhead(q, k, "body", Closer)
    <3>1. PICK j \in 1 .. k + 1 : j # 1 /\ p[j] = CloseBodyChunk
      BY <1>1, <2>1, ChunkFacts DEF EventAhead
    <3>2. j - 1 \in 1 .. k /\ j - 1 \in 1 .. Len(q)
      BY <1>1, <3>1
    <3>3. q[j - 1] = p[j]
      BY <1>1, <3>2
    <3>4. QED BY <3>1, <3>2, <3>3 DEF RestAhead
  <2>2. QED BY <1>2, <2>1 DEF WillStop, RestAhead
<1>3. cl.at = "finish" /\ w /\ cl.final => WillStop(q, Len(q), "body", Closer, s)
  <2>1. Len(q) \in 0 .. Len(q) /\ Len(p) = Len(q) + 1
    BY <1>1
  <2>2. QED BY <1>2, <2>1 DEF Kept
<1>4. ASSUME NEW k \in 1 .. Len(q), q[k] = FinChunk
      PROVE  /\ cl.at \in {"session", "done"}
             /\ cl.final => WillStop(q, k, "body", Closer, s)
  <2>1. k \in 0 .. Len(q) /\ k + 1 \in 1 .. Len(p) /\ p[k + 1] = FinChunk
    BY <1>1, <1>4
  <2>2. QED BY <1>2, <2>1 DEF Kept
<1>5. Kept(q, "body", Closer, s, w, cl)
  BY <1>3, <1>4 DEF Kept, HalfWritten
<1>6. QED BY <1>5 DEF q

\* It consumes the payload of the frame it is in; the event's stops the agent.
LEMMA KeptByPayload ==
    ASSUME NEW p \in Seq(Chunks), p # <<>>, NEW f, Head(p) = <<"body", f>>,
           NEW s \in BOOLEAN, NEW s2 \in BOOLEAN, NEW w, NEW cl,
           s => s2, f = Closer /\ cl.final => s2,
           Kept(p, "body", f, s, w, cl)
    PROVE  Kept(Tail(p), "report", f, s2, w, cl)
<1> DEFINE q == Tail(p)
<1>1. /\ Len(p) \in Nat \ {0} /\ Len(q) = Len(p) - 1
      /\ p[1] = <<"body", f>>
      /\ \A k \in 1 .. Len(q) : q[k] = p[k + 1]
  BY TailFacts
<1> HIDE DEF q
<1>2. p[1] # FinChunk /\ p[1] # CloseHeadChunk
  BY <1>1 DEF FinChunk, CloseHeadChunk
<1>3. ASSUME NEW k \in 0 .. Len(q), EventAhead(p, k + 1)
      PROVE  EventAhead(q, k)
  <2>1. PICK i \in 1 .. k + 1, j \in 1 .. k + 1 :
               i < j /\ p[i] = CloseHeadChunk /\ p[j] = CloseBodyChunk
    BY <1>3 DEF EventAhead
  <2>2. i # 1
    BY <1>2, <2>1
  <2>3. i - 1 \in 1 .. k /\ j - 1 \in 1 .. k /\ i - 1 < j - 1
    BY <1>1, <2>1, <2>2
  <2>4. i - 1 \in 1 .. Len(q) /\ j - 1 \in 1 .. Len(q)
    BY <1>1, <2>3
  <2>5. q[i - 1] = p[i] /\ q[j - 1] = p[j]
    BY <1>1, <2>4
  <2>6. QED BY <2>1, <2>3, <2>5 DEF EventAhead
<1>4. ASSUME NEW k \in 0 .. Len(q), cl.final, WillStop(p, k + 1, "body", f, s)
      PROVE  WillStop(q, k, "report", f, s2)
  BY <1>3, <1>4 DEF WillStop, RestAhead
<1>5. ASSUME cl.final, HalfWritten(p, "body", f, s)
      PROVE  HalfWritten(q, "report", f, s2)
  <2>1. ASSUME NEW i \in 1 .. Len(p), p[i] = CloseHeadChunk
        PROVE  \E j \in 1 .. Len(q) : q[j] = CloseHeadChunk
    <3>1. i # 1
      BY <1>2, <2>1
    <3>2. i - 1 \in 1 .. Len(q)
      BY <1>1, <3>1
    <3>3. q[i - 1] = p[i]
      BY <1>1, <3>2
    <3>4. QED BY <2>1, <3>2, <3>3
  <2>2. QED BY <1>5, <2>1 DEF HalfWritten
<1>6. cl.at = "finish" /\ w /\ cl.final => WillStop(q, Len(q), "report", f, s2)
  <2>1. Len(q) \in 0 .. Len(q) /\ Len(p) = Len(q) + 1
    BY <1>1
  <2>2. QED BY <1>4, <2>1 DEF Kept
<1>7. ASSUME NEW k \in 1 .. Len(q), q[k] = FinChunk
      PROVE  /\ cl.at \in {"session", "done"}
             /\ cl.final => WillStop(q, k, "report", f, s2)
  <2>1. k \in 0 .. Len(q) /\ k + 1 \in 1 .. Len(p) /\ p[k + 1] = FinChunk
    BY <1>1, <1>7
  <2>2. QED BY <1>4, <2>1 DEF Kept
<1>8. Kept(q, "report", f, s2, w, cl)
  BY <1>5, <1>6, <1>7 DEF Kept
<1>9. QED BY <1>8 DEF q

\* It consumes something else where the payload should be, and gives up.
LEMMA KeptByGarbage ==
    ASSUME NEW p \in Seq(Chunks), p # <<>>,
           NEW f, NEW f2, NEW s, NEW w, NEW cl,
           Kept(p, "body", f, s, w, cl)
    PROVE  Kept(Tail(p), "garbled", f2, s, w, cl)
<1> DEFINE q == Tail(p)
<1>1. /\ Len(p) \in Nat \ {0} /\ Len(q) = Len(p) - 1
      /\ \A k \in 1 .. Len(q) : q[k] = p[k + 1]
  BY TailFacts
<1> HIDE DEF q
<1>2. ASSUME NEW k \in 1 .. Len(q), q[k] = FinChunk
      PROVE  cl.at \in {"session", "done"}
  <2>1. k + 1 \in 1 .. Len(p) /\ p[k + 1] = FinChunk
    BY <1>1, <1>2
  <2>2. QED BY <2>1 DEF Kept
<1>3. Kept(q, "garbled", f2, s, w, cl)
  BY <1>2 DEF Kept, WillStop, HalfWritten
<1>4. QED BY <1>3 DEF q

\* It comes to the end of the stream: an operator's close has stopped the
\* agent by then.
LEMMA KeptByEnd ==
    ASSUME NEW p \in Seq(Chunks), p # <<>>, Head(p) = FinChunk,
           NEW f, NEW s, NEW w, NEW cl,
           Kept(p, "head", f, s, w, cl)
    PROVE  Kept(Tail(p), "finished", f, s, w, cl)
<1> DEFINE q == Tail(p)
<1>1. /\ Len(p) \in Nat \ {0} /\ Len(q) = Len(p) - 1
      /\ p[1] = FinChunk /\ 1 \in 1 .. Len(p)
  BY TailFacts
<1> HIDE DEF q
<1>2. cl.at \in {"session", "done"}
  BY <1>1 DEF Kept
<1>3. cl.final => WillStop(p, 1, "head", f, s)
  BY <1>1 DEF Kept
<1>4. ~ EventAhead(p, 1)
  BY DEF EventAhead
<1>5. cl.final => s
  BY <1>3, <1>4 DEF WillStop, RestAhead
<1>6. Kept(q, "finished", f, s, w, cl)
  BY <1>2, <1>5 DEF Kept, WillStop
<1>7. QED BY <1>6 DEF q

-----------------------------------------------------------------------------
(* The inductive invariant.                                                *)

Pipe(c) == inbox[c] \o wire[c]

\* What is written now gets into the pipe.
Reaches(c) == Writable(c) /\ joined[c] # "closed"

CloseKept(c) == Kept(Pipe(c), reader[c], frame[c], stopRetry, Reaches(c), closer[c])

\* Before it is served, a connection has no session, stream or close.
Unserved(c) ==
    handler[c] \in {"none", "hello", "ack", "open"} =>
       /\ session[c] = "none" /\ stream[c] = "none"
       /\ closer[c].at = "idle"
       /\ Pipe(c) = <<>>

\* The kind byte is what the reader finds first.
TagFirst(c) ==
    reader[c] \in {"none", "tag"} =>
       \/ Pipe(c) = <<>> /\ (stream[c] = "none" \/ joined[c] = "closed")
       \/ Pipe(c) # <<>> /\ Pipe(c)[1] = TagChunk

\* The window bounds what waits; only the end of the stream goes beyond it.
InWindow(c) ==
    /\ Len(wire[c]) + Len(inbox[c]) <= Window + 1
    /\ closer[c].at \in {"session", "done"} \/ Len(wire[c]) + Len(inbox[c]) <= Window

StreamInv(c) ==
    /\ CloseKept(c) /\ Unserved(c) /\ TagFirst(c) /\ InWindow(c)
    /\ closer[c].at = "idle" => ~closer[c].final

\* Only a final close event stops the agent.
StopInv ==
    /\ stopRetry => \E c \in Conns : closer[c].final
    /\ result = "told" => stopRetry

\* What drain found of the latest session, and what Run made of it.
DrainInv ==
    /\ at \in {"dial", "hello", "serve", "drain"} => drained = "none"
    /\ at \in {"close", "over", "notify", "wait"} /\ drained = "heard" =>
          current \in Conns /\ ReaderDone(current)
    /\ CleanCloseIsHeeded

\* A session the agent has not begun is untouched on both sides.
RunInv ==
    /\ at \in {"hello", "serve", "drain", "close"} => current \in Conns
    /\ at = "hello" => joined[current] = "none"
    /\ \A c \in Conns : c > current => joined[c] = "none" /\ handler[c] = "none"

\* The name an answer brings is the name that was asked for.
NameInv ==
    /\ wanted # NoName => granted \in {NoName, wanted}
    /\ at = "hello" => asked[current] = HelloName
    /\ \A c \in Conns :
          /\ handler[c] = "none" => ack[c] = NoAck
          /\ handler[c] = "hello" => ack[c] = NoAck
          /\ handler[c] \in {"ack", "open"} \/ ack[c].code = "ok" => ack[c].name \in Names
          /\ asked[c] # NoName => ack[c].name \in {NoName, asked[c]}

IInv ==
    /\ TypeOK
    /\ \A c \in Conns : StreamInv(c)
    /\ RunInv /\ StopInv /\ DrainInv /\ NameInv

-----------------------------------------------------------------------------
(* Steps of one connection's pipe.                                         *)

LEMMA ConcatFacts ==
    ASSUME NEW a \in Seq(Chunks), NEW b \in Seq(Chunks)
    PROVE  /\ a \o b \in Seq(Chunks)
           /\ Len(a) \in Nat /\ Len(b) \in Nat /\ Len(a \o b) = Len(a) + Len(b)
           /\ \A k \in 1 .. Len(a) : (a \o b)[k] = a[k]
           /\ a \o <<>> = a
           /\ \A x \in Chunks : a \o Append(b, x) = Append(a \o b, x)
           /\ b # <<>> => Append(a, Head(b)) \o Tail(b) = a \o b
           /\ a # <<>> => /\ a \o b # <<>>
                          /\ Head(a \o b) = Head(a)
                          /\ Tail(a) \o b = Tail(a \o b)
<1>1. /\ a \o b \in Seq(Chunks)
      /\ Len(a) \in Nat /\ Len(b) \in Nat /\ Len(a \o b) = Len(a) + Len(b)
      /\ \A k \in 1 .. Len(a) : (a \o b)[k] = a[k]
  BY ConcatProperties, LenProperties
<1>2. a \o <<>> = a
  BY ConcatEmptySeq
<1>3. ASSUME NEW x \in Chunks
      PROVE  a \o Append(b, x) = Append(a \o b, x)
  BY SMTT(30)
<1>4. b # <<>> => Append(a, Head(b)) \o Tail(b) = a \o b
  BY SMTT(30)
<1>5. a # <<>> => /\ a \o b # <<>>
                  /\ Head(a \o b) = Head(a)
                  /\ Tail(a) \o b = Tail(a \o b)
  BY SMTT(30)
<1>6. QED BY <1>1, <1>2, <1>3, <1>4, <1>5

Touches(d) == <<inbox[d], wire[d], reader[d], frame[d], session[d], stream[d],
                joined[d], closer[d], handler[d]>>

Untouched(d) == UNCHANGED Touches(d) /\ (stopRetry => stopRetry')

\* Nothing happens to connection d.
LEMMA UntouchedKeeps ==
    ASSUME NEW d \in Conns, TypeOK, stopRetry' \in BOOLEAN, StreamInv(d), Untouched(d)
    PROVE  StreamInv(d)'
<1>1. Kept(Pipe(d), reader[d], frame[d], stopRetry', Reaches(d), closer[d])
  BY KeptLess DEF StreamInv, CloseKept, Untouched, TypeOK, RunOK
<1>2. Pipe(d)' = Pipe(d) /\ Reaches(d)' = Reaches(d)
  BY DEF Untouched, Touches, Pipe, Reaches, Writable
<1>3. CloseKept(d)'
  BY <1>1, <1>2 DEF CloseKept, Untouched, Touches
<1>4. Unserved(d)' /\ TagFirst(d)' /\ InWindow(d)'
  BY <1>2 DEF StreamInv, Unserved, TagFirst, InWindow, Untouched, Touches
<1>5. QED BY <1>3, <1>4 DEF StreamInv, Untouched, Touches

LEMMA PipeFacts ==
    ASSUME NEW c \in Conns, TypeOK
    PROVE  /\ PipesOK
           /\ inbox[c] \in Seq(Chunks) /\ wire[c] \in Seq(Chunks)
           /\ Pipe(c) \in Seq(Chunks)
           /\ Len(inbox[c]) \in Nat /\ Len(wire[c]) \in Nat
           /\ Len(Pipe(c)) = Len(inbox[c]) + Len(wire[c])
<1>1. PipesOK
  BY DEF TypeOK, StreamTypeOK, EndsOK, PipesOK, RunOK, ReaderOK, ServerOK
<1>2. inbox[c] \in Seq(Chunks) /\ wire[c] \in Seq(Chunks)
  BY <1>1 DEF PipesOK
<1>3. QED BY <1>1, <1>2, ConcatFacts DEF Pipe

\* A chunk is written to c, by an emitter or by the close.
LEMMA WriteKeeps ==
    ASSUME NEW c \in Conns, TypeOK, PipesOK', StreamInv(c), NEW x \in Chunks,
           Write(c, x),
           UNCHANGED <<inbox[c], reader[c], frame[c], session[c], stream[c],
                       joined[c], handler[c]>>,
           UNCHANGED stopRetry,
           closer[c].at # "idle" \/ closer'[c] = closer[c],
           closer'[c].at # "idle" \/ closer'[c] = closer[c],
           Kept(IF joined[c] = "closed" THEN Pipe(c) ELSE Append(Pipe(c), x),
                reader[c], frame[c], stopRetry, Reaches(c), closer'[c])
    PROVE  StreamInv(c)'
<1>a. /\ PipesOK
      /\ inbox[c] \in Seq(Chunks) /\ wire[c] \in Seq(Chunks) /\ Pipe(c) \in Seq(Chunks)
      /\ Len(inbox[c]) \in Nat /\ Len(wire[c]) \in Nat
  BY PipeFacts
<1>b. wire'[c] = IF joined[c] = "closed" THEN wire[c] ELSE Append(wire[c], x)
  <2>1. wire \in [Conns -> Seq(Chunks)]
    BY DEF TypeOK, StreamTypeOK, EndsOK, PipesOK, RunOK, ReaderOK, ServerOK
  <2>2. wire' = IF joined[c] = "closed" THEN wire ELSE [wire EXCEPT ![c] = Append(@, x)]
    BY DEF Write, Send
  <2>3. QED BY <2>1, <2>2
<1>c. inbox[c] \o Append(wire[c], x) = Append(inbox[c] \o wire[c], x)
  BY <1>a, ConcatFacts DEF PipesOK
<1>d. inbox'[c] = inbox[c]
  OBVIOUS
<1>1. Pipe(c)' = IF joined[c] = "closed" THEN Pipe(c) ELSE Append(Pipe(c), x)
  BY <1>b, <1>c, <1>d DEF Pipe
<1>2. Reaches(c)' = Reaches(c)
  BY DEF Reaches, Writable
<1>3. CloseKept(c)'
  BY <1>1, <1>2 DEF CloseKept
<1>4. Unserved(c)'
  BY DEF StreamInv, Unserved, Write, Writable
<1>5. TagFirst(c)'
  <2> SUFFICES ASSUME reader[c] \in {"none", "tag"}, joined[c] # "closed"
               PROVE  Pipe(c)' # <<>> /\ Pipe(c)'[1] = TagChunk
    BY <1>1 DEF TagFirst, StreamInv, Write, Writable
  <2>1. Pipe(c) # <<>> /\ Pipe(c)[1] = TagChunk
    BY DEF TagFirst, StreamInv, Write, Writable
  <2>2. Pipe(c)' = Append(Pipe(c), x) /\ Pipe(c) \in Seq(Chunks)
    BY <1>1, PipeFacts
  <2>3. QED BY <2>1, <2>2, AppendProperties, LenProperties, EmptySeq
<1>6. InWindow(c)'
  <2>1. Len(wire'[c]) \in Nat /\ Len(wire'[c]) <= Len(wire[c]) + 1
    BY <1>a, <1>b, AppendProperties DEF PipesOK
  <2>2. Len(wire'[c]) + Len(inbox'[c]) <= Window
    BY <1>a, <1>d, <2>1, EventStreamAssumption DEF Write, HasRoom, PipesOK
  <2>3. QED BY <1>a, <1>d, <2>1, <2>2, EventStreamAssumption DEF PipesOK, InWindow
<1>7. QED BY <1>3, <1>4, <1>5, <1>6 DEF StreamInv

\* The agent's reader consumes the first chunk of c.
LEMMA ConsumeKeeps ==
    ASSUME NEW c \in Conns, TypeOK, PipesOK', StreamInv(c), inbox[c] # <<>>, Consume(c),
           UNCHANGED <<wire[c], session[c], stream[c], joined[c], closer[c], handler[c]>>,
           reader'[c] \notin {"none", "tag"},
           Kept(Tail(Pipe(c)), reader'[c], frame'[c], stopRetry', Reaches(c), closer[c])
    PROVE  StreamInv(c)'
<1>1. inbox'[c] = Tail(inbox[c])
  BY DEF Consume, TypeOK, StreamTypeOK, EndsOK, PipesOK, RunOK, ReaderOK, ServerOK
<1>a. /\ PipesOK
      /\ inbox[c] \in Seq(Chunks) /\ wire[c] \in Seq(Chunks)
      /\ Len(inbox[c]) \in Nat /\ Len(wire[c]) \in Nat
  BY PipeFacts
<1>c. wire'[c] = wire[c] /\ closer'[c] = closer[c]
  OBVIOUS
<1>b. Tail(inbox[c]) \o wire[c] = Tail(inbox[c] \o wire[c])
  BY <1>a, ConcatFacts
<1>2. Pipe(c)' = Tail(Pipe(c))
  BY <1>1, <1>b, <1>c DEF Pipe
<1>3. Reaches(c)' = Reaches(c)
  BY DEF Reaches, Writable
<1>4. CloseKept(c)'
  BY <1>2, <1>3 DEF CloseKept
<1>5. Unserved(c)'
  BY <1>2 DEF StreamInv, Unserved
<1>6. TagFirst(c)'
  BY DEF TagFirst
<1>7. InWindow(c)'
  <2>1. Len(inbox'[c]) = Len(inbox[c]) - 1 /\ Len(inbox'[c]) \in Nat
    BY <1>1, <1>a, TailFacts DEF PipesOK
  <2>2. QED BY <1>a, <1>c, <2>1, EventStreamAssumption DEF PipesOK, InWindow, StreamInv
<1>8. QED BY <1>4, <1>5, <1>6, <1>7 DEF StreamInv

\* The agent's end of c closes.
LEMMA LeaveKeeps ==
    ASSUME NEW c \in Conns, TypeOK, PipesOK', StreamInv(c), LeaveSession(c),
           UNCHANGED <<inbox[c], reader[c], frame[c], session[c], stream[c],
                       closer[c], handler[c], stopRetry>>
    PROVE  StreamInv(c)'
<1>1. joined'[c] = "closed" /\ wire'[c] = <<>> /\ inbox'[c] = inbox[c]
  BY DEF LeaveSession, TypeOK, StreamTypeOK, EndsOK, PipesOK, RunOK, ReaderOK, ServerOK
<1>a. /\ PipesOK
      /\ inbox[c] \in Seq(Chunks) /\ wire[c] \in Seq(Chunks) /\ Pipe(c) \in Seq(Chunks)
      /\ Len(inbox[c]) \in Nat /\ Len(wire[c]) \in Nat
      /\ Len(Pipe(c)) = Len(inbox[c]) + Len(wire[c])
  BY PipeFacts
<1>b. /\ inbox[c] \o <<>> = inbox[c]
      /\ \A k \in 1 .. Len(inbox[c]) : (inbox[c] \o wire[c])[k] = inbox[c][k]
  BY <1>a, ConcatFacts
<1>2. Pipe(c)' = inbox[c]
  BY <1>1, <1>b DEF Pipe
<1>3. ~ Reaches(c)'
  BY <1>1 DEF Reaches
<1>4. /\ Len(inbox[c]) <= Len(Pipe(c))
      /\ \A k \in 1 .. Len(inbox[c]) : inbox[c][k] = Pipe(c)[k]
  <2>1. Len(inbox[c]) <= Len(Pipe(c))
    BY <1>a DEF PipesOK
  <2>2. QED BY <1>b, <2>1 DEF Pipe
<1>5. Kept(Pipe(c), reader[c], frame[c], stopRetry, Reaches(c), closer[c])
  BY DEF StreamInv, CloseKept
<1>6. Kept(inbox[c], reader[c], frame[c], stopRetry, FALSE, closer[c])
  BY <1>a, <1>4, <1>5, KeptByLoss
<1>7. CloseKept(c)'
  <2>1. Reaches(c)' = FALSE
    BY <1>3 DEF Reaches
  <2>2. QED BY <1>2, <1>6, <2>1 DEF CloseKept
<1>8. Unserved(c)'
  <2>1. Pipe(c) = <<>> => inbox[c] = <<>>
    BY <1>a, EmptySeq DEF PipesOK
  <2>2. QED BY <1>2, <2>1 DEF StreamInv, Unserved
<1>9. TagFirst(c)'
  <2>1. inbox[c] # <<>> => Pipe(c) # <<>> /\ inbox[c][1] = Pipe(c)[1]
    <3>1. SUFFICES ASSUME inbox[c] # <<>>
                   PROVE  Pipe(c) # <<>> /\ inbox[c][1] = Pipe(c)[1]
      OBVIOUS
    <3>2. Len(inbox[c]) # 0
      BY <1>a, <3>1, EmptySeq DEF PipesOK
    <3>3. Len(Pipe(c)) # 0 /\ 1 \in 1 .. Len(inbox[c])
      BY <1>a, <3>2 DEF PipesOK
    <3>4. Pipe(c) # <<>>
      BY <1>a, <3>3, EmptySeq
    <3>5. QED BY <1>4, <3>3, <3>4
  <2>2. QED BY <1>1, <1>2, <2>1 DEF StreamInv, TagFirst
<1>10. InWindow(c)'
  <2>1. Len(wire'[c]) = 0
    BY <1>1 DEF PipesOK
  <2>2. QED BY <1>1, <1>a, <2>1, EventStreamAssumption DEF PipesOK, StreamInv, InWindow
<1>11. QED BY <1>7, <1>8, <1>9, <1>10 DEF StreamInv

\* The reader of c gets on, or gives up, without a chunk.
LEMMA MoveKeeps ==
    ASSUME NEW c \in Conns, TypeOK, StreamInv(c),
           UNCHANGED <<inbox[c], wire[c], session[c], stream[c], joined[c],
                       closer[c], handler[c]>>,
           UNCHANGED stopRetry,
           \/ reader[c] = "none" /\ reader'[c] = "tag"
           \/ reader[c] = "report" /\ reader'[c] = "head"
           \/ reader'[c] = "cutoff"
    PROVE  StreamInv(c)'
<1>1. Kept(Pipe(c), reader'[c], frame'[c], stopRetry, Reaches(c), closer[c])
  BY KeptByMove DEF StreamInv, CloseKept
<1>2. Pipe(c)' = Pipe(c) /\ Reaches(c)' = Reaches(c)
  BY DEF Pipe, Reaches, Writable
<1>3. CloseKept(c)'
  BY <1>1, <1>2 DEF CloseKept
<1>4. Unserved(c)' /\ TagFirst(c)' /\ InWindow(c)'
  BY <1>2 DEF StreamInv, Unserved, TagFirst, InWindow
<1>5. QED BY <1>3, <1>4 DEF StreamInv

\* One end of c, or the close, gets on without writing: what could not be
\* written before still cannot.
LEMMA EndKeeps ==
    ASSUME NEW c \in Conns, TypeOK, StreamInv(c),
           UNCHANGED <<inbox[c], wire[c], reader[c], frame[c], joined[c]>>,
           UNCHANGED stopRetry,
           stream'[c] \in {stream[c], "ended", "reset"},
           stream'[c] # stream[c] => stream[c] = "open",
           session'[c] \in {session[c], "closed"},
           UNCHANGED handler[c] \/ handler'[c] \in {"release", "close", "done"},
           handler'[c] \in {"none", "hello", "ack", "open"} =>
              UNCHANGED <<stream[c], session[c], closer[c]>>,
           closer'[c].at = "idle" => closer'[c] = closer[c],
           closer[c].at \in {"session", "done"} => closer'[c].at \in {"session", "done"},
           Kept(Pipe(c), reader[c], frame[c], stopRetry, Reaches(c)', closer'[c])
    PROVE  StreamInv(c)'
<1>1. Pipe(c)' = Pipe(c)
  BY DEF Pipe
<1>2. CloseKept(c)'
  BY <1>1 DEF CloseKept
<1>3. Unserved(c)'
  BY <1>1 DEF StreamInv, Unserved
<1>4. TagFirst(c)'
  BY <1>1 DEF StreamInv, TagFirst
<1>5. InWindow(c)'
  BY DEF StreamInv, InWindow
<1>6. QED BY <1>2, <1>3, <1>4, <1>5 DEF StreamInv

-----------------------------------------------------------------------------
(* Types.  That no more waits than the window allows is part of StreamInv. *)

LEMMA SendTyped ==
    ASSUME NEW c \in Conns, NEW x \in Chunks, TypeOK, Send(c, x)
    PROVE  wire' \in [Conns -> Seq(Chunks)]
<1>1. wire \in [Conns -> Seq(Chunks)]
  BY DEF TypeOK, StreamTypeOK, EndsOK, PipesOK, RunOK, ReaderOK, ServerOK
<1>2. Append(wire[c], x) \in Seq(Chunks)
  BY <1>1, AppendProperties
<1>3. wire' = wire \/ wire' = [wire EXCEPT ![c] = Append(wire[c], x)]
  BY DEF Send
<1>4. QED BY <1>1, <1>2, <1>3

LEMMA LeaveTyped ==
    ASSUME NEW c \in Conns, TypeOK, LeaveSession(c)
    PROVE  /\ wire' \in [Conns -> Seq(Chunks)]
           /\ joined' \in [Conns -> {"none", "open", "closed"}]
<1>1. <<>> \in Seq(Chunks)
  BY EmptySeq
<1>2. QED BY <1>1 DEF LeaveSession, TypeOK, StreamTypeOK, EndsOK, PipesOK, RunOK, ReaderOK, ServerOK

LEMMA ConsumeTyped ==
    ASSUME NEW c \in Conns, TypeOK, inbox[c] # <<>>, Consume(c)
    PROVE  /\ inbox' \in [Conns -> Seq(Chunks)]
           /\ Head(inbox[c]) \in Chunks
<1>1. inbox \in [Conns -> Seq(Chunks)]
  BY DEF TypeOK, StreamTypeOK, EndsOK, PipesOK, RunOK, ReaderOK, ServerOK
<1>2. Tail(inbox[c]) \in Seq(Chunks) /\ Head(inbox[c]) \in Chunks
  BY <1>1, HeadTailProperties
<1>3. QED BY <1>1, <1>2 DEF Consume

LEMMA DeliverTyped ==
    ASSUME NEW c \in Conns, TypeOK, Deliver(c)
    PROVE  PipesOK'
<1>1. inbox \in [Conns -> Seq(Chunks)] /\ wire \in [Conns -> Seq(Chunks)]
  BY DEF TypeOK, StreamTypeOK, EndsOK, PipesOK, RunOK, ReaderOK, ServerOK
<1>2. Tail(wire[c]) \in Seq(Chunks) /\ Head(wire[c]) \in Chunks
  BY <1>1, HeadTailProperties DEF Deliver
<1>3. Append(inbox[c], Head(wire[c])) \in Seq(Chunks)
  BY <1>1, <1>2, AppendProperties
<1>4. QED BY <1>1, <1>2, <1>3 DEF Deliver, PipesOK

\* The chunks that emitters and closes write are chunks.
LEMMA WritesTyped ==
    ASSUME NEW c \in Conns, NEW part \in {"head", "body"}, TypeOK,
           \/ Write(c, <<part, Closer>>)
           \/ \E e \in Emitters : Write(c, <<part, e>>)
    PROVE  wire' \in [Conns -> Seq(Chunks)]
<1>1. <<part, Closer>> \in Chunks /\ \A e \in Emitters : <<part, e>> \in Chunks
  BY DEF Chunks, Writers
<1>2. QED BY <1>1, SendTyped DEF Write

PipesSame == UNCHANGED <<wire, inbox>>

LEMMA PipesSameTyped == TypeOK /\ PipesSame => PipesOK'
  BY DEF TypeOK, StreamTypeOK, EndsOK, PipesOK, RunOK, ReaderOK, ServerOK, PipesSame, PipesOK

\* What is on the wires and in the inboxes stays well typed.
LEMMA PipesStep ==
    ASSUME TypeOK, RunInv, Next
    PROVE  PipesOK'
<1>a. wire \in [Conns -> Seq(Chunks)] /\ inbox \in [Conns -> Seq(Chunks)]
  BY DEF TypeOK, StreamTypeOK, EndsOK, PipesOK, RunOK, ReaderOK, ServerOK
<1>1. ASSUME RunStep
      PROVE  PipesOK'
  <2>1. CASE Dial \/ DialFails \/ ReadAck \/ AcceptStream \/ AcceptFails \/ Drain
    BY <2>1, PipesSameTyped
       DEF PipesSame, Dial, DialFails, ReadAck, AcceptStream, AcceptFails, Drain, streamVars
  <2>2. CASE ReadRefusal \/ AckFails \/ Interrupt \/ Hangup
    <3>1. current \in Conns
      BY <2>2 DEF RunInv, ReadRefusal, AckFails, Interrupt, Hangup
    <3>2. LeaveSession(current) /\ UNCHANGED inbox
      BY <2>2 DEF ReadRefusal, AckFails, Interrupt, Hangup
    <3>3. QED BY <1>a, <3>1, <3>2, LeaveTyped DEF PipesOK
  <2>3. CASE ReturnCancelled \/ ReturnRefused \/ ReturnTold \/ ReturnLost
             \/ GoesOn \/ Notify \/ WaitInterrupted \/ WaitElapsed
    BY <2>3, PipesSameTyped
       DEF PipesSame, ReturnCancelled, ReturnRefused, ReturnTold, ReturnLost, Return,
           GoesOn, Notify, WaitInterrupted, WaitElapsed, streamVars
  <2>4. QED BY <1>1, <2>1, <2>2, <2>3 DEF RunStep
<1>2. CASE Cancel
  BY <1>2, PipesSameTyped DEF PipesSame, Cancel, streamVars
<1>3. ASSUME NEW c \in Conns, Reads(c) \/ Report(c) \/ ResetStream(c)
      PROVE  PipesOK'
  <2>1. CASE ReadEOF(c) \/ Report(c) \/ ResetStream(c)
    BY <2>1, PipesSameTyped DEF PipesSame, ReadEOF, Report, ResetStream, ReaderUnchanged
  <2>2. CASE ReadTag(c) \/ ReadHead(c) \/ ReadBody(c) \/ ReadGarbage(c)
    <3>1. Consume(c) /\ inbox[c] # <<>> /\ UNCHANGED wire
      BY <2>2 DEF ReadTag, ReadHead, ReadBody, ReadGarbage, ReaderUnchanged
    <3>2. QED BY <1>a, <3>1, ConsumeTyped DEF PipesOK
  <2>3. QED BY <1>3, <2>1, <2>2 DEF Reads
<1>4. ASSUME NEW c \in Conns, Handles(c)
      PROVE  PipesOK'
  <2>1. CASE Serve(c)
    <3>1. TagChunk \in Chunks
      BY ChunkFacts
    <3>2. Send(c, TagChunk) \/ UNCHANGED wire
      BY <2>1 DEF Serve, OpenSession, TagChunk
    <3>3. UNCHANGED inbox
      BY <2>1 DEF Serve, OpenSession
    <3>4. QED BY <1>a, <3>1, <3>2, <3>3, SendTyped DEF PipesOK
  <2>2. CASE ReleaseCloses(c)
    BY <2>2, PipesSameTyped DEF PipesSame, ReleaseCloses, CloseBegin, streamVars
  <2>3. CASE Grant(c) \/ RefuseTaken(c) \/ RefuseOther(c) \/ HelloLost(c)
    BY <2>3, PipesSameTyped
       DEF PipesSame, Grant, RefuseTaken, RefuseOther, HelloLost, streamVars
  <2>4. CASE SendAck(c) \/ HandshakeFails(c) \/ SessionOver(c) \/ Release(c)
    BY <2>4, PipesSameTyped
       DEF PipesSame, SendAck, HandshakeFails, SessionOver, Release, streamVars
  <2>5. QED BY <1>4, <2>1, <2>2, <2>3, <2>4 DEF Handles
<1>5. ASSUME NEW c \in Conns, Closes(c)
      PROVE  PipesOK'
  <2>1. CASE CloseHead(c) \/ CloseBody(c)
    <3>1. PICK part \in {"head", "body"} : Write(c, <<part, Closer>>) /\ UNCHANGED inbox
      BY <2>1 DEF CloseHead, CloseBody, CloseWrites
    <3>2. QED BY <1>a, <3>1, WritesTyped DEF PipesOK
  <2>2. CASE CloseStream(c)
    <3>1. FinChunk \in Chunks
      BY ChunkFacts
    <3>2. Send(c, FinChunk) \/ UNCHANGED wire
      BY <2>2 DEF CloseStream, FinChunk
    <3>3. UNCHANGED inbox
      BY <2>2 DEF CloseStream
    <3>4. QED BY <1>a, <3>1, <3>2, <3>3, SendTyped DEF PipesOK
  <2>3. CASE CloseFails(c) \/ CloseSession(c)
    BY <2>3, PipesSameTyped DEF PipesSame, CloseFails, CloseSession
  <2>4. QED BY <1>5, <2>1, <2>2, <2>3 DEF Closes
<1>6. ASSUME NEW c \in Conns, OperatorCloses(c) \/ ShutdownCloses(c)
      PROVE  PipesOK'
  BY <1>6, PipesSameTyped DEF PipesSame, OperatorCloses, ShutdownCloses, CloseBegin
<1>7. ASSUME NEW c \in Conns, Carries(c) \/ Breaks(c)
      PROVE  PipesOK'
  <2>1. CASE Deliver(c)
    BY <2>1, DeliverTyped
  <2>2. CASE AgentSeesEnd(c)
    <3>1. LeaveSession(c) /\ UNCHANGED inbox
      BY <2>2 DEF AgentSeesEnd
    <3>2. QED BY <1>a, <3>1, LeaveTyped DEF PipesOK
  <2>3. CASE ServerSeesEnd(c) \/ Cut(c)
    BY <2>3, PipesSameTyped DEF PipesSame, ServerSeesEnd, Cut
  <2>4. QED BY <1>7, <2>1, <2>2, <2>3 DEF Carries, Breaks
<1>8. ASSUME NEW e \in Emitters, Emits(e)
      PROVE  PipesOK'
  <2>1. CASE EmitHead(e) \/ EmitBody(e)
    <3>1. PICK part \in {"head", "body"} :
             Write(emitter[e].on, <<part, e>>) /\ UNCHANGED inbox
      BY <2>1 DEF EmitHead, EmitBody, EmitWrites
    <3>2. emitter[e].on \in Conns
      BY DEF TypeOK, StreamTypeOK, EndsOK, PipesOK, RunOK, ReaderOK, ServerOK
    <3>3. QED BY <1>a, <3>1, <3>2, WritesTyped DEF PipesOK
  <2>2. CASE EmitFails(e)
    BY <2>2, PipesSameTyped DEF PipesSame, EmitFails
  <2>3. QED BY <1>8, <2>1, <2>2 DEF Emits
<1>9. ASSUME NEW e \in Emitters, NEW c \in Conns, EdgeEmits(e, c)
      PROVE  PipesOK'
  BY <1>9, PipesSameTyped DEF PipesSame, EdgeEmits, EmitStart
<1>10. QED BY <1>1, <1>2, <1>3, <1>4, <1>5, <1>6, <1>7, <1>8, <1>9 DEF Next

-----------------------------------------------------------------------------
(* Every step keeps the invariant of every stream.                         *)

StreamsKept == \A d \in Conns : StreamInv(d)'

LEMMA UntouchedAll ==
    ASSUME IInv, stopRetry' \in BOOLEAN, \A d \in Conns : Untouched(d)
    PROVE  StreamsKept
  BY UntouchedKeeps DEF IInv, StreamsKept

\* A step touches one connection only.
LEMMA UntouchedOthers ==
    ASSUME NEW c \in Conns, IInv, stopRetry' \in BOOLEAN,
           \A d \in Conns \ {c} : Untouched(d),
           StreamInv(c)'
    PROVE  StreamsKept
  BY UntouchedKeeps DEF IInv, StreamsKept

\* What the run of the agent does to the streams.
LEMMA RunKeepsStreams ==
    ASSUME IInv, PipesOK', RunStep \/ Cancel
    PROVE  StreamsKept
<1> USE DEF Untouched, Touches
<1>t. /\ TypeOK /\ \A d \in Conns : StreamInv(d)
      /\ joined \in [Conns -> {"none", "open", "closed"}]
      /\ handler \in [Conns -> {"none", "hello", "ack", "open", "serve", "release", "close", "done"}]
      /\ reader \in [Conns -> {"none", "tag", "head", "body", "report",
                               "finished", "cutoff", "garbled"}]
      /\ wire \in [Conns -> Seq(Chunks)]
      /\ stopRetry \in BOOLEAN
  BY DEF IInv, TypeOK, StreamTypeOK, EndsOK, PipesOK, RunOK, ReaderOK, ServerOK
<1>1. CASE Dial
  <2>1. PICK c \in Conns : c = current + 1
    BY <1>1, EventStreamAssumption DEF IInv, TypeOK, RunOK, Dial, Conns
  <2>2. handler[c] = "none"
    BY <2>1 DEF IInv, RunInv, TypeOK, RunOK, Conns
  <2>3. \A d \in Conns \ {c} : Untouched(d)
    BY <1>1, <1>t, <2>1 DEF Dial, readerVars
  <2>4. stopRetry' = stopRetry
    BY <1>1 DEF Dial
  <2>5. StreamInv(c)'
    <3>1. /\ handler'[c] = "hello"
          /\ UNCHANGED <<inbox, wire, reader, frame, session, stream, joined, closer, stopRetry>>
      BY <1>1, <1>t, <2>1 DEF Dial, readerVars
    <3>2. StreamInv(c)
      BY <1>t, <2>1
    <3>3. StreamInv(c)'
      BY <2>2, <3>1, <3>2 DEF StreamInv, CloseKept, Pipe, Reaches, Writable, Unserved, TagFirst, InWindow
    <3>4. QED BY <3>3
  <2>6. stopRetry' \in BOOLEAN
    BY <1>t, <2>4
  <2>7. QED BY <2>1, <2>3, <2>5, <2>6, UntouchedOthers
<1>2. CASE ReadAck
  <2>1. PICK c \in Conns : c = current /\ joined[c] = "none"
    BY <1>2 DEF IInv, RunInv, ReadAck
  <2>2. \A d \in Conns \ {c} : Untouched(d)
    BY <1>2, <1>t, <2>1 DEF ReadAck, readerVars, serverVars
  <2>3. /\ joined'[c] = "open"
        /\ UNCHANGED <<inbox, wire, reader, frame, session, stream, handler, closer, stopRetry>>
    BY <1>2, <1>t, <2>1 DEF ReadAck, readerVars, serverVars
  <2>4. StreamInv(c)'
    BY <1>t, <2>1, <2>3
       DEF StreamInv, CloseKept, Pipe, Reaches, Writable, Unserved, TagFirst, InWindow
  <2>5. stopRetry' \in BOOLEAN
    BY <1>t, <2>3
  <2>6. QED BY <2>1, <2>2, <2>4, <2>5, UntouchedOthers
<1>3. CASE ReadRefusal \/ AckFails \/ Interrupt \/ Hangup
  <2>1. PICK c \in Conns : c = current
    BY <1>3 DEF IInv, RunInv, ReadRefusal, AckFails, Interrupt, Hangup
  <2>2. /\ LeaveSession(c)
        /\ UNCHANGED <<inbox, reader, frame, session, stream, handler, closer, stopRetry>>
    BY <1>3, <2>1 DEF ReadRefusal, AckFails, Interrupt, Hangup, readerVars, serverVars, runVars
  <2>3. \A d \in Conns \ {c} : Untouched(d)
    BY <1>t, <2>2 DEF LeaveSession
  <2>4. StreamInv(c)'
    BY <1>t, <2>1, <2>2, LeaveKeeps
  <2>5. stopRetry' \in BOOLEAN
    BY <1>t, <2>2
  <2>6. QED BY <2>1, <2>3, <2>4, <2>5, UntouchedOthers
<1>4. CASE AcceptStream
  <2>1. PICK c \in Conns : c = current
    BY <1>4 DEF IInv, RunInv, AcceptStream
  <2>2. /\ reader[c] = "none" /\ reader'[c] = "tag"
        /\ UNCHANGED <<inbox, wire, frame, session, stream, joined, handler, closer, stopRetry>>
    BY <1>4, <1>t, <2>1 DEF AcceptStream, streamVars, serverVars, runVars
  <2>3. \A d \in Conns \ {c} : Untouched(d)
    BY <1>4, <1>t, <2>1, <2>2 DEF AcceptStream
  <2>4. StreamInv(c)'
    BY <1>t, <2>1, <2>2, MoveKeeps
  <2>5. stopRetry' \in BOOLEAN
    BY <1>t, <2>2
  <2>6. QED BY <2>1, <2>3, <2>4, <2>5, UntouchedOthers
<1>5. CASE DialFails \/ AcceptFails \/ Drain \/ ReturnCancelled \/ ReturnRefused
           \/ ReturnTold \/ ReturnLost \/ GoesOn \/ Notify \/ WaitInterrupted
           \/ WaitElapsed \/ Cancel
  <2>1. UNCHANGED <<streamVars, readerVars, serverVars, stopRetry>>
    BY <1>5 DEF DialFails, AcceptFails, Drain, ReturnCancelled, ReturnRefused, ReturnTold,
                ReturnLost, Return, GoesOn, Notify, WaitInterrupted, WaitElapsed, Cancel
  <2>2. \A d \in Conns : Untouched(d)
    BY <2>1 DEF streamVars, readerVars, serverVars
  <2>3. stopRetry' \in BOOLEAN
    BY <1>t, <2>1
  <2>4. QED BY <2>2, <2>3, UntouchedAll
<1>6. QED BY <1>1, <1>2, <1>3, <1>4, <1>5 DEF RunStep

\* And its readers, whose every move the lemmas on Kept are about.
LEMMA ReaderKeepsStreams ==
    ASSUME IInv, PipesOK', NEW c \in Conns, Reads(c) \/ Report(c) \/ ResetStream(c)
    PROVE  StreamsKept
<1> USE DEF Untouched, Touches
<1>t. /\ TypeOK /\ StreamInv(c)
      /\ stream \in [Conns -> {"none", "open", "ended", "reset"}]
      /\ reader \in [Conns -> {"none", "tag", "head", "body", "report",
                               "finished", "cutoff", "garbled"}]
      /\ frame \in [Conns -> Writers \cup {NoWriter}]
      /\ inbox \in [Conns -> Seq(Chunks)] /\ wire \in [Conns -> Seq(Chunks)]
      /\ closer \in [Conns -> [at : {"idle", "head", "body", "finish", "session", "done"},
                               final : BOOLEAN]]
      /\ stopRetry \in BOOLEAN
  BY DEF IInv, TypeOK, StreamTypeOK, EndsOK, PipesOK, RunOK, ReaderOK, ServerOK
<1>k. Kept(Pipe(c), reader[c], frame[c], stopRetry, Reaches(c), closer[c])
  BY <1>t DEF StreamInv, CloseKept
<1>h. ASSUME inbox[c] # <<>>
      PROVE  /\ Pipe(c) \in Seq(Chunks) /\ Pipe(c) # <<>>
             /\ Head(Pipe(c)) = Head(inbox[c]) /\ Head(Pipe(c)) = Pipe(c)[1]
             /\ Head(inbox[c]) \in Chunks
  <2>1. Pipe(c) # <<>> /\ Head(Pipe(c)) = Head(inbox[c])
    BY <1>t, <1>h, ConcatFacts DEF Pipe
  <2>2. Pipe(c) \in Seq(Chunks)
    BY <1>t, PipeFacts
  <2>3. QED BY <2>1, <2>2, TailFacts
<1>1. CASE ReadTag(c)
  <2>1. /\ reader[c] = "tag" /\ reader'[c] = "head" /\ inbox[c] # <<>> /\ Consume(c)
        /\ UNCHANGED <<wire, frame, session, stream, joined, handler, closer, stopRetry>>
    BY <1>1, <1>t DEF ReadTag, ReaderUnchanged, serverVars
  <2>2. Head(Pipe(c)) = TagChunk
    BY <1>h, <1>t, <2>1 DEF StreamInv, TagFirst
  <2>3. Kept(Tail(Pipe(c)), "head", frame[c], stopRetry, Reaches(c), closer[c])
    BY <1>h, <1>k, <2>1, <2>2, ChunkFacts, KeptBySkip
  <2>4. StreamInv(c)'
    BY <1>t, <2>1, <2>3, ConsumeKeeps
  <2>5. \A d \in Conns \ {c} : Untouched(d)
    BY <1>1, <1>t, <2>1 DEF ReadTag, Consume
  <2>6. stopRetry' \in BOOLEAN
    BY <1>t, <2>1
  <2>7. QED BY <2>4, <2>5, <2>6, UntouchedOthers
<1>2. CASE ReadHead(c)
  <2>1. /\ reader[c] = "head" /\ inbox[c] # <<>> /\ Consume(c)
        /\ UNCHANGED <<wire, session, stream, joined, handler, closer, stopRetry>>
    BY <1>2 DEF ReadHead, ReaderUnchanged, serverVars
  <2>2. ASSUME Head(inbox[c]) = FinChunk
        PROVE  StreamInv(c)'
    <3>1. reader'[c] = "finished" /\ frame'[c] = frame[c]
      BY <1>2, <1>t, <2>2 DEF ReadHead, FinChunk
    <3>2. Kept(Tail(Pipe(c)), "finished", frame[c], stopRetry, Reaches(c), closer[c])
      BY <1>h, <1>k, <2>1, <2>2, KeptByEnd
    <3>3. QED BY <1>t, <2>1, <3>1, <3>2, ConsumeKeeps
  <2>3. ASSUME Head(inbox[c]) # FinChunk
        PROVE  StreamInv(c)'
    <3>1. reader'[c] = "body" /\ frame'[c] = Head(inbox[c])[2]
      <4>1. Head(inbox[c])[1] # "fin"
        BY <1>h, <2>1, <2>3, ChunkFacts
      <4>2. QED BY <1>2, <1>t, <4>1 DEF ReadHead
    <3>2. Kept(Tail(Pipe(c)), "body", Head(inbox[c])[2], stopRetry, Reaches(c), closer[c])
      <4>1. CASE Head(inbox[c]) = CloseHeadChunk
        BY <1>h, <1>k, <2>1, <4>1, ChunkFacts, KeptByEventHead
      <4>2. CASE Head(inbox[c]) # CloseHeadChunk
        BY <1>h, <1>k, <2>1, <2>3, <4>2, KeptBySkip
      <4>3. QED BY <4>1, <4>2
    <3>3. QED BY <1>t, <2>1, <3>1, <3>2, ConsumeKeeps
  <2>4. \A d \in Conns \ {c} : Untouched(d)
    BY <1>2, <1>t, <2>1 DEF ReadHead, Consume
  <2>5. stopRetry' \in BOOLEAN
    BY <1>t, <2>1
  <2>6. StreamInv(c)'
    BY <2>2, <2>3
  <2>7. QED BY <2>4, <2>5, <2>6, UntouchedOthers
<1>3. CASE ReadBody(c)
  <2>1. /\ reader[c] = "body" /\ inbox[c] # <<>> /\ Consume(c)
        /\ Head(inbox[c]) = <<"body", frame[c]>>
        /\ stopRetry' = (stopRetry \/ (frame[c] = Closer /\ closer[c].final))
        /\ reader'[c] = "report" /\ frame'[c] = frame[c]
        /\ UNCHANGED <<wire, session, stream, joined, handler, closer>>
    BY <1>3, <1>t DEF ReadBody, ReaderUnchanged, serverVars
  <2>2. stopRetry' \in BOOLEAN /\ (stopRetry => stopRetry')
    BY <1>t, <2>1
  <2>3. Kept(Tail(Pipe(c)), "report", frame[c], stopRetry', Reaches(c), closer[c])
    BY <1>h, <1>k, <1>t, <2>1, <2>2, KeptByPayload
  <2>4. StreamInv(c)'
    BY <1>t, <2>1, <2>3, ConsumeKeeps
  <2>5. \A d \in Conns \ {c} : Untouched(d)
    BY <1>3, <1>t, <2>1, <2>2 DEF ReadBody, Consume
  <2>6. QED BY <2>2, <2>4, <2>5, UntouchedOthers
<1>4. CASE ReadGarbage(c)
  <2>1. /\ reader[c] = "body" /\ inbox[c] # <<>> /\ Consume(c)
        /\ reader'[c] = "garbled"
        /\ UNCHANGED <<wire, session, stream, joined, handler, closer, stopRetry>>
    BY <1>4, <1>t DEF ReadGarbage, ReaderUnchanged, serverVars
  <2>2. Kept(Tail(Pipe(c)), "garbled", frame'[c], stopRetry, Reaches(c), closer[c])
    BY <1>h, <1>k, <2>1, KeptByGarbage
  <2>3. StreamInv(c)'
    BY <1>t, <2>1, <2>2, ConsumeKeeps
  <2>4. \A d \in Conns \ {c} : Untouched(d)
    BY <1>4, <1>t, <2>1 DEF ReadGarbage, Consume
  <2>5. stopRetry' \in BOOLEAN
    BY <1>t, <2>1
  <2>6. QED BY <2>3, <2>4, <2>5, UntouchedOthers
<1>5. CASE Report(c) \/ ReadEOF(c)
  <2>1. /\ \/ reader[c] = "report" /\ reader'[c] = "head"
           \/ reader'[c] = "cutoff"
        /\ UNCHANGED <<inbox, wire, session, stream, joined, handler, closer, stopRetry>>
    BY <1>5, <1>t DEF Report, ReadEOF, ReaderUnchanged, serverVars
  <2>2. StreamInv(c)'
    BY <1>t, <2>1, MoveKeeps
  <2>3. \A d \in Conns \ {c} : Untouched(d)
    BY <1>5, <1>t, <2>1 DEF Report, ReadEOF
  <2>4. stopRetry' \in BOOLEAN
    BY <1>t, <2>1
  <2>5. QED BY <2>2, <2>3, <2>4, UntouchedOthers
<1>6. CASE ResetStream(c)
  <2>1. /\ stream[c] = "open" /\ stream'[c] = "reset"
        /\ UNCHANGED <<inbox, wire, reader, frame, session, joined, handler, closer, stopRetry>>
    BY <1>6, <1>t DEF ResetStream, readerVars, serverVars, runVars
  <2>2. handler[c] \notin {"none", "hello", "ack", "open"}
    BY <1>t, <2>1 DEF StreamInv, Unserved
  <2>3. ~ Reaches(c)'
    BY <2>1 DEF Reaches, Writable
  <2>4. Kept(Pipe(c), reader[c], frame[c], stopRetry, Reaches(c)', closer[c])
    BY <1>k, <1>t, <2>3, KeptLess DEF Reaches, Writable
  <2>5. StreamInv(c)'
    BY <1>t, <2>1, <2>2, <2>4, EndKeeps
  <2>6. \A d \in Conns \ {c} : Untouched(d)
    BY <1>6, <1>t, <2>1 DEF ResetStream
  <2>7. stopRetry' \in BOOLEAN
    BY <1>t, <2>1
  <2>8. QED BY <2>5, <2>6, <2>7, UntouchedOthers
<1>7. QED BY <1>1, <1>2, <1>3, <1>4, <1>5, <1>6 DEF Reads

\* The server's handler.  Only Serve opens a stream, and writes its kind byte.
LEMMA HandlerKeepsStreams ==
    ASSUME IInv, PipesOK', NEW c \in Conns, Handles(c)
    PROVE  StreamsKept
<1> USE DEF Untouched, Touches
<1>t. /\ TypeOK /\ StreamInv(c)
      /\ stream \in [Conns -> {"none", "open", "ended", "reset"}]
      /\ session \in [Conns -> {"none", "open", "closed"}]
      /\ handler \in [Conns -> {"none", "hello", "ack", "open", "serve", "release", "close", "done"}]
      /\ wire \in [Conns -> Seq(Chunks)] /\ inbox \in [Conns -> Seq(Chunks)]
      /\ closer \in [Conns -> [at : {"idle", "head", "body", "finish", "session", "done"},
                               final : BOOLEAN]]
      /\ stopRetry \in BOOLEAN
  BY DEF IInv, TypeOK, StreamTypeOK, EndsOK, PipesOK, RunOK, ReaderOK, ServerOK
<1>k. Kept(Pipe(c), reader[c], frame[c], stopRetry, Reaches(c), closer[c])
  BY <1>t DEF StreamInv, CloseKept
<1>s. stopRetry' = stopRetry /\ stopRetry' \in BOOLEAN
  BY <1>t DEF Handles, Grant, RefuseTaken, RefuseOther, HelloLost, SendAck, HandshakeFails,
              Serve, SessionOver, Release, ReleaseCloses, runVars
<1>1. CASE Grant(c) \/ RefuseTaken(c) \/ RefuseOther(c) \/ HelloLost(c) \/ SendAck(c)
  <2>1. /\ handler[c] \in {"hello", "ack"}
        /\ UNCHANGED <<inbox, wire, reader, frame, session, stream, joined, closer, stopRetry>>
    BY <1>1 DEF Grant, RefuseTaken, RefuseOther, HelloLost, SendAck,
                streamVars, readerVars, runVars
  <2>2. \A d \in Conns \ {c} : Untouched(d)
    BY <1>1, <1>t, <2>1 DEF Grant, RefuseTaken, RefuseOther, HelloLost, SendAck
  <2>3. StreamInv(c)'
    BY <1>t, <2>1 DEF StreamInv, CloseKept, Pipe, Reaches, Writable, Unserved, TagFirst, InWindow
  <2>4. QED BY <1>s, <2>2, <2>3, UntouchedOthers
<1>2. CASE HandshakeFails(c) \/ SessionOver(c) \/ Release(c)
  <2>1. /\ handler'[c] \in {"release", "close"}
        /\ UNCHANGED <<inbox, wire, reader, frame, session, stream, joined, closer, stopRetry>>
    BY <1>2, <1>t DEF HandshakeFails, SessionOver, Release, streamVars, readerVars, runVars
  <2>2. \A d \in Conns \ {c} : Untouched(d)
    BY <1>2, <1>t, <2>1 DEF HandshakeFails, SessionOver, Release
  <2>3. StreamInv(c)'
    BY <1>t, <2>1 DEF StreamInv, CloseKept, Pipe, Reaches, Writable, Unserved, TagFirst, InWindow
  <2>4. QED BY <1>s, <2>2, <2>3, UntouchedOthers
<1>3. CASE Serve(c)
  <2>1. /\ handler[c] = "open" /\ handler'[c] = "serve"
        /\ UNCHANGED <<inbox, reader, frame, joined, closer, stopRetry>>
    BY <1>3, <1>t DEF Serve, OpenSession, readerVars, runVars
  <2>2. /\ session[c] = "none" /\ stream[c] = "none"
        /\ closer[c].at = "idle" /\ ~ closer[c].final /\ closer'[c] = closer[c]
        /\ Pipe(c) = <<>>
    BY <1>t, <2>1 DEF StreamInv, Unserved
  <2>3. inbox[c] = <<>> /\ wire[c] = <<>>
    <3>1. Len(inbox[c]) = 0 /\ Len(wire[c]) = 0
      BY <1>t, <2>2, PipeFacts, EmptySeq DEF PipesOK
    <3>2. QED BY <1>t, <3>1, EmptySeq
  <2>4. \/ wire' = wire /\ joined[c] = "closed"
        \/ joined[c] # "closed" /\ wire' = [wire EXCEPT ![c] = Append(@, TagChunk)]
    BY <1>3 DEF Serve, OpenSession, Send, TagChunk
  <2>5. \/ Pipe(c)' = <<>> /\ joined'[c] = "closed"
        \/ Pipe(c)' = <<TagChunk>>
    <3>1. CASE wire' = wire /\ joined[c] = "closed"
      BY <2>1, <2>2, <3>1 DEF Pipe
    <3>2. CASE wire' = [wire EXCEPT ![c] = Append(@, TagChunk)]
      <4>1. wire'[c] = <<TagChunk>> /\ inbox'[c] = <<>>
        BY <1>t, <2>1, <2>3, <3>2
      <4>2. <<>> \o <<TagChunk>> = <<TagChunk>>
        BY ChunkFacts, ConcatEmptySeq
      <4>3. QED BY <4>1, <4>2 DEF Pipe
    <3>3. QED BY <2>4, <3>1, <3>2
  <2>6. /\ <<TagChunk>> # <<>> /\ Len(<<TagChunk>>) = 1 /\ <<TagChunk>>[1] = TagChunk
        /\ TagChunk # FinChunk
    BY ChunkFacts
  <2>7. reader[c] # "finished"
    BY <1>k, <2>2 DEF Kept
  <2>8. CloseKept(c)'
    <3>1. \A k \in 1 .. Len(Pipe(c)') : Pipe(c)'[k] # FinChunk
      BY <2>5, <2>6
    <3>2. QED BY <2>1, <2>2, <2>7, <3>1 DEF CloseKept, Kept
  <2>9. Unserved(c)'
    BY <2>1 DEF Unserved
  <2>10. TagFirst(c)'
    BY <2>5, <2>6 DEF TagFirst
  <2>11. InWindow(c)'
    <3>1. Len(inbox'[c]) = 0
      BY <1>t, <2>1, <2>3
    <3>2. Len(wire'[c]) = 0 \/ Len(wire'[c]) = 1
      BY <1>t, <2>3, <2>4, ChunkFacts
    <3>3. PICK n \in {0, 1} : Len(wire'[c]) = n
      BY <3>2, Zenon
    <3>4. n + 0 <= Window
      BY <3>3, EventStreamAssumption
    <3>5. Len(wire'[c]) + Len(inbox'[c]) = n + 0
      BY <3>1, <3>3, Zenon
    <3>6. n + 0 <= Window + 1
      BY <3>3, <3>4, EventStreamAssumption
    <3>7. QED BY <3>4, <3>5, <3>6, Zenon DEF InWindow
  <2>12. StreamInv(c)'
    BY <2>1, <2>2, <2>8, <2>9, <2>10, <2>11 DEF StreamInv
  <2>13. \A d \in Conns \ {c} : Untouched(d)
    <3>1. \A d \in Conns \ {c} : wire'[d] = wire[d]
      BY <1>t, <2>4
    <3>2. \A d \in Conns \ {c} : /\ session'[d] = session[d]
                                  /\ stream'[d] = stream[d]
                                  /\ handler'[d] = handler[d]
      BY <1>3, <1>t DEF Serve, OpenSession
    <3>3. QED BY <2>1, <3>1, <3>2
  <2>14. QED BY <1>s, <2>12, <2>13, UntouchedOthers
<1>4. CASE ReleaseCloses(c)
  <2>1. /\ handler[c] = "close" /\ handler'[c] = "done"
        /\ UNCHANGED <<inbox, wire, reader, frame, session, stream, joined, stopRetry>>
    BY <1>4, <1>t DEF ReleaseCloses, CloseBegin, streamVars, readerVars, runVars
  <2>2. \/ closer' = closer
        \/ /\ closer[c].at = "idle"
           /\ closer'[c].at \in {"finish", "session"} /\ ~ closer'[c].final
           /\ \A d \in Conns \ {c} : closer'[d] = closer[d]
    BY <1>4, <1>t DEF ReleaseCloses, CloseBegin, streamVars
  <2>3. Kept(Pipe(c), reader[c], frame[c], stopRetry, Reaches(c), closer'[c])
    BY <1>k, <2>2, KeptByBegin
  <2>4. Reaches(c)' = Reaches(c)
    BY <2>1 DEF Reaches, Writable
  <2>5. StreamInv(c)'
    BY <1>t, <2>1, <2>2, <2>3, <2>4, EndKeeps
  <2>6. \A d \in Conns \ {c} : Untouched(d)
    BY <1>4, <1>t, <2>1, <2>2 DEF ReleaseCloses
  <2>7. QED BY <1>s, <2>5, <2>6, UntouchedOthers
<1>5. QED BY <1>1, <1>2, <1>3, <1>4 DEF Handles

\* An operator's close or a shutdown begins.
LEMMA CloseBeginKeepsStreams ==
    ASSUME IInv, PipesOK', NEW c \in Conns, OperatorCloses(c) \/ ShutdownCloses(c)
    PROVE  StreamsKept
<1> USE DEF Untouched, Touches
<1>t. /\ TypeOK /\ StreamInv(c)
      /\ closer \in [Conns -> [at : {"idle", "head", "body", "finish", "session", "done"},
                               final : BOOLEAN]]
      /\ stopRetry \in BOOLEAN
  BY DEF IInv, TypeOK, StreamTypeOK, EndsOK, PipesOK, RunOK, ReaderOK, ServerOK
<1>1. PICK final \in BOOLEAN : CloseBegin(c, TRUE, final) /\ session[c] # "none"
  BY DEF OperatorCloses, ShutdownCloses
<1>2. UNCHANGED <<inbox, wire, reader, frame, session, stream, joined, handler, stopRetry>>
  BY <1>1 DEF CloseBegin, OperatorCloses, ShutdownCloses, readerVars, serverVars, runVars
<1>3. /\ closer[c].at = "idle"
      /\ closer'[c].at \in {"head", "session"}
      /\ \A d \in Conns \ {c} : closer'[d] = closer[d]
  BY <1>1, <1>t DEF CloseBegin
<1>4. Kept(Pipe(c), reader[c], frame[c], stopRetry, Reaches(c), closer'[c])
  BY <1>t, <1>3, KeptByBegin DEF StreamInv, CloseKept
<1>5. handler[c] \notin {"none", "hello", "ack", "open"}
  BY <1>t, <1>1 DEF StreamInv, Unserved
<1>6. Reaches(c)' = Reaches(c)
  BY <1>2 DEF Reaches, Writable
<1>7. StreamInv(c)'
  BY <1>t, <1>2, <1>3, <1>4, <1>5, <1>6, EndKeeps
<1>8. \A d \in Conns \ {c} : Untouched(d)
  BY <1>2, <1>3
<1>9. stopRetry' \in BOOLEAN
  BY <1>t, <1>2
<1>10. QED BY <1>7, <1>8, <1>9, UntouchedOthers

\* A close goes on: what it writes is the event, and then the end.
LEMMA CloseKeepsStreams ==
    ASSUME IInv, PipesOK', NEW c \in Conns, Closes(c)
    PROVE  StreamsKept
<1> USE DEF Untouched, Touches
<1>t. /\ TypeOK /\ StreamInv(c)
      /\ closer \in [Conns -> [at : {"idle", "head", "body", "finish", "session", "done"},
                               final : BOOLEAN]]
      /\ stream \in [Conns -> {"none", "open", "ended", "reset"}]
      /\ session \in [Conns -> {"none", "open", "closed"}]
      /\ wire \in [Conns -> Seq(Chunks)] /\ inbox \in [Conns -> Seq(Chunks)]
      /\ stopRetry \in BOOLEAN
  BY DEF IInv, TypeOK, StreamTypeOK, EndsOK, PipesOK, RunOK, ReaderOK, ServerOK
<1>k. Kept(Pipe(c), reader[c], frame[c], stopRetry, Reaches(c), closer[c])
  BY <1>t DEF StreamInv, CloseKept
<1>p. Pipe(c) \in Seq(Chunks)
  BY <1>t, PipeFacts
<1>s. /\ UNCHANGED <<inbox, reader, frame, joined, handler, stopRetry>>
      /\ stopRetry' \in BOOLEAN
  BY <1>t DEF Closes, CloseHead, CloseBody, CloseWrites, CloseFails, CloseStream, CloseSession,
              OthersUnchanged, readerVars, serverVars, runVars
<1>b. Reaches(c) \in BOOLEAN
  BY DEF Reaches, Writable
<1>1. CASE CloseHead(c)
  <2>1. /\ closer[c].at = "head" /\ closer'[c].at = "body" /\ closer'[c].final = closer[c].final
        /\ Write(c, CloseHeadChunk)
        /\ UNCHANGED <<session, stream>>
    BY <1>1, <1>t DEF CloseHead, CloseWrites, CloseHeadChunk
  <2>2. Kept(IF joined[c] = "closed" THEN Pipe(c) ELSE Append(Pipe(c), CloseHeadChunk),
             reader[c], frame[c], stopRetry, Reaches(c), closer'[c])
    <3>1. CASE joined[c] = "closed"
      <4>1. Kept(Pipe(c), reader[c], frame[c], stopRetry, FALSE, closer'[c])
        BY <1>k, <2>1, KeptUnheard
      <4>2. Reaches(c) = FALSE
        BY <3>1 DEF Reaches
      <4>3. QED BY <3>1, <4>1, <4>2
    <3>2. CASE joined[c] # "closed"
      <4>1. Kept(Append(Pipe(c), CloseHeadChunk), reader[c], frame[c], stopRetry,
                 Reaches(c), closer'[c])
        BY <1>k, <1>p, <1>b, <1>t, <2>1, KeptByHead
      <4>2. QED BY <3>2, <4>1
    <3>3. QED BY <3>1, <3>2
  <2>3. CloseHeadChunk \in Chunks
    BY ChunkFacts
  <2>4. StreamInv(c)'
    BY <1>t, <1>s, <2>1, <2>2, <2>3, WriteKeeps
  <2>5. \A d \in Conns \ {c} : Untouched(d)
    BY <1>1, <1>t, <1>s, <2>1 DEF CloseHead, CloseWrites, Write, Send
  <2>6. QED BY <1>s, <2>4, <2>5, UntouchedOthers
<1>2. CASE CloseBody(c)
  <2>1. /\ closer[c].at = "body" /\ closer'[c].at = "finish" /\ closer'[c].final = closer[c].final
        /\ Write(c, CloseBodyChunk)
        /\ UNCHANGED <<session, stream>>
    BY <1>2, <1>t DEF CloseBody, CloseWrites, CloseBodyChunk
  <2>2. Kept(IF joined[c] = "closed" THEN Pipe(c) ELSE Append(Pipe(c), CloseBodyChunk),
             reader[c], frame[c], stopRetry, Reaches(c), closer'[c])
    <3>1. CASE joined[c] = "closed"
      <4>1. Kept(Pipe(c), reader[c], frame[c], stopRetry, FALSE, closer'[c])
        BY <1>k, <2>1, KeptUnheard
      <4>2. Reaches(c) = FALSE
        BY <3>1 DEF Reaches
      <4>3. QED BY <3>1, <4>1, <4>2
    <3>2. CASE joined[c] # "closed"
      <4>1. Reaches(c) = TRUE
        BY <2>1, <3>2 DEF Reaches, Write, Writable
      <4>2. Kept(Pipe(c), reader[c], frame[c], stopRetry, TRUE, closer[c])
        BY <1>k, <4>1
      <4>3. Kept(Append(Pipe(c), CloseBodyChunk), reader[c], frame[c], stopRetry,
                 TRUE, closer'[c])
        BY <1>p, <1>t, <2>1, <4>2, KeptByBody
      <4>4. QED BY <3>2, <4>1, <4>3
    <3>3. QED BY <3>1, <3>2
  <2>3. CloseBodyChunk \in Chunks
    BY ChunkFacts
  <2>4. StreamInv(c)'
    BY <1>t, <1>s, <2>1, <2>2, <2>3, WriteKeeps
  <2>5. \A d \in Conns \ {c} : Untouched(d)
    BY <1>2, <1>t, <1>s, <2>1 DEF CloseBody, CloseWrites, Write, Send
  <2>6. QED BY <1>s, <2>4, <2>5, UntouchedOthers
<1>3. CASE CloseFails(c) \/ CloseSession(c) \/ (CloseStream(c) /\ UNCHANGED wire)
  <2>1. /\ closer[c].at # "idle" /\ closer'[c].at \in {"finish", "session", "done"}
        /\ closer'[c].final = closer[c].final
        /\ closer[c].at \in {"session", "done"} => closer'[c].at \in {"session", "done"}
        /\ \A d \in Conns \ {c} : closer'[d] = closer[d]
    BY <1>3, <1>t DEF CloseFails, CloseSession, CloseStream
  <2>2. /\ stream'[c] \in {stream[c], "ended"}
        /\ stream'[c] # stream[c] => stream[c] = "open"
        /\ session'[c] \in {session[c], "closed"}
        /\ wire' = wire
        /\ \A d \in Conns \ {c} : stream'[d] = stream[d] /\ session'[d] = session[d]
    BY <1>3, <1>t DEF CloseFails, CloseSession, CloseStream
  <2>3. ~ Writable(c)'
    BY <1>3, <1>t DEF CloseFails, WriteFails, CloseSession, CloseStream, Writable
  <2>4. Reaches(c)' = FALSE
    BY <2>3 DEF Reaches
  <2>5. Kept(Pipe(c), reader[c], frame[c], stopRetry, FALSE, closer'[c])
    BY <1>k, <2>1, KeptUnheard
  <2>6. handler[c] \notin {"none", "hello", "ack", "open"}
    BY <1>t, <2>1 DEF StreamInv, Unserved
  <2>7. StreamInv(c)'
    BY <1>t, <1>s, <2>1, <2>2, <2>4, <2>5, <2>6, EndKeeps
  <2>8. \A d \in Conns \ {c} : Untouched(d)
    BY <1>s, <2>1, <2>2
  <2>9. QED BY <1>s, <2>7, <2>8, UntouchedOthers
<1>4. CASE CloseStream(c) /\ ~ UNCHANGED wire
  <2>1. /\ closer[c].at = "finish" /\ closer'[c].at = "session"
        /\ closer'[c].final = closer[c].final
        /\ Writable(c) /\ joined[c] # "closed"
        /\ wire' = [wire EXCEPT ![c] = Append(@, FinChunk)]
        /\ stream'[c] = "ended"
        /\ session' = session
        /\ \A d \in Conns \ {c} : stream'[d] = stream[d] /\ closer'[d] = closer[d]
    BY <1>4, <1>t DEF CloseStream, Send, FinChunk, Writable
  <2>2. handler[c] \notin {"none", "hello", "ack", "open"}
    BY <1>t, <2>1 DEF StreamInv, Unserved
  <2>3. Pipe(c)' = Append(Pipe(c), FinChunk)
    <3>1. wire'[c] = Append(wire[c], FinChunk) /\ inbox'[c] = inbox[c]
      BY <1>s, <1>t, <2>1
    <3>2. inbox[c] \o Append(wire[c], FinChunk) = Append(inbox[c] \o wire[c], FinChunk)
      BY <1>t, ChunkFacts, ConcatFacts
    <3>3. QED BY <3>1, <3>2 DEF Pipe
  <2>4. Kept(Append(Pipe(c), FinChunk), reader[c], frame[c], stopRetry, FALSE, closer'[c])
    <3>1. Kept(Pipe(c), reader[c], frame[c], stopRetry, TRUE, closer[c])
      <4>1. Reaches(c) = TRUE
        BY <2>1 DEF Reaches
      <4>2. QED BY <1>k, <4>1
    <3>2. FALSE \in BOOLEAN /\ stopRetry \in BOOLEAN
      BY <1>t
    <3>3. QED BY <1>p, <2>1, <3>1, <3>2, KeptByFin
  <2>5. CloseKept(c)'
    <3>1. Reaches(c)' = FALSE
      BY <2>1 DEF Reaches, Writable
    <3>2. QED BY <1>s, <2>3, <2>4, <3>1 DEF CloseKept
  <2>6. TagFirst(c)'
    <3> SUFFICES ASSUME reader[c] \in {"none", "tag"}
                 PROVE  Pipe(c)' # <<>> /\ Pipe(c)'[1] = TagChunk
      BY <1>s DEF TagFirst
    <3>1. Pipe(c) # <<>> /\ Pipe(c)[1] = TagChunk
      BY <1>t, <2>1 DEF StreamInv, TagFirst, Writable
    <3>2. QED BY <1>p, <2>3, <3>1, ChunkFacts, AppendProperties, LenProperties, EmptySeq
  <2>7. InWindow(c)'
    <3>1. Len(wire'[c]) = Len(wire[c]) + 1 /\ Len(wire[c]) \in Nat /\ Len(inbox[c]) \in Nat
      BY <1>t, <2>1, ChunkFacts, AppendProperties, LenProperties DEF PipesOK
    <3>2. Len(wire[c]) + Len(inbox[c]) <= Window
      BY <1>t, <2>1 DEF StreamInv, InWindow
    <3>3. inbox'[c] = inbox[c]
      BY <1>s
    <3>4. Len(wire'[c]) + Len(inbox'[c]) <= Window + 1
      BY <1>t, <3>1, <3>2, <3>3, EventStreamAssumption DEF PipesOK
    <3>5. QED BY <2>1, <3>4 DEF InWindow
  <2>8. StreamInv(c)'
    BY <1>s, <2>1, <2>2, <2>5, <2>6, <2>7 DEF StreamInv, Unserved
  <2>9. \A d \in Conns \ {c} : Untouched(d)
    BY <1>s, <1>t, <2>1
  <2>10. QED BY <1>s, <2>8, <2>9, UntouchedOthers
<1>5. QED BY <1>1, <1>2, <1>3, <1>4 DEF Closes

\* The network, and what the two ends of a session learn of each other.
LEMMA NetworkKeepsStreams ==
    ASSUME IInv, PipesOK', NEW c \in Conns, Carries(c) \/ Breaks(c)
    PROVE  StreamsKept
<1> USE DEF Untouched, Touches
<1>t. /\ TypeOK /\ StreamInv(c)
      /\ session \in [Conns -> {"none", "open", "closed"}]
      /\ joined \in [Conns -> {"none", "open", "closed"}]
      /\ wire \in [Conns -> Seq(Chunks)] /\ inbox \in [Conns -> Seq(Chunks)]
      /\ stopRetry \in BOOLEAN
  BY DEF IInv, TypeOK, StreamTypeOK, EndsOK, PipesOK, RunOK, ReaderOK, ServerOK
<1>s. /\ UNCHANGED <<reader, frame, stream, closer, handler, stopRetry>>
      /\ stopRetry' \in BOOLEAN
  BY <1>t DEF Carries, Breaks, Deliver, AgentSeesEnd, ServerSeesEnd, Cut,
              OthersUnchanged, readerVars, serverVars, runVars
<1>1. CASE Deliver(c)
  <2>1. /\ wire[c] # <<>>
        /\ inbox'[c] = Append(inbox[c], Head(wire[c])) /\ wire'[c] = Tail(wire[c])
        /\ UNCHANGED <<session, joined>>
    BY <1>1, <1>t DEF Deliver
  <2>2. Pipe(c)' = Pipe(c)
    BY <1>t, <2>1, ConcatFacts DEF Pipe
  <2>3. Len(wire'[c]) + Len(inbox'[c]) = Len(wire[c]) + Len(inbox[c])
    <3>1. Head(wire[c]) \in Chunks /\ Len(wire'[c]) = Len(wire[c]) - 1
      BY <1>t, <2>1, TailFacts DEF PipesOK
    <3>2. Len(inbox'[c]) = Len(inbox[c]) + 1
      BY <1>t, <2>1, <3>1, AppendProperties DEF PipesOK
    <3>3. Len(wire[c]) \in Nat /\ Len(inbox[c]) \in Nat
      BY <1>t, LenProperties
    <3>4. QED BY <1>t, <3>1, <3>2, <3>3 DEF PipesOK
  <2>4. StreamInv(c)'
    BY <1>s, <1>t, <2>1, <2>2, <2>3
       DEF StreamInv, CloseKept, Reaches, Writable, Unserved, TagFirst, InWindow
  <2>5. \A d \in Conns \ {c} : Untouched(d)
    BY <1>1, <1>s, <1>t, <2>1 DEF Deliver
  <2>6. QED BY <1>s, <2>4, <2>5, UntouchedOthers
<1>2. CASE AgentSeesEnd(c)
  <2>1. LeaveSession(c) /\ UNCHANGED <<inbox, session>>
    BY <1>2 DEF AgentSeesEnd
  <2>2. StreamInv(c)'
    BY <1>s, <1>t, <2>1, LeaveKeeps
  <2>3. \A d \in Conns \ {c} : Untouched(d)
    BY <1>s, <1>t, <2>1 DEF LeaveSession
  <2>4. QED BY <1>s, <2>2, <2>3, UntouchedOthers
<1>3. CASE ServerSeesEnd(c)
  <2>1. /\ session[c] = "open" /\ session'[c] = "closed"
        /\ UNCHANGED <<inbox, wire, joined>>
    BY <1>3, <1>t DEF ServerSeesEnd
  <2>2. Reaches(c)' = FALSE
    BY <2>1 DEF Reaches, Writable
  <2>3. Kept(Pipe(c), reader[c], frame[c], stopRetry, Reaches(c)', closer[c])
    BY <1>t, <2>2, KeptUnheard DEF StreamInv, CloseKept
  <2>4. handler[c] \notin {"none", "hello", "ack", "open"}
    BY <1>t, <2>1 DEF StreamInv, Unserved
  <2>5. StreamInv(c)'
    BY <1>s, <1>t, <2>1, <2>3, <2>4, EndKeeps
  <2>6. \A d \in Conns \ {c} : Untouched(d)
    BY <1>3, <1>s, <1>t, <2>1 DEF ServerSeesEnd
  <2>7. QED BY <1>s, <2>5, <2>6, UntouchedOthers
<1>4. CASE Cut(c)
  <2>1. \A d \in Conns : Untouched(d)
    BY <1>4, <1>s DEF Cut
  <2>2. QED BY <1>s, <2>1, UntouchedAll
<1>5. QED BY <1>1, <1>2, <1>3, <1>4 DEF Carries, Breaks

\* The events of requests, on whatever stream they began on.
LEMMA EmitKeepsStreams ==
    ASSUME IInv, PipesOK', NEW e \in Emitters,
           Emits(e) \/ \E c \in Conns : EdgeEmits(e, c)
    PROVE  StreamsKept
<1> USE DEF Untouched, Touches
<1>t. /\ TypeOK
      /\ emitter \in [Emitters -> [at : {"idle", "head", "body", "done"}, on : Conns]]
      /\ wire \in [Conns -> Seq(Chunks)] /\ inbox \in [Conns -> Seq(Chunks)]
      /\ stopRetry \in BOOLEAN
  BY DEF IInv, TypeOK, StreamTypeOK, EndsOK, PipesOK, RunOK, ReaderOK, ServerOK
<1>s. /\ UNCHANGED <<inbox, reader, frame, session, stream, joined, closer, handler, stopRetry>>
      /\ stopRetry' \in BOOLEAN
  BY <1>t DEF Emits, EdgeEmits, EmitHead, EmitBody, EmitWrites, EmitFails, EmitStart,
              OthersUnchanged, readerVars, serverVars, runVars
<1>1. CASE EmitHead(e) \/ EmitBody(e)
  <2>1. PICK part \in {"head", "body"}, c \in Conns : Write(c, <<part, e>>)
    BY <1>1, <1>t DEF EmitHead, EmitBody, EmitWrites
  <2>2. PICK x \in Chunks : x = <<part, e>> /\ x # FinChunk
    BY ChunkFacts
  <2>3. StreamInv(c)
    BY DEF IInv
  <2>4. Kept(Pipe(c), reader[c], frame[c], stopRetry, Reaches(c), closer[c])
    BY <2>3 DEF StreamInv, CloseKept
  <2>5. /\ Pipe(c) \in Seq(Chunks)
        /\ Reaches(c) \in BOOLEAN /\ stopRetry \in BOOLEAN
    BY <1>t, PipeFacts DEF Reaches, Writable
  <2>6. Kept(Append(Pipe(c), x), reader[c], frame[c], stopRetry, Reaches(c), closer[c])
    BY <2>2, <2>4, <2>5, KeptByOthers
  <2>7. StreamInv(c)'
    BY <1>s, <1>t, <2>1, <2>2, <2>3, <2>4, <2>6, WriteKeeps
  <2>8. \A d \in Conns \ {c} : Untouched(d)
    BY <1>s, <1>t, <2>1 DEF Write, Send
  <2>9. QED BY <1>s, <2>7, <2>8, UntouchedOthers
<1>2. CASE EmitFails(e) \/ \E c \in Conns : EdgeEmits(e, c)
  <2>1. wire' = wire
    BY <1>2 DEF EmitFails, EdgeEmits, EmitStart
  <2>2. \A d \in Conns : Untouched(d)
    BY <1>s, <2>1
  <2>3. QED BY <1>s, <2>2, UntouchedAll
<1>3. QED BY <1>1, <1>2 DEF Emits

\* No step of anybody breaks the invariant of a stream.
LEMMA StreamStep ==
    ASSUME IInv, PipesOK', Next
    PROVE  StreamsKept
  BY RunKeepsStreams, ReaderKeepsStreams, HandlerKeepsStreams, CloseBeginKeepsStreams,
     CloseKeepsStreams, NetworkKeepsStreams, EmitKeepsStreams
     DEF Next

-----------------------------------------------------------------------------
(* Types, given that the pipes have theirs and the window is kept.         *)

LEMMA WindowKept ==
    ASSUME PipesOK', StreamsKept
    PROVE  /\ wire' \in [Conns -> Seq(Chunks)]
           /\ inbox' \in [Conns -> Seq(Chunks)]
           /\ \A c \in Conns : Len(wire'[c]) + Len(inbox'[c]) <= Window + 1
  BY DEF PipesOK, StreamsKept, StreamInv, InWindow

endsVars == <<link, session, joined, stream, events, closer, emitter>>

\* Parts of the state a step leaves alone keep their types.
LEMMA PartsSame ==
    ASSUME TypeOK
    PROVE  /\ UNCHANGED endsVars => EndsOK'
           /\ UNCHANGED runVars => RunOK'
           /\ UNCHANGED readerVars => ReaderOK'
           /\ UNCHANGED serverVars => ServerOK'
<1>1. UNCHANGED endsVars => EndsOK'
  BY DEF TypeOK, StreamTypeOK, EndsOK, endsVars
<1>2. UNCHANGED runVars => RunOK'
  BY DEF TypeOK, RunOK, runVars
<1>3. UNCHANGED readerVars => ReaderOK'
  BY DEF TypeOK, ReaderOK, readerVars
<1>4. UNCHANGED serverVars => ServerOK'
  BY DEF TypeOK, ServerOK, serverVars
<1>5. QED BY <1>1, <1>2, <1>3, <1>4

\* Whose steps change which part of the state.
LEMMA WhoMoves ==
    ASSUME Next
    PROVE  /\ RunStep \/ Cancel \/ (\E c \in Conns : Reads(c) \/ Report(c)) \/ UNCHANGED runVars
           /\ AcceptStream \/ (\E c \in Conns : Reads(c) \/ Report(c)) \/ UNCHANGED readerVars
           /\ Dial \/ (\E c \in Conns : Handles(c) \/ OperatorCloses(c)) \/ UNCHANGED serverVars
<1>1. RunStep /\ ~AcceptStream => UNCHANGED readerVars
  BY DEF RunStep, Dial, DialFails, ReadAck, ReadRefusal, AckFails, Interrupt, AcceptFails, Drain,
         Hangup, ReturnCancelled, ReturnRefused, ReturnTold, ReturnLost, Return, GoesOn, Notify,
         WaitInterrupted, WaitElapsed
<1>2. RunStep /\ ~Dial => UNCHANGED serverVars
  BY DEF RunStep, DialFails, ReadAck, ReadRefusal, AckFails, Interrupt, AcceptStream, AcceptFails,
         Drain, Hangup, ReturnCancelled, ReturnRefused, ReturnTold, ReturnLost, Return, GoesOn,
         Notify, WaitInterrupted, WaitElapsed
<1>3. Cancel => UNCHANGED <<readerVars, serverVars>>
  BY DEF Cancel
<1>4. ASSUME NEW c \in Conns, Reads(c) \/ Report(c)
      PROVE  UNCHANGED serverVars
  BY <1>4 DEF Reads, ReadTag, ReadHead, ReadBody, ReadGarbage, ReadEOF, Report, ReaderUnchanged
<1>5. ASSUME NEW c \in Conns, Handles(c) \/ OperatorCloses(c)
      PROVE  UNCHANGED <<runVars, readerVars>>
  BY <1>5 DEF Handles, Grant, RefuseTaken, RefuseOther, HelloLost, SendAck, HandshakeFails,
              Serve, SessionOver, Release, ReleaseCloses, OperatorCloses
<1>6. ASSUME NEW c \in Conns,
             ResetStream(c) \/ Closes(c) \/ ShutdownCloses(c) \/ Carries(c) \/ Breaks(c)
      PROVE  UNCHANGED <<runVars, readerVars, serverVars>>
  BY <1>6 DEF ResetStream, Closes, ShutdownCloses, Carries, Breaks, OthersUnchanged
<1>7. ASSUME NEW e \in Emitters, Emits(e) \/ \E c \in Conns : EdgeEmits(e, c)
      PROVE  UNCHANGED <<runVars, readerVars, serverVars>>
  BY <1>7 DEF Emits, EdgeEmits, OthersUnchanged
<1>8. QED BY <1>1, <1>2, <1>3, <1>4, <1>5, <1>6, <1>7 DEF Next

LEMMA RunTyped ==
    ASSUME TypeOK, RunInv, Next
    PROVE  RunOK'
<1>t. RunOK /\ ServerOK
  BY DEF TypeOK
<1> USE DEF RunOK
<1>1. ASSUME RunStep PROVE RunOK'
  <2>1. CASE Dial
    BY <1>t, <2>1, EventStreamAssumption DEF Dial
  <2>2. CASE DialFails \/ AcceptFails
    BY <1>t, <2>2 DEF DialFails, AcceptFails
  <2>3. CASE ReadAck
    <3>1. PICK c \in Conns : c = current
      BY <2>3 DEF RunInv, ReadAck
    <3>2. ack[c].name \in Names \cup {NoName}
      BY <1>t DEF ServerOK
    <3>3. QED BY <1>t, <2>3, <3>1, <3>2 DEF ReadAck
  <2>4. CASE ReadRefusal \/ AckFails \/ Hangup
    BY <1>t, <2>4 DEF ReadRefusal, AckFails, Hangup
  <2>5. CASE Interrupt \/ AcceptStream
    BY <1>t, <2>5 DEF Interrupt, AcceptStream, runVars
  <2>6. CASE Drain
    BY <1>t, <2>6 DEF Drain
  <2>7. CASE ReturnCancelled \/ ReturnRefused \/ ReturnTold \/ ReturnLost
    BY <1>t, <2>7 DEF ReturnCancelled, ReturnRefused, ReturnTold, ReturnLost, Return
  <2>8. CASE GoesOn \/ Notify \/ WaitInterrupted \/ WaitElapsed
    BY <1>t, <2>8 DEF GoesOn, Notify, WaitInterrupted, WaitElapsed
  <2>9. QED BY <1>1, <2>1, <2>2, <2>3, <2>4, <2>5, <2>6, <2>7, <2>8 DEF RunStep
<1>2. CASE Cancel
  BY <1>t, <1>2 DEF Cancel
<1>3. ASSUME NEW c \in Conns, Reads(c) \/ Report(c) PROVE RunOK'
  <2>1. stopRetry' \in BOOLEAN
    BY <1>t, <1>3 DEF Reads, ReadTag, ReadHead, ReadBody, ReadGarbage, ReadEOF, Report
  <2>2. ReaderUnchanged
    BY <1>3 DEF Reads, ReadTag, ReadHead, ReadBody, ReadGarbage, ReadEOF, Report
  <2>3. QED BY <1>t, <2>1, <2>2 DEF ReaderUnchanged
<1>4. CASE UNCHANGED runVars
  BY <1>t, <1>4, PartsSame
<1>5. QED BY <1>1, <1>2, <1>3, <1>4, WhoMoves

LEMMA ReaderTyped ==
    ASSUME TypeOK, Next
    PROVE  ReaderOK'
<1>t. ReaderOK /\ TypeOK
  BY DEF TypeOK
<1> USE DEF ReaderOK
<1>1. CASE AcceptStream
  BY <1>t, <1>1 DEF AcceptStream
<1>2. ASSUME NEW c \in Conns, Reads(c) \/ Report(c) PROVE ReaderOK'
  <2>1. CASE ReadTag(c)
    BY <1>t, <2>1 DEF ReadTag
  <2>2. CASE ReadHead(c)
    <3>1. Head(inbox[c]) \in Chunks
      BY <1>t, <2>2, ConsumeTyped DEF ReadHead
    <3>2. Head(inbox[c])[2] \in Writers \cup {NoWriter}
      BY <3>1 DEF Chunks
    <3>3. frame' = frame \/ frame' = [frame EXCEPT ![c] = Head(inbox[c])[2]]
      BY <2>2 DEF ReadHead
    <3>4. frame' \in [Conns -> Writers \cup {NoWriter}]
      BY <1>t, <3>2, <3>3
    <3>5. reader' = [reader EXCEPT ![c] = "finished"] \/ reader' = [reader EXCEPT ![c] = "body"]
      BY <2>2 DEF ReadHead
    <3>6. seen' = seen
      BY <2>2 DEF ReadHead
    <3>7. QED BY <1>t, <3>4, <3>5, <3>6
  <2>3. CASE ReadBody(c)
    BY <1>t, <2>3 DEF ReadBody
  <2>4. CASE ReadGarbage(c)
    BY <1>t, <2>4 DEF ReadGarbage
  <2>5. CASE ReadEOF(c)
    BY <1>t, <2>5 DEF ReadEOF
  <2>6. CASE Report(c)
    BY <1>t, <2>6 DEF Report
  <2>7. QED BY <1>2, <2>1, <2>2, <2>3, <2>4, <2>5, <2>6 DEF Reads
<1>3. CASE UNCHANGED readerVars
  BY <1>t, <1>3, PartsSame
<1>4. QED BY <1>1, <1>2, <1>3, WhoMoves

LEMMA ServerTyped ==
    ASSUME TypeOK, RunInv, Next
    PROVE  ServerOK'
<1>t. ServerOK /\ RunOK /\ TypeOK
  BY DEF TypeOK
<1> USE DEF ServerOK
<1>1. CASE Dial
  <2>1. PICK c \in Conns : c = current + 1
    BY <1>t, <1>1, EventStreamAssumption DEF RunOK, Dial, Conns
  <2>2. HelloName \in Names \cup {NoName}
    BY <1>t, AgentAssumption DEF RunOK, HelloName
  <2>3. QED BY <1>t, <1>1, <2>1, <2>2 DEF Dial
<1>2. ASSUME NEW c \in Conns, Handles(c) PROVE ServerOK'
  <2>1. CASE Grant(c)
    BY <1>t, <2>1 DEF Grant, Lease!Acquire
  <2>2. CASE RefuseTaken(c)
    BY <1>t, <2>2 DEF RefuseTaken, Lease!Refuse
  <2>3. CASE RefuseOther(c)
    BY <1>t, <2>3 DEF RefuseOther, Lease!Refuse
  <2>4. CASE HelloLost(c)
    BY <1>t, <2>4 DEF HelloLost, Lease!Refuse
  <2>5. CASE SendAck(c)
    BY <1>t, <2>5 DEF SendAck
  <2>6. CASE HandshakeFails(c)
    BY <1>t, <2>6 DEF HandshakeFails
  <2>7. CASE Serve(c)
    BY <1>t, <2>7 DEF Serve
  <2>8. CASE SessionOver(c)
    BY <1>t, <2>8 DEF SessionOver
  <2>9. CASE Release(c)
    BY <1>t, <2>9 DEF Release, GivesBack, Lease!GiveUp
  <2>10. CASE ReleaseCloses(c)
    BY <1>t, <2>10 DEF ReleaseCloses
  <2>11. QED BY <1>2, <2>1, <2>2, <2>3, <2>4, <2>5, <2>6, <2>7, <2>8, <2>9, <2>10 DEF Handles
<1>3. ASSUME NEW c \in Conns, OperatorCloses(c) PROVE ServerOK'
  BY <1>t, <1>3 DEF OperatorCloses, Lease!GiveUp
<1>4. CASE UNCHANGED serverVars
  BY <1>t, <1>4, PartsSame
<1>5. QED BY <1>1, <1>2, <1>3, <1>4, WhoMoves

\* A close begins, from whichever handler.
LEMMA CloseBeginTyped ==
    ASSUME NEW c \in Conns, NEW reason \in BOOLEAN, NEW final \in BOOLEAN,
           EndsOK, CloseBegin(c, reason, final)
    PROVE  EndsOK'
<1>1. PICK x \in [at : {"idle", "head", "body", "finish", "session", "done"}, final : BOOLEAN] :
         closer' = [closer EXCEPT ![c] = x]
  BY DEF CloseBegin
<1>2. closer' \in [Conns -> [at : {"idle", "head", "body", "finish", "session", "done"},
                            final : BOOLEAN]]
  BY <1>1 DEF EndsOK
<1>3. QED BY <1>2 DEF CloseBegin, EndsOK

LEMMA EndsTyped ==
    ASSUME TypeOK, RunInv, Next
    PROVE  EndsOK'
<1>t. EndsOK /\ RunOK /\ TypeOK
  BY DEF TypeOK, StreamTypeOK
<1> USE DEF EndsOK
<1>1. ASSUME RunStep PROVE EndsOK'
  <2>1. CASE Dial
    <3>1. PICK c \in Conns : c = current + 1
      BY <1>t, <2>1, EventStreamAssumption DEF RunOK, Dial, Conns
    <3>2. QED BY <1>t, <2>1, <3>1 DEF Dial
  <2>2. CASE ReadAck
    BY <1>t, <2>2 DEF ReadAck
  <2>3. CASE ReadRefusal \/ AckFails \/ Interrupt \/ Hangup
    <3>1. /\ LeaveSession(current)
          /\ UNCHANGED <<link, session, stream, events, closer, emitter>>
      BY <2>3 DEF ReadRefusal, AckFails, Interrupt, Hangup
    <3>2. QED BY <1>t, <3>1 DEF LeaveSession
  <2>4. CASE UNCHANGED endsVars
    BY <1>t, <2>4, PartsSame
  <2>5. CASE DialFails \/ AcceptStream \/ AcceptFails \/ Drain \/ ReturnCancelled
             \/ ReturnRefused \/ ReturnTold \/ ReturnLost \/ GoesOn \/ Notify
             \/ WaitInterrupted \/ WaitElapsed
    <3>1. UNCHANGED streamVars
      BY <2>5 DEF DialFails, AcceptStream, AcceptFails, Drain, ReturnCancelled, ReturnRefused,
                  ReturnTold, ReturnLost, Return, GoesOn, Notify, WaitInterrupted, WaitElapsed
    <3>2. QED BY <2>4, <3>1 DEF streamVars, endsVars
  <2>6. QED BY <1>1, <2>1, <2>2, <2>3, <2>5 DEF RunStep
<1>2. CASE UNCHANGED endsVars
  BY <1>t, <1>2, PartsSame
<1>3. Cancel => UNCHANGED endsVars
  BY DEF Cancel, streamVars, endsVars
<1>4. ASSUME NEW c \in Conns, Reads(c) \/ Report(c) PROVE UNCHANGED endsVars
  BY <1>4 DEF Reads, ReadTag, ReadHead, ReadBody, ReadGarbage, ReadEOF, Report, ReaderUnchanged,
              endsVars
<1>5. ASSUME NEW c \in Conns, ResetStream(c) PROVE EndsOK'
  BY <1>t, <1>5 DEF ResetStream
<1>6. ASSUME NEW c \in Conns, Handles(c) PROVE EndsOK'
  <2>1. CASE Serve(c)
    <3>1. /\ stream' \in [Conns -> {"none", "open", "ended", "reset"}]
          /\ events' \in [Conns -> BOOLEAN]
          /\ session' \in [Conns -> {"none", "open", "closed"}]
      BY <1>t, <2>1 DEF Serve, OpenSession
    <3>2. UNCHANGED <<link, joined, closer, emitter>>
      BY <2>1 DEF Serve, OpenSession
    <3>3. QED BY <1>t, <3>1, <3>2
  <2>2. CASE ReleaseCloses(c)
    <3>1. CloseBegin(c, FALSE, FALSE) \/ UNCHANGED endsVars
      BY <2>2 DEF ReleaseCloses, streamVars, endsVars
    <3>2. QED BY <1>t, <1>2, <3>1, CloseBeginTyped
  <2>3. CASE Grant(c) \/ RefuseTaken(c) \/ RefuseOther(c) \/ HelloLost(c) \/ SendAck(c)
             \/ HandshakeFails(c) \/ SessionOver(c) \/ Release(c)
    <3>1. UNCHANGED streamVars
      BY <2>3 DEF Grant, RefuseTaken, RefuseOther, HelloLost, SendAck, HandshakeFails,
                  SessionOver, Release
    <3>2. QED BY <1>2, <3>1 DEF streamVars, endsVars
  <2>4. QED BY <1>6, <2>1, <2>2, <2>3 DEF Handles
<1>7. ASSUME NEW c \in Conns, Closes(c) PROVE EndsOK'
  <2>1. CASE CloseHead(c)
    BY <1>t, <2>1 DEF CloseHead, CloseWrites
  <2>2. CASE CloseBody(c)
    BY <1>t, <2>2 DEF CloseBody, CloseWrites
  <2>3. CASE CloseFails(c)
    BY <1>t, <2>3 DEF CloseFails
  <2>4. CASE CloseStream(c)
    BY <1>t, <2>4 DEF CloseStream
  <2>5. CASE CloseSession(c)
    BY <1>t, <2>5 DEF CloseSession
  <2>6. QED BY <1>7, <2>1, <2>2, <2>3, <2>4, <2>5 DEF Closes
<1>8. ASSUME NEW c \in Conns, OperatorCloses(c) \/ ShutdownCloses(c) PROVE EndsOK'
  BY <1>t, <1>8, CloseBeginTyped DEF OperatorCloses, ShutdownCloses
<1>9. ASSUME NEW c \in Conns, Carries(c) \/ Breaks(c) PROVE EndsOK'
  <2>1. CASE Deliver(c)
    BY <1>2, <2>1 DEF Deliver, endsVars
  <2>2. CASE AgentSeesEnd(c)
    BY <1>t, <2>2 DEF AgentSeesEnd, LeaveSession
  <2>3. CASE ServerSeesEnd(c)
    BY <1>t, <2>3 DEF ServerSeesEnd
  <2>4. CASE Cut(c)
    BY <1>t, <2>4 DEF Cut
  <2>5. QED BY <1>9, <2>1, <2>2, <2>3, <2>4 DEF Carries, Breaks
<1>10. ASSUME NEW e \in Emitters, Emits(e) \/ \E c \in Conns : EdgeEmits(e, c) PROVE EndsOK'
  <2>1. CASE EmitHead(e)
    BY <1>t, <2>1 DEF EmitHead, EmitWrites
  <2>2. CASE EmitBody(e)
    BY <1>t, <2>2 DEF EmitBody, EmitWrites
  <2>3. CASE EmitFails(e)
    BY <1>t, <2>3 DEF EmitFails
  <2>4. ASSUME NEW c \in Conns, EmitStart(e, c) PROVE EndsOK'
    BY <1>t, <2>4 DEF EmitStart
  <2>5. QED BY <1>10, <2>1, <2>2, <2>3, <2>4 DEF Emits, EdgeEmits
<1>11. QED BY <1>1, <1>2, <1>3, <1>4, <1>5, <1>6, <1>7, <1>8, <1>9, <1>10 DEF Next

LEMMA TypeStep ==
    ASSUME IInv, PipesOK', StreamsKept, Next
    PROVE  TypeOK'
<1>1. \A c \in Conns : Len(wire'[c]) + Len(inbox'[c]) <= Window + 1
  BY DEF StreamsKept, StreamInv, InWindow
<1>2. TypeOK /\ RunInv
  BY DEF IInv
<1>3. EndsOK' /\ RunOK' /\ ReaderOK' /\ ServerOK'
  BY <1>2, EndsTyped, RunTyped, ReaderTyped, ServerTyped
<1>4. QED BY <1>1, <1>3 DEF TypeOK, StreamTypeOK

-----------------------------------------------------------------------------
(* The rest of the invariant.                                              *)

\* A reader that is done stays so.
LEMMA DoneReaders ==
    ASSUME TypeOK, Next, NEW c \in Conns, ReaderDone(c)
    PROVE  reader'[c] = reader[c]
<1>1. reader \in [Conns -> {"none", "tag", "head", "body", "report",
                           "finished", "cutoff", "garbled"}]
  BY DEF TypeOK, ReaderOK
<1>2. CASE AcceptStream
  BY <1>1, <1>2 DEF AcceptStream, ReaderDone
<1>3. ASSUME NEW d \in Conns, Reads(d) \/ Report(d)
      PROVE  reader'[c] = reader[c]
  <2>1. reader[d] \in {"tag", "head", "body", "report"}
    BY <1>3 DEF Reads, ReadTag, ReadHead, ReadBody, ReadGarbage, ReadEOF, Report
  <2>2. c # d
    BY <2>1 DEF ReaderDone
  <2>3. PICK r : reader' = [reader EXCEPT ![d] = r]
    BY <1>3 DEF Reads, ReadTag, ReadHead, ReadBody, ReadGarbage, ReadEOF, Report
  <2>4. QED BY <1>1, <2>2, <2>3
<1>4. UNCHANGED readerVars => reader'[c] = reader[c]
  BY DEF readerVars
<1>5. QED BY <1>2, <1>3, <1>4, WhoMoves

\* A close that has begun does not change its mind on whether it is final.
LEMMA BegunCloses ==
    ASSUME TypeOK, Next, NEW c \in Conns, closer[c].at # "idle"
    PROVE  closer'[c].final = closer[c].final
<1>t. closer \in [Conns -> [at : {"idle", "head", "body", "finish", "session", "done"},
                           final : BOOLEAN]]
  BY DEF TypeOK, StreamTypeOK, EndsOK
<1>1. ASSUME NEW d \in Conns, NEW reason, NEW final, CloseBegin(d, reason, final)
      PROVE  closer'[c].final = closer[c].final
  BY <1>t, <1>1 DEF CloseBegin
<1>2. ASSUME NEW d \in Conns, Closes(d)
      PROVE  closer'[c].final = closer[c].final
  BY <1>t, <1>2 DEF Closes, CloseHead, CloseBody, CloseWrites, CloseFails, CloseStream, CloseSession
<1>3. ASSUME closer' = closer
      PROVE  closer'[c].final = closer[c].final
  BY <1>3
<1>4. RunStep \/ Cancel => closer' = closer
  BY DEF RunStep, Dial, DialFails, ReadAck, ReadRefusal, AckFails, Interrupt, AcceptStream,
         AcceptFails, Drain, Hangup, ReturnCancelled, ReturnRefused, ReturnTold, ReturnLost, Return,
         GoesOn, Notify, WaitInterrupted, WaitElapsed, Cancel, streamVars
<1>5. ASSUME NEW d \in Conns, Reads(d) \/ Report(d) \/ ResetStream(d) \/ Carries(d) \/ Breaks(d)
      PROVE  closer' = closer
  BY <1>5 DEF Reads, ReadTag, ReadHead, ReadBody, ReadGarbage, ReadEOF, Report, ReaderUnchanged,
              ResetStream, Carries, Breaks, Deliver, AgentSeesEnd, ServerSeesEnd, Cut
<1>6. ASSUME NEW d \in Conns, Handles(d) \/ OperatorCloses(d) \/ ShutdownCloses(d)
      PROVE  closer' = closer \/ \E reason, final \in BOOLEAN : CloseBegin(d, reason, final)
  BY <1>6 DEF Handles, Grant, RefuseTaken, RefuseOther, HelloLost, SendAck, HandshakeFails,
              Serve, OpenSession, SessionOver, Release, ReleaseCloses, OperatorCloses,
              ShutdownCloses, streamVars
<1>7. ASSUME NEW e \in Emitters, Emits(e) \/ \E d \in Conns : EdgeEmits(e, d)
      PROVE  closer' = closer
  BY <1>7 DEF Emits, EdgeEmits, EmitHead, EmitBody, EmitWrites, EmitFails, EmitStart
<1>8. QED BY <1>1, <1>2, <1>3, <1>4, <1>5, <1>6, <1>7 DEF Next

LEMMA StopStep ==
    ASSUME IInv, Next
    PROVE  StopInv'
<1>t. /\ TypeOK /\ StopInv /\ RunInv
      /\ \A c \in Conns : closer[c].at = "idle" => ~closer[c].final
      /\ closer \in [Conns -> [at : {"idle", "head", "body", "finish", "session", "done"},
                               final : BOOLEAN]]
  BY DEF IInv, StreamInv, TypeOK, StreamTypeOK, EndsOK
<1>1. ASSUME NEW c \in Conns, closer[c].final
      PROVE  closer'[c].final
  BY <1>t, <1>1, BegunCloses
<1>2. stopRetry => stopRetry'
  <2>1. RunStep \/ Cancel => stopRetry' = stopRetry
    BY DEF RunStep, Dial, DialFails, ReadAck, ReadRefusal, AckFails, Interrupt, AcceptStream,
           AcceptFails, Drain, Hangup, ReturnCancelled, ReturnRefused, ReturnTold, ReturnLost,
           Return, GoesOn, Notify, WaitInterrupted, WaitElapsed, Cancel, runVars
  <2>2. ASSUME NEW c \in Conns, Reads(c) \/ Report(c)
        PROVE  stopRetry => stopRetry'
    BY <2>2 DEF Reads, ReadTag, ReadHead, ReadBody, ReadGarbage, ReadEOF, Report
  <2>3. UNCHANGED runVars => stopRetry' = stopRetry
    BY DEF runVars
  <2>4. QED BY <2>1, <2>2, <2>3, WhoMoves
<1>3. stopRetry' => stopRetry \/ \E c \in Conns : closer[c].final
  <2>1. RunStep \/ Cancel => stopRetry' = stopRetry
    BY DEF RunStep, Dial, DialFails, ReadAck, ReadRefusal, AckFails, Interrupt, AcceptStream,
           AcceptFails, Drain, Hangup, ReturnCancelled, ReturnRefused, ReturnTold, ReturnLost,
           Return, GoesOn, Notify, WaitInterrupted, WaitElapsed, Cancel, runVars
  <2>2. ASSUME NEW c \in Conns, Reads(c) \/ Report(c), stopRetry', ~stopRetry
        PROVE  closer[c].final
    BY <2>2 DEF Reads, ReadTag, ReadHead, ReadBody, ReadGarbage, ReadEOF, Report
  <2>3. UNCHANGED runVars => stopRetry' = stopRetry
    BY DEF runVars
  <2>4. QED BY <2>1, <2>2, <2>3, WhoMoves
<1>4. stopRetry' => \E c \in Conns : closer'[c].final
  BY <1>t, <1>1, <1>3 DEF StopInv
<1>5. result' = "told" => stopRetry
  <2>1. RunStep \/ Cancel => (result' = "told" => result = "told" \/ stopRetry)
    BY DEF RunStep, Dial, DialFails, ReadAck, ReadRefusal, AckFails, Interrupt, AcceptStream,
           AcceptFails, Drain, Hangup, ReturnCancelled, ReturnRefused, ReturnTold, ReturnLost,
           Return, GoesOn, Notify, WaitInterrupted, WaitElapsed, Cancel, runVars
  <2>2. ASSUME NEW c \in Conns, Reads(c) \/ Report(c)
        PROVE  result' = result
    BY <2>2 DEF Reads, ReadTag, ReadHead, ReadBody, ReadGarbage, ReadEOF, Report, ReaderUnchanged
  <2>3. UNCHANGED runVars => result' = result
    BY DEF runVars
  <2>4. QED BY <1>t, <2>1, <2>2, <2>3, WhoMoves DEF StopInv
<1>6. QED BY <1>2, <1>4, <1>5 DEF StopInv

\* What Run and the phase it is in may do to its own variables.
LEMMA RunMoves ==
    ASSUME Next
    PROVE  \/ Dial \/ ReadAck \/ Drain \/ GoesOn
           \/ /\ UNCHANGED <<current, wanted, granted, drained>>
              /\ \/ at' = at
                 \/ at = "dial" /\ at' = "over"
                 \/ at = "hello" /\ at' = "over"
                 \/ at = "serve" /\ at' = "drain"
                 \/ at = "close" /\ at' = "over"
                 \/ at = "notify" /\ at' = "wait"
                 \/ at' = "returned"
           \/ /\ UNCHANGED <<current, wanted, granted>>
              /\ at = "wait" /\ at' = "dial" /\ drained' = "none"
<1>1. RunStep =>
         \/ Dial \/ ReadAck \/ Drain \/ GoesOn
         \/ /\ UNCHANGED <<current, wanted, granted, drained>>
            /\ \/ at' = at
               \/ at = "dial" /\ at' = "over"
               \/ at = "hello" /\ at' = "over"
               \/ at = "serve" /\ at' = "drain"
               \/ at = "close" /\ at' = "over"
               \/ at = "notify" /\ at' = "wait"
               \/ at' = "returned"
         \/ /\ UNCHANGED <<current, wanted, granted>>
            /\ at = "wait" /\ at' = "dial" /\ drained' = "none"
  BY DEF RunStep, DialFails, ReadRefusal, AckFails, Interrupt, AcceptStream, AcceptFails, Hangup,
         ReturnCancelled, ReturnRefused, ReturnTold, ReturnLost, Return, Notify, WaitInterrupted,
         WaitElapsed, runVars
<1>2. Cancel => UNCHANGED <<at, current, wanted, granted, drained>>
  BY DEF Cancel
<1>3. ASSUME NEW c \in Conns, Reads(c) \/ Report(c)
      PROVE  UNCHANGED <<at, current, wanted, granted, drained>>
  BY <1>3 DEF Reads, ReadTag, ReadHead, ReadBody, ReadGarbage, ReadEOF, Report, ReaderUnchanged
<1>4. UNCHANGED runVars => UNCHANGED <<at, current, wanted, granted, drained>>
  BY DEF runVars
<1>5. QED BY <1>1, <1>2, <1>3, <1>4, WhoMoves

\* CleanCloseIsHeeded is kept: the step on which it hangs is GoesOn, where a
\* finished reader of a final close has set stopRetry.
LEMMA DrainStep ==
    ASSUME IInv, Next
    PROVE  DrainInv'
<1>t. /\ TypeOK /\ RunInv /\ DrainInv
      /\ \A c \in Conns : StreamInv(c)
  BY DEF IInv
<1>1. ASSUME NEW c \in Conns, ReaderDone(c)
      PROVE  ReaderDone(c)'
  BY <1>t, <1>1, DoneReaders DEF ReaderDone
<1>2. ASSUME NEW c \in Conns, reader[c] = "finished"
      PROVE  closer'[c].final = closer[c].final
  <2>1. closer[c].at \in {"session", "done"}
    BY <1>t, <1>2 DEF StreamInv, CloseKept, Kept
  <2>2. QED BY <1>t, <2>1, BegunCloses
<1>3. CASE Dial
  BY <1>3, <1>t DEF Dial, DrainInv, CleanCloseIsHeeded
<1>4. CASE ReadAck
  BY <1>4, <1>t DEF ReadAck, DrainInv, CleanCloseIsHeeded
<1>5. CASE Drain
  <2>1. PICK c \in Conns : c = current
    BY <1>5, <1>t DEF Drain, RunInv
  <2>2. drained' = "heard" => ReaderDone(c)
    BY <1>5, <2>1 DEF Drain
  <2>3. at' = "close" /\ current' = current
    BY <1>5 DEF Drain
  <2>4. QED BY <1>1, <2>1, <2>2, <2>3 DEF DrainInv, CleanCloseIsHeeded
<1>6. CASE GoesOn
  <2>1. /\ at = "over" /\ at' = "notify" /\ ~stopRetry
        /\ UNCHANGED <<current, drained, closer, reader>>
    BY <1>6 DEF GoesOn, streamVars, readerVars
  <2>2. drained = "heard" => current \in Conns /\ ReaderDone(current)
    BY <1>t, <2>1 DEF DrainInv
  <2>3. drained = "heard" /\ reader[current] = "finished" => ~closer[current].final
    BY <1>t, <2>1, <2>2 DEF StreamInv, CloseKept, Kept
  <2>4. CleanCloseIsHeeded'
    BY <2>1, <2>3 DEF CleanCloseIsHeeded
  <2>5. QED BY <2>1, <2>2, <2>4 DEF DrainInv, ReaderDone
<1>7. ASSUME UNCHANGED <<current, drained>>,
             \/ at' = at
             \/ at \in {"dial", "hello"} /\ at' = "over"
             \/ at = "serve" /\ at' = "drain"
             \/ at = "close" /\ at' = "over"
             \/ at = "notify" /\ at' = "wait"
             \/ at' = "returned"
      PROVE  DrainInv'
  <2>1. at' \in {"dial", "hello", "serve", "drain"} => drained' = "none"
    BY <1>t, <1>7 DEF DrainInv
  <2>2. ASSUME at' \in {"close", "over", "notify", "wait"}, drained' = "heard"
        PROVE  current' \in Conns /\ ReaderDone(current)'
    <3>1. at \in {"close", "over", "notify", "wait"} /\ drained = "heard"
      BY <1>t, <1>7, <2>2 DEF DrainInv, TypeOK, RunOK
    <3>2. PICK c \in Conns : c = current /\ ReaderDone(c)
      BY <1>t, <3>1 DEF DrainInv
    <3>3. QED BY <1>1, <1>7, <3>2 DEF ReaderDone
  <2>3. CleanCloseIsHeeded'
    <3> SUFFICES ASSUME at' \in {"notify", "wait"}, drained' = "heard",
                        reader'[current'] = "finished", closer'[current'].final
                 PROVE  FALSE
      BY DEF CleanCloseIsHeeded
    <3>1. at \in {"notify", "wait"} /\ drained = "heard"
      BY <1>7
    <3>2. PICK c \in Conns : c = current /\ ReaderDone(c) /\ c = current'
      BY <1>t, <1>7, <3>1 DEF DrainInv
    <3>3. reader[c] = "finished"
      BY <1>t, <3>2, DoneReaders
    <3>4. closer[c].final
      BY <1>2, <3>2, <3>3
    <3>5. QED BY <1>t, <3>1, <3>2, <3>3, <3>4 DEF DrainInv, CleanCloseIsHeeded
  <2>4. QED BY <2>1, <2>2, <2>3 DEF DrainInv
<1>8. CASE at = "wait" /\ at' = "dial" /\ drained' = "none"
  BY <1>8 DEF DrainInv, CleanCloseIsHeeded
<1>9. QED BY <1>3, <1>4, <1>5, <1>6, <1>7, <1>8, RunMoves

\* Which steps open or close the agent's end of a session.
LEMMA JoinMoves ==
    ASSUME TypeOK, Next
    PROVE  \/ joined' = joined
           \/ /\ at = "hello" /\ at' \in {"serve", "over"}
              /\ \A c \in Conns : c # current => joined'[c] = joined[c]
           \/ /\ at \in {"serve", "close"} /\ at' # "hello"
              /\ \A c \in Conns : c # current => joined'[c] = joined[c]
           \/ \E d \in Conns :
                 /\ joined[d] = "open" /\ at' = at /\ current' = current
                 /\ \A c \in Conns : c # d => joined'[c] = joined[c]
<1>t. joined \in [Conns -> {"none", "open", "closed"}]
  BY DEF TypeOK, StreamTypeOK, EndsOK
<1>1. ASSUME RunStep
      PROVE  \/ joined' = joined
             \/ /\ at = "hello" /\ at' \in {"serve", "over"}
                /\ \A c \in Conns : c # current => joined'[c] = joined[c]
             \/ /\ at \in {"serve", "close"} /\ at' # "hello"
                /\ \A c \in Conns : c # current => joined'[c] = joined[c]
  <2>1. CASE ReadAck \/ ReadRefusal \/ AckFails
    BY <1>t, <2>1 DEF ReadAck, ReadRefusal, AckFails, LeaveSession
  <2>2. CASE Interrupt \/ Hangup
    BY <1>t, <2>2 DEF Interrupt, Hangup, LeaveSession, runVars
  <2>3. CASE ~(ReadAck \/ ReadRefusal \/ AckFails \/ Interrupt \/ Hangup)
    BY <1>1, <2>3
       DEF RunStep, Dial, DialFails, AcceptStream, AcceptFails, Drain, ReturnCancelled,
           ReturnRefused, ReturnTold, ReturnLost, Return, GoesOn, Notify, WaitInterrupted,
           WaitElapsed, streamVars
  <2>4. QED BY <2>1, <2>2, <2>3
<1>2. Cancel => joined' = joined
  BY DEF Cancel, streamVars
<1>3. ASSUME NEW c \in Conns, Reads(c) \/ Report(c) \/ ResetStream(c) \/ Closes(c) \/ Breaks(c)
      PROVE  joined' = joined
  BY <1>3 DEF Reads, ReadTag, ReadHead, ReadBody, ReadGarbage, ReadEOF, Report, ReaderUnchanged,
              ResetStream, Breaks, Cut, Closes, CloseHead, CloseBody, CloseWrites, CloseFails,
              CloseStream, CloseSession
<1>4. ASSUME NEW c \in Conns, Handles(c) \/ OperatorCloses(c) \/ ShutdownCloses(c)
      PROVE  joined' = joined
  BY <1>4 DEF Handles, Grant, RefuseTaken, RefuseOther, HelloLost, SendAck, HandshakeFails,
              Serve, OpenSession, SessionOver, Release, ReleaseCloses, OperatorCloses,
              ShutdownCloses, CloseBegin, streamVars
<1>5. ASSUME NEW d \in Conns, Carries(d)
      PROVE  \/ joined' = joined
             \/ /\ joined[d] = "open" /\ at' = at /\ current' = current
                /\ \A c \in Conns : c # d => joined'[c] = joined[c]
  BY <1>t, <1>5 DEF Carries, Deliver, AgentSeesEnd, ServerSeesEnd, LeaveSession, OthersUnchanged,
                    runVars
<1>6. ASSUME NEW e \in Emitters, Emits(e) \/ \E d \in Conns : EdgeEmits(e, d)
      PROVE  joined' = joined
  BY <1>6 DEF Emits, EdgeEmits, EmitHead, EmitBody, EmitWrites, EmitFails, EmitStart
<1>7. QED BY <1>1, <1>2, <1>3, <1>4, <1>5, <1>6 DEF Next

\* What a step of a connection's handler does to what the agent is told.
LEMMA HandlerMoves ==
    ASSUME TypeOK, NEW c \in Conns, Handles(c) \/ OperatorCloses(c)
    PROVE  /\ asked' = asked
           /\ \A d \in Conns : d # c => handler'[d] = handler[d] /\ ack'[d] = ack[d]
           /\ \/ handler'[c] = handler[c] /\ ack'[c] = ack[c]
              \/ /\ handler[c] = "hello" /\ handler'[c] = "ack"
                 /\ ack'[c].name \in Names /\ asked[c] \in {ack'[c].name, NoName}
              \/ /\ handler[c] = "hello" /\ handler'[c] = "done"
                 /\ ack'[c].code # "ok" \/ ack'[c] = ack[c]
                 /\ ack'[c].name = ack[c].name
              \/ /\ handler[c] = "ack" /\ handler'[c] = "open"
                 /\ ack'[c].name = ack[c].name
              \/ /\ handler[c] \notin {"none", "hello"}
                 /\ handler'[c] \in {"release", "serve", "close", "done"}
                 /\ ack'[c] = ack[c]
<1>t. /\ handler \in [Conns -> {"none", "hello", "ack", "open", "serve", "release", "close", "done"}]
      /\ ack \in [Conns -> [code : {"none", "ok", "taken", "denied"}, name : Names \cup {NoName}]]
  BY DEF TypeOK, ServerOK
<1>1. CASE Grant(c)
  <2>1. PICK n \in Names : /\ asked[c] \in {n, NoName}
                           /\ ack' = [ack EXCEPT ![c] = [code |-> "none", name |-> n]]
    BY <1>1 DEF Grant
  <2>2. handler[c] = "hello" /\ handler' = [handler EXCEPT ![c] = "ack"] /\ asked' = asked
    BY <1>1 DEF Grant
  <2>3. QED BY <1>t, <2>1, <2>2
<1>2. CASE RefuseTaken(c) \/ RefuseOther(c)
  BY <1>t, <1>2 DEF RefuseTaken, RefuseOther
<1>3. CASE HelloLost(c)
  BY <1>t, <1>3 DEF HelloLost
<1>4. CASE SendAck(c)
  BY <1>t, <1>4 DEF SendAck
<1>5. CASE HandshakeFails(c) \/ Serve(c) \/ SessionOver(c)
  BY <1>t, <1>5 DEF HandshakeFails, Serve, SessionOver
<1>6. CASE Release(c) \/ ReleaseCloses(c)
  BY <1>t, <1>6 DEF Release, ReleaseCloses
<1>7. CASE OperatorCloses(c)
  BY <1>7 DEF OperatorCloses
<1>8. QED BY <1>1, <1>2, <1>3, <1>4, <1>5, <1>6, <1>7 DEF Handles

\* The guards of a handler's steps, and of an operator's.
LEMMA HandlerBegun ==
    ASSUME NEW c \in Conns, Handles(c)
    PROVE  handler[c] # "none"
BY DEF Handles, Grant, RefuseTaken, RefuseOther, HelloLost, SendAck, HandshakeFails, Serve,
       SessionOver, Release, ReleaseCloses

LEMMA RunInvStep ==
    ASSUME IInv, Next
    PROVE  RunInv'
<1>t. /\ TypeOK /\ RunInv
      /\ joined \in [Conns -> {"none", "open", "closed"}]
      /\ handler \in [Conns -> {"none", "hello", "ack", "open", "serve", "release", "close", "done"}]
      /\ current \in 0 .. MaxSessions
      /\ at \in {"dial", "hello", "serve", "drain", "close", "over", "notify", "wait", "returned"}
  BY DEF IInv, TypeOK, StreamTypeOK, EndsOK, ServerOK, RunOK
<1>1. CASE Dial
  <2>1. /\ at = "dial" /\ current < MaxSessions /\ current' = current + 1 /\ at' = "hello"
        /\ joined' = joined
        /\ handler' = [handler EXCEPT ![current + 1] = "hello"]
    BY <1>1 DEF Dial
  <2>2. current' \in Conns /\ \A c \in Conns : c > current' => c > current /\ c # current + 1
    BY <1>t, <2>1, EventStreamAssumption DEF Conns
  <2>3. current' > current
    BY <1>t, <2>1
  <2>4. joined[current'] = "none"
    BY <1>t, <2>2, <2>3 DEF RunInv
  <2>5. \A c \in Conns : c > current' => joined'[c] = "none" /\ handler'[c] = "none"
    BY <1>t, <2>1, <2>2 DEF RunInv
  <2>6. QED BY <2>1, <2>2, <2>4, <2>5 DEF RunInv
<1>2. ASSUME ~Dial PROVE RunInv'
  <2>1. current' = current
    BY <1>2, RunMoves DEF ReadAck, Drain, GoesOn
  <2>2. at' \in {"hello", "serve", "drain", "close"} =>
           at \in {"hello", "serve", "drain", "close"}
    BY <1>2, RunMoves DEF ReadAck, Drain, GoesOn
  <2>3. at' = "hello" => at = "hello"
    BY <1>2, RunMoves DEF ReadAck, Drain, GoesOn
  <2>4. at \in {"hello", "serve", "close"} => current \in Conns
    BY <1>t DEF RunInv
  <2>5. at' = "hello" => joined'[current] = "none"
    <3>1. ASSUME NEW d \in Conns, joined[d] = "open",
                 \A c \in Conns : c # d => joined'[c] = joined[c], at' = "hello"
          PROVE  joined'[current] = "none"
      BY <1>t, <2>3, <2>4, <3>1 DEF RunInv
    <3>2. QED BY <1>t, <2>3, <2>4, <3>1, JoinMoves DEF RunInv
  <2>6. ASSUME NEW c \in Conns, c > current
        PROVE  joined'[c] = "none"
    <3>1. joined[c] = "none" /\ c # current
      BY <1>t, <2>6 DEF RunInv
    <3>2. QED BY <3>1, JoinMoves, <1>t
  <2>7. ASSUME NEW c \in Conns, c > current
        PROVE  handler'[c] = "none"
    <3>1. handler[c] = "none"
      BY <1>t, <2>7 DEF RunInv
    <3>2. ASSUME NEW d \in Conns, Handles(d) PROVE handler'[c] = handler[c]
      BY <1>t, <3>1, <3>2, HandlerBegun, HandlerMoves
    <3>3. ASSUME NEW d \in Conns, OperatorCloses(d) PROVE handler'[c] = handler[c]
      BY <3>3 DEF OperatorCloses
    <3>4. UNCHANGED serverVars => handler' = handler
      BY DEF serverVars
    <3>5. QED BY <1>2, <3>1, <3>2, <3>3, <3>4, WhoMoves
  <2>8. QED BY <1>t, <2>1, <2>2, <2>5, <2>6, <2>7 DEF RunInv
<1>3. QED BY <1>1, <1>2

\* What is known of each connection's answer.
Answered(c) ==
    /\ handler[c] = "none" => ack[c] = NoAck
    /\ handler[c] = "hello" => ack[c] = NoAck
    /\ handler[c] \in {"ack", "open"} \/ ack[c].code = "ok" => ack[c].name \in Names
    /\ asked[c] # NoName => ack[c].name \in {NoName, asked[c]}

LEMMA AnsweredStep ==
    ASSUME IInv, Next, NEW c \in Conns
    PROVE  Answered(c)'
<1>t. /\ TypeOK /\ RunInv /\ Answered(c)
      /\ handler \in [Conns -> {"none", "hello", "ack", "open", "serve", "release", "close", "done"}]
      /\ asked \in [Conns -> Names \cup {NoName}]
      /\ ack \in [Conns -> [code : {"none", "ok", "taken", "denied"}, name : Names \cup {NoName}]]
      /\ current \in 0 .. MaxSessions
  BY DEF IInv, TypeOK, ServerOK, RunOK, NameInv, Answered
<1>1. CASE Dial
  <2>1. /\ current + 1 \in Conns
        /\ handler' = [handler EXCEPT ![current + 1] = "hello"]
        /\ asked' = [asked EXCEPT ![current + 1] = HelloName]
        /\ ack' = ack
    BY <1>t, <1>1, EventStreamAssumption DEF Dial, Conns
  <2>2. handler[current + 1] = "none"
    BY <1>t, <2>1 DEF RunInv
  <2>3. CASE c = current + 1
    <3>1. ack[c] = NoAck /\ handler'[c] = "hello" /\ ack'[c] = ack[c]
      BY <1>t, <2>1, <2>2, <2>3 DEF Answered
    <3>2. QED BY <3>1 DEF Answered, NoAck
  <2>4. CASE c # current + 1
    BY <1>t, <2>1, <2>4 DEF Answered
  <2>5. QED BY <2>3, <2>4
<1>2. ASSUME NEW d \in Conns, Handles(d) \/ OperatorCloses(d)
      PROVE  Answered(c)'
  <2>1. CASE d = c
    <3>1. CASE handler'[c] = handler[c] /\ ack'[c] = ack[c] /\ asked' = asked
      BY <1>t, <3>1 DEF Answered
    <3>2. CASE /\ handler[c] = "hello" /\ handler'[c] = "ack" /\ asked' = asked
               /\ ack'[c].name \in Names /\ asked[c] \in {ack'[c].name, NoName}
      BY <3>2 DEF Answered
    <3>3. CASE /\ handler[c] = "hello" /\ handler'[c] = "done" /\ asked' = asked
               /\ ack'[c].code # "ok" \/ ack'[c] = ack[c]
               /\ ack'[c].name = ack[c].name
      BY <1>t, <3>3 DEF Answered
    <3>4. CASE /\ handler[c] = "ack" /\ handler'[c] = "open" /\ asked' = asked
               /\ ack'[c].name = ack[c].name
      BY <1>t, <3>4 DEF Answered
    <3>5. CASE /\ handler[c] \notin {"none", "hello"} /\ asked' = asked
               /\ handler'[c] \in {"release", "serve", "close", "done"}
               /\ ack'[c] = ack[c]
      BY <1>t, <3>5 DEF Answered
    <3>6. QED BY <1>t, <1>2, <2>1, <3>1, <3>2, <3>3, <3>4, <3>5, HandlerMoves
  <2>2. CASE d # c
    <3>1. asked' = asked /\ handler'[c] = handler[c] /\ ack'[c] = ack[c]
      BY <1>t, <1>2, <2>2, HandlerMoves
    <3>2. QED BY <1>t, <3>1 DEF Answered
  <2>3. QED BY <2>1, <2>2
<1>3. CASE UNCHANGED serverVars
  BY <1>t, <1>3 DEF serverVars, Answered
<1>4. QED BY <1>1, <1>2, <1>3, WhoMoves

\* The answer to the latest Hello names what the agent wants, or has.
LEMMA AckNames ==
    ASSUME IInv, ReadAck
    PROVE  /\ ack[current].name \in Names
           /\ wanted # NoName => ack[current].name = wanted
           /\ wanted = NoName /\ granted # NoName => ack[current].name = granted
<1>1. at = "hello" /\ ack[current].code = "ok"
  BY DEF ReadAck
<1>2. current \in Conns /\ asked[current] = HelloName
  BY <1>1 DEF IInv, RunInv, NameInv
<1>3. /\ ack[current].name \in Names
      /\ asked[current] # NoName => ack[current].name \in {NoName, asked[current]}
  BY <1>1, <1>2 DEF IInv, NameInv
<1>4. QED BY <1>2, <1>3, AgentAssumption DEF HelloName

LEMMA NameStep ==
    ASSUME IInv, Next
    PROVE  NameInv'
<1>t. /\ TypeOK /\ RunInv /\ NameInv
      /\ asked \in [Conns -> Names \cup {NoName}]
      /\ current \in 0 .. MaxSessions
  BY DEF IInv, TypeOK, ServerOK, RunOK
<1>1. \A c \in Conns : Answered(c)'
  BY AnsweredStep
<1>2. wanted' # NoName => granted' \in {NoName, wanted'}
  <2>1. CASE ReadAck
    BY <2>1, AckNames DEF ReadAck
  <2>2. CASE ~ReadAck
    BY <1>t, <2>2, RunMoves DEF NameInv, Dial, Drain, GoesOn
  <2>3. QED BY <2>1, <2>2
<1>3. at' = "hello" => asked'[current'] = HelloName'
  <2>1. CASE Dial
    <3>1. current + 1 \in Conns
      BY <1>t, <2>1, EventStreamAssumption DEF Dial, Conns
    <3>2. QED BY <1>t, <2>1, <3>1 DEF Dial, HelloName
  <2>2. ASSUME ~Dial, at' = "hello" PROVE asked'[current'] = HelloName'
    <3>1. at = "hello" /\ UNCHANGED <<current, wanted, granted>>
      BY <2>2, RunMoves DEF ReadAck, Drain, GoesOn
    <3>2. asked' = asked
      BY <1>t, <2>2, WhoMoves, HandlerMoves DEF serverVars
    <3>3. QED BY <1>t, <3>1, <3>2 DEF NameInv, HelloName
  <2>3. QED BY <2>1, <2>2
<1>4. QED BY <1>1, <1>2, <1>3 DEF NameInv, Answered

-----------------------------------------------------------------------------
(* The theorems.                                                           *)

LEMMA InitInv == Init => IInv
<1> SUFFICES ASSUME Init PROVE IInv
  OBVIOUS
<1>1. PipesOK /\ \A c \in Conns : inbox[c] = <<>> /\ wire[c] = <<>> /\ Pipe(c) = <<>>
  BY ConcatFacts DEF Init, StreamInit, PipesOK, Pipe
<1>2. \A c \in Conns : Len(wire[c]) = 0 /\ Len(inbox[c]) = 0
  BY <1>1 DEF PipesOK
<1>3. EndsOK
  BY EventStreamAssumption DEF Init, StreamInit, EndsOK, Conns
<1>4. RunOK /\ ReaderOK
  <2>1. 0 \in 0 .. MaxSessions
    BY EventStreamAssumption
  <2>2. RunOK
    BY <2>1, Zenon DEF Init, RunOK
  <2>3. ReaderOK
    BY Zenon DEF Init, ReaderOK
  <2>4. QED BY <2>2, <2>3
<1>10. ServerOK
  <2>1. NoAck \in [code : {"none", "ok", "taken", "denied"}, name : Names \cup {NoName}]
    BY DEF NoAck
  <2>2. QED BY <2>1 DEF Init, ServerOK, Lease!LeaseInit
<1>5. TypeOK
  <2>1. \A c \in Conns : Len(wire[c]) + Len(inbox[c]) <= Window + 1
    BY <1>1, <1>2, EventStreamAssumption DEF PipesOK
  <2>2. QED BY <1>1, <1>3, <1>4, <1>10, <2>1 DEF TypeOK, StreamTypeOK
<1>6. ASSUME NEW c \in Conns PROVE StreamInv(c)
  <2>1. /\ reader[c] = "none" /\ frame[c] = NoWriter /\ stopRetry = FALSE
        /\ closer[c] = [at |-> "idle", final |-> FALSE]
        /\ handler[c] = "none" /\ session[c] = "none" /\ stream[c] = "none"
    BY DEF Init, StreamInit
  <2>2. CloseKept(c)
    BY <1>1, <2>1 DEF CloseKept, Kept, Reaches, Writable, EventAhead, RestAhead, WillStop, HalfWritten
  <2>3. Unserved(c) /\ TagFirst(c)
    BY <1>1, <2>1 DEF Unserved, TagFirst
  <2>4. InWindow(c)
    BY <1>1, <1>2, EventStreamAssumption DEF InWindow, PipesOK
  <2>5. QED BY <2>1, <2>2, <2>3, <2>4 DEF StreamInv
<1>7. RunInv /\ StopInv /\ DrainInv
  BY DEF Init, StreamInit, RunInv, StopInv, DrainInv, CleanCloseIsHeeded
<1>8. NameInv
  BY DEF Init, NameInv, NoAck
<1>9. QED BY <1>5, <1>6, <1>7, <1>8 DEF IInv

LEMMA NextInv == IInv /\ Next => IInv'
<1> SUFFICES ASSUME IInv, Next PROVE IInv'
  OBVIOUS
<1>1. PipesOK'
  BY PipesStep DEF IInv
<1>2. StreamsKept
  BY <1>1, StreamStep
<1>3. TypeOK'
  BY <1>1, <1>2, TypeStep
<1>4. QED BY <1>2, <1>3, StopStep, DrainStep, RunInvStep, NameStep DEF IInv, StreamsKept

LEMMA StutterInv == IInv /\ UNCHANGED vars => IInv'
<1> SUFFICES ASSUME IInv, UNCHANGED vars PROVE IInv'
  OBVIOUS
<1>1. UNCHANGED <<link, session, joined, stream, events, closer, emitter, wire, inbox,
                  at, current, wanted, reconnect, granted, stopRetry, cancelled, outcome,
                  result, drained, reader, frame, seen, handler, asked, ack, holder, life>>
  BY DEF vars, streamVars, runVars, readerVars, serverVars
<1>2. TypeOK'
  BY <1>1 DEF IInv, TypeOK, StreamTypeOK, EndsOK, PipesOK, RunOK, ReaderOK, ServerOK
<1>3. \A c \in Conns : StreamInv(c)'
  <2>1. ASSUME NEW c \in Conns PROVE StreamInv(c)'
    BY <1>1 DEF IInv, StreamInv, CloseKept, Unserved, TagFirst, InWindow, Pipe, Reaches, Writable
  <2>2. QED BY <2>1
<1>4. RunInv' /\ StopInv' /\ DrainInv'
  BY <1>1 DEF IInv, RunInv, StopInv, DrainInv, CleanCloseIsHeeded, ReaderDone
<1>5. NameInv'
  BY <1>1 DEF IInv, NameInv, HelloName
<1>6. QED BY <1>2, <1>3, <1>4, <1>5 DEF IInv

\* Agent and server keep the invariant that ties a tunnel's close to what is
\* still on its way: a close event is written whole, ahead of the end of the
\* stream, or nothing written after it reaches the agent.
THEOREM AgentInvariance == Spec => []IInv
<1>1. IInv /\ [Next]_vars => IInv'
  BY NextInv, StutterInv
<1>2. QED BY <1>1, InitInv, PTL DEF Spec

\* Every variable of the agent, the stream and the server's half keeps its
\* type, and no stream ever holds more than its window and its end.
THEOREM TypeCorrect == Spec => []TypeOK
<1>1. IInv => TypeOK
  BY DEF IInv
<1>2. QED BY <1>1, AgentInvariance, PTL

\* Run (agent.go) returns "told to stop" only for a close an operator made: a
\* shutdown, a broken link or a garbled stream never keep an agent away.
THEOREM OnlyOperatorsTell == Spec => []ToldOnlyByOperator
<1>1. IInv => ToldOnlyByOperator
  BY DEF IInv, StopInv, ToldOnlyByOperator
<1>2. QED BY <1>1, AgentInvariance, PTL

\* A final close whose stream the reader finished in the time drain allows is
\* heeded: Run does not try again, although the session's end and the close
\* event reach it by two goroutines.
THEOREM CleanCloseHeeded == Spec => []CleanCloseIsHeeded
<1>1. IInv => CleanCloseIsHeeded
  BY DEF IInv, DrainInv
<1>2. QED BY <1>1, AgentInvariance, PTL

\* The name the server granted is the name of every later session, whatever
\* connections come and go between and whoever else asks for it.
THEOREM NameKept == Spec => KeepsItsName
<1>1. IInv /\ Next => (granted # NoName => granted' = granted)
  <2> SUFFICES ASSUME IInv, Next, granted # NoName PROVE granted' = granted
    OBVIOUS
  <2>1. CASE ReadAck
    <3>1. wanted # NoName => granted = wanted
      BY DEF IInv, NameInv
    <3>2. QED BY <2>1, <3>1, AckNames DEF ReadAck
  <2>2. CASE ~ReadAck
    BY <2>2, RunMoves DEF Dial, Drain, GoesOn
  <2>3. QED BY <2>1, <2>2
<1>2. UNCHANGED vars => granted' = granted
  BY DEF vars, runVars
<1>3. IInv /\ [Next]_vars => [granted # NoName => granted' = granted]_vars
  BY <1>1, <1>2
<1>4. QED BY <1>3, AgentInvariance, PTL DEF Spec, KeepsItsName

\* The server's half of this module leases names as NameLease promises, which
\* the server itself is proved to do: the two halves meet in one contract.
THEOREM AgentServerLeases == Spec => Lease!LeaseSpec
<1>1. Init => Lease!LeaseInit
  BY DEF Init
<1>2. [Next]_vars => [Lease!LeaseNext]_<<holder, life>>
  <2> SUFFICES ASSUME [Next]_vars PROVE Lease!LeaseNext \/ UNCHANGED <<holder, life>>
    OBVIOUS
  <2>1. CASE Dial
    BY <2>1 DEF Dial
  <2>2. ASSUME NEW c \in Conns, Handles(c)
        PROVE  Lease!LeaseNext \/ UNCHANGED <<holder, life>>
    <3>1. CASE Grant(c)
      BY <3>1 DEF Grant, Lease!LeaseNext
    <3>2. CASE RefuseTaken(c) \/ RefuseOther(c) \/ HelloLost(c)
      BY <3>2 DEF RefuseTaken, RefuseOther, HelloLost, Lease!LeaseNext
    <3>3. CASE SendAck(c) \/ HandshakeFails(c) \/ Serve(c) \/ SessionOver(c) \/ ReleaseCloses(c)
      BY <3>3 DEF SendAck, HandshakeFails, Serve, SessionOver, ReleaseCloses
    <3>4. CASE Release(c)
      BY <3>4 DEF Release, GivesBack, Lease!LeaseNext
    <3>5. QED BY <2>2, <3>1, <3>2, <3>3, <3>4 DEF Handles
  <2>3. ASSUME NEW c \in Conns, OperatorCloses(c)
        PROVE  Lease!LeaseNext
    BY <2>3 DEF OperatorCloses, Lease!LeaseNext
  <2>4. UNCHANGED serverVars => UNCHANGED <<holder, life>>
    BY DEF serverVars
  <2>5. UNCHANGED vars => UNCHANGED serverVars
    BY DEF vars
  <2>6. QED BY <2>1, <2>2, <2>3, <2>4, <2>5, WhoMoves
<1>3. QED BY <1>1, <1>2, PTL DEF Spec, Lease!LeaseSpec, Lease!leaseVars

=============================================================================
