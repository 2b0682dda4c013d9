---------------------------- MODULE PaymentFetch -----------------------------
(***************************************************************************)
(* The buyer's side of x402: the function marcFetch returns                *)
(* (sdk/src/marcFetch.ts), composed with the paywall it talks to.  A call  *)
(* makes at most maxPaymentAttempts attempts; each fetches, and on a 402   *)
(* signs a proof and repeats the request with it up to retries times more. *)
(* A fetch fails when the network loses it or the timeout aborts it; the   *)
(* server may have the request all the same.                               *)
(***************************************************************************)
EXTENDS Paywall, Naturals, Sequences, SequencesExt

CONSTANTS
    maxPaymentAttempts, \* option of marcFetch
    retries             \* option of marcFetch

ASSUME FetchAssumption ==
    /\ maxPaymentAttempts \in Nat \ {0}
    /\ retries \in Nat

VARIABLE
    call    \* the calls of marcFetch in progress

(***************************************************************************)
(* pc: where the call stands.  attempts, retry, paymentTriggered: its      *)
(* local variables.  proof: the X-PAYMENT header of requestInit, kept from *)
(* one attempt to the next.  signed: proofs made so far.  r: the request   *)
(* it awaits.  result: the status returned, or the error thrown.           *)
(***************************************************************************)
Call == [ pc : {"idle", "fetch", "await", "pay", "refetch", "reawait", "done"},
          attempts : 0..maxPaymentAttempts, retry : 0..retries,
          triggered : BOOLEAN, proof : Proofs \cup {NoProof}, signed : 0..MaxPay,
          r : Reqs \cup {0}, reported : {"", "signing", "pending", "settled", "failed"},
          result : {"none", "error", "MarcPaymentTimeoutError", "200", "402", "409", "500"} ]

FetchInit ==
    call = [c \in Calls |-> [ pc |-> "idle", attempts |-> 0, retry |-> 0,
              triggered |-> FALSE, proof |-> NoProof, signed |-> 0, r |-> 0,
              reported |-> "", result |-> "none" ]]

Goto(c, pc) == [call[c] EXCEPT !.pc = pc]
Returns(rec, result) == [rec EXCEPT !.pc = "done", !.result = result, !.r = 0]

\* Mutant: One attempt more than maxPaymentAttempts.
CaughtLate(rec) ==
    IF rec.attempts > maxPaymentAttempts THEN Returns(rec, "error")
    ELSE [rec EXCEPT !.pc = "fetch", !.attempts = @ + 1, !.r = 0]

\* The catch clause: another attempt when one is left, else the error is thrown.
Caught(rec) ==
    IF rec.attempts >= maxPaymentAttempts THEN Returns(rec, "error")
    ELSE [rec EXCEPT !.pc = "fetch", !.attempts = @ + 1, !.r = 0]

\* onPayment("settled") is only reported for a good answer after a payment.
Report(rec, status) ==
    IF rec.triggered /\ status = "200" THEN [rec EXCEPT !.reported = "settled"] ELSE rec

-----------------------------------------------------------------------------
BeginCall(c) ==
    /\ call[c].pc = "idle"
    /\ call' = [call EXCEPT ![c] = [Goto(c, "fetch") EXCEPT !.attempts = 1]]
    /\ UNCHANGED serverVars

\* baseFetch: the request leaves with the headers of requestInit.
BaseFetch(c) ==
    /\ call[c].pc \in {"fetch", "refetch"}
    /\ \E r \in Reqs :
         /\ req[r].at = "free"
         /\ req' = [req EXCEPT ![r] = [FreeRequest EXCEPT !.call = c,
                      !.proof = call[c].proof, !.at = "sent", !.open = TRUE]]
         /\ call' = [call EXCEPT ![c].r = r,
                      ![c].pc = IF @ = "fetch" THEN "await" ELSE "reawait"]
    /\ UNCHANGED <<adapter, cache, settled, runs, forgot, forgets, transients>>

\* The client is done with a request and its slot is free again.
Collected(r) == [req EXCEPT ![r] = FreeRequest]

\* The first fetch of an attempt is answered: anything but a 402 is returned,
\* and so is a 402 in the last attempt; otherwise the call goes on to pay.
FirstAnswer(c) ==
    LET r == call[c].r status == req[r].status
        final == status # "402" \/ call[c].attempts >= maxPaymentAttempts
    IN  /\ call[c].pc = "await" /\ req[r].at = "answered"
        /\ req' = Collected(r)
        /\ call' = [call EXCEPT ![c] =
              IF final THEN Returns(Report(@, status), status)
              ELSE [@ EXCEPT !.pc = "pay", !.triggered = TRUE, !.r = 0,
                             !.reported = "signing"]]
        /\ UNCHANGED <<adapter, cache, settled, runs, forgot, forgets, transients>>

\* createPaymentPayload signs a new proof, or throws into the catch clause.
SignPayment(c) ==
    /\ call[c].pc = "pay"
    /\ \/ /\ call[c].signed < MaxPay
          /\ call' = [call EXCEPT ![c].pc = "refetch", ![c].retry = 0,
                        ![c].signed = @ + 1, ![c].proof = <<c, call[c].signed + 1>>,
                        ![c].reported = "pending"]
       \/ call' = [call EXCEPT ![c] = Caught([@ EXCEPT !.reported = "failed"])]
    /\ UNCHANGED serverVars

\* A paid fetch is answered.  On a 402 it is repeated, after a delay, until the
\* retries are used up; MarcPaymentTimeoutError is not caught.
PaidAnswer(c) ==
    LET r == call[c].r status == req[r].status
    IN  /\ call[c].pc = "reawait" /\ req[r].at = "answered"
        /\ req' = Collected(r)
        /\ call' = [call EXCEPT ![c] =
              IF status # "402" THEN Returns(Report(@, status), status)
              ELSE IF call[c].retry < retries
              THEN [@ EXCEPT !.pc = "refetch", !.retry = call[c].retry + 1, !.r = 0]
              ELSE Returns([@ EXCEPT !.reported = "failed"], "MarcPaymentTimeoutError")]
        /\ UNCHANGED <<adapter, cache, settled, runs, forgot, forgets, transients>>

\* The fetch throws: the request never arrives, the answer is lost, or the
\* AbortController fires.  A request the server has stays there, with its
\* connection closed.
FetchFails(c) ==
    LET r == call[c].r
    IN  /\ call[c].pc \in {"await", "reawait"}
        /\ \/ /\ req[r].at \in {"sent", "answered", "gone"}
              /\ req' = Collected(r)
              /\ UNCHANGED <<cache, forgot>>
           \/ /\ req[r].at \in {"sent", "verifying", "handling"}
              /\ req' = [req EXCEPT ![r].open = FALSE]
              /\ ConnectionCloses(r)
        /\ call' = [call EXCEPT ![c] = Caught(@)]
        /\ UNCHANGED <<adapter, settled, runs, forgets, transients>>

\* The server is done with a request nobody waits for.
DropAnswer(r) ==
    /\ req[r].at \in {"answered", "gone"} /\ ~req[r].open
    /\ req' = Collected(r)
    /\ UNCHANGED <<adapter, cache, settled, runs, forgot, forgets, transients, call>>

FetchNext ==
    \/ \E c \in Calls : \/ BeginCall(c) \/ BaseFetch(c) \/ FirstAnswer(c)
                        \/ SignPayment(c) \/ PaidAnswer(c) \/ FetchFails(c)
    \/ \E r \in Reqs : DropAnswer(r)
    \/ PaywallNext /\ UNCHANGED call

FetchTypeOK == call \in [Calls -> Call]

x402Vars == <<serverVars, call>>

-----------------------------------------------------------------------------
ProofsOf(c) == {p \in Proofs : p[1] = c}

\* Behind the Express paywall a call of marcFetch is charged at most once, however
\* often it attempts, retries or times out, and a proof is served by one run of the
\* handler: as long as the claim of no proof is dropped early, by its expiry, a
\* restart, an error of the middleware or a client that hangs up.
ChargedOnce ==
    adapter = "express" =>
      /\ \A c \in Calls : ProofsOf(c) \cap forgot = {} =>
           Cardinality(settled \cap ProofsOf(c)) <= 1
      /\ \A p \in Proofs \ forgot : \A r, s \in Reqs :
           <<p, r>> \in runs /\ <<p, s>> \in runs => r = s

-----------------------------------------------------------------------------
(***************************************************************************)
(* marcFetchStream (sdk/src/marcFetch.ts): the body of a paid response is  *)
(* read piece by piece and its lines handed to onChunk, up to "[DONE]", to *)
(* maxChunks, to the caller's abort, or to the end of the stream.          *)
(*                                                                         *)
(* A line is "data", "keepalive" (blank or a comment) or "done".  The      *)
(* pieces reader.read returns end anywhere, also inside a line.            *)
(***************************************************************************)
CONSTANTS
    maxChunks,      \* option; 0 is no limit
    MaxLines        \* lines of a response body

ASSUME StreamAssumption == maxChunks \in Nat /\ MaxLines \in Nat

VARIABLES
    body,       \* external: the lines of the response, the last one without newline
    taken,      \* external: complete lines read so far
    delivered,  \* what onChunk was called with
    chunkCount, aborted, stream     \* stream: "reading" or "returned"

streamVars == <<body, taken, delivered, chunkCount, aborted, stream>>

Lines == {"data", "keepalive", "done"}

StreamStart(lines, signalAborted) ==
    /\ body = lines /\ aborted = signalAborted
    /\ taken = 0 /\ delivered = <<>> /\ chunkCount = 0
    /\ stream = "reading"

StreamInit ==
    \E n \in 1..MaxLines : \E lines \in [1..n -> Lines], a \in BOOLEAN : StreamStart(lines, a)

\* decodeStreamLine: keep-alives are no chunks.
Chunks(lines) == SelectSeq(lines, LAMBDA l : l # "keepalive")

\* The chunk at which a batch stops: "[DONE]", or the one that fills maxChunks.
StopsAt(chunks, i) ==
    chunks[i] = "done" \/ (maxChunks > 0 /\ chunkCount + i >= maxChunks)

\* What onChunk gets of a batch; the chunk that fills maxChunks is followed by
\* a made-up "[DONE]".
Batch(chunks) ==
    LET stops == {i \in DOMAIN chunks : StopsAt(chunks, i)}
        last == CHOOSE i \in stops : \A j \in stops : i <= j
    IN  IF stops = {} THEN chunks
        ELSE IF chunks[last] = "done" THEN SubSeq(chunks, 1, last)
        ELSE Append(SubSeq(chunks, 1, last), "done")

\* reader.read returns: the lines completed by this piece are handed over in
\* one go.  An abort made by onChunk is only seen before the next read.
ReadPiece ==
    /\ stream = "reading" /\ ~aborted
    /\ \E n \in taken..(Len(body) - 1) :
         LET batch == Batch(Chunks(SubSeq(body, taken + 1, n)))
             stops == \E i \in DOMAIN batch : batch[i] = "done"
         IN  /\ taken' = n
             /\ delivered' = delivered \o batch
             /\ chunkCount' = chunkCount + Len(batch)
             /\ aborted' \in IF stops THEN {TRUE} ELSE BOOLEAN
    /\ UNCHANGED <<body, stream>>

\* The stream ends: what is left in the buffer is the last line.
EndOfStream ==
    /\ stream = "reading" /\ ~aborted /\ taken = Len(body) - 1
    /\ delivered' = delivered \o Chunks(<<Last(body)>>)
    /\ stream' = "returned"
    /\ UNCHANGED <<body, taken, chunkCount, aborted>>

\* The abort event of the caller's signal, while a read is awaited.
OnAbort ==
    /\ stream = "reading" /\ ~aborted
    /\ aborted' = TRUE
    /\ UNCHANGED <<body, taken, delivered, chunkCount, stream>>

\* The loop is left without a flush; finally removes the listener and cancels.
Aborted ==
    /\ stream = "reading" /\ aborted
    /\ stream' = "returned"
    /\ UNCHANGED <<body, taken, delivered, chunkCount, aborted>>

StreamNext == ReadPiece \/ EndOfStream \/ OnAbort \/ Aborted

-----------------------------------------------------------------------------
\* What was handed over is the beginning of the response's chunks, each once and
\* in order, with nothing behind "[DONE]" and never more than maxChunks of data,
\* however the pieces fall: the hazard is a line handed over twice or lost where
\* a piece ends, and the limit overrun by the line left in the buffer.
ChunksInOrder ==
    LET data == SelectSeq(delivered, LAMBDA c : c = "data")
        sent == Chunks(body)
    IN  /\ \A i \in 1..(Len(delivered) - 1) : delivered[i] = "data"
        /\ IsPrefix(data, sent)
        /\ maxChunks > 0 => Len(data) <= maxChunks
=============================================================================
