-------------------------------- MODULE Stream --------------------------------
(***************************************************************************)
(* A stream of FaultTolerantUpstreamClient over RealUpstreamClient, from   *)
(* the provider's answer to the consumer: a goroutine (the reader) cuts    *)
(* the body into events and puts them into a channel, a second one (the    *)
(* forwarder) hands them on, and both end when the body or the consumer's  *)
(* context does.  The body is a sequence of pieces, PerEvent of them to an *)
(* event, and a read returns any number of those that have arrived.        *)
(***************************************************************************)
EXTENDS Naturals, Sequences

CONSTANTS
  Events,    \* the events of the whole answer, "[DONE]" among them
  Capacity   \* of the reader's channel

ASSUME EventsAssumption == Events \in Nat
ASSUME CapacityAssumption == Capacity \in Nat \ {0}

VARIABLES
  body,       \* the response: "open", "ended" or "broken"
  written,    \* pieces the provider has sent
  taken,      \* pieces the reader has read
  parsed,     \* events ParseEvent has returned
  reader,     \* where the reader is: "check", "read", "send", "done"
  parcel,     \* what it is about to send
  channel,    \* outCh of RealUpstreamClient
  forwarder,  \* where the forwarder is: "take", "give", "done"
  carried,    \* what it is about to give
  consumer,   \* "reading", "finished" with the closed channel, or "gone"
  cancelled,  \* whether its context is
  received,   \* events the consumer has got
  told,       \* whether it has got an error
  burst       \* history: a read has ended two events, or come with the end

source == <<body, written>>
reading == <<taken, parsed, reader, parcel, burst>>
forwarding == <<forwarder, carried>>
consuming == <<consumer, cancelled, received, told>>
svars == <<source, reading, channel, forwarding, consuming>>

\* An event is a line of data in two pieces, and a blank line.
PerEvent == 3
Pieces == PerEvent * Events

\* The message without content that ParseEvent returns when no event is
\* complete, and the one with the error of a read.
Nothing == 0
Broken == Events + 1
Message == 0 .. Events + 1

StreamInit ==
  /\ body = "open" /\ written = 0
  /\ taken = 0 /\ parsed = 0 /\ reader = "check" /\ parcel = Nothing /\ burst = FALSE
  /\ channel = <<>>
  /\ forwarder = "take" /\ carried = Nothing
  /\ consumer = "reading" /\ cancelled = FALSE /\ received = 0 /\ told = FALSE

-----------------------------------------------------------------------------
(***************************************************************************)
(* The provider and the connection, whose 60 seconds may run out.          *)
(***************************************************************************)
SendPiece ==
  /\ body = "open" /\ written < Pieces
  /\ written' = written + 1
  /\ UNCHANGED <<body, reading, channel, forwarding, consuming>>

EndBody ==
  /\ body = "open" /\ written = Pieces
  /\ body' = "ended"
  /\ UNCHANGED <<written, reading, channel, forwarding, consuming>>

BreakBody ==
  /\ body = "open"
  /\ body' = "broken"
  /\ UNCHANGED <<written, reading, channel, forwarding, consuming>>

-----------------------------------------------------------------------------
(***************************************************************************)
(* The reader.                                                             *)
(***************************************************************************)
CheckContext ==
  /\ reader = "check"
  /\ reader' = IF cancelled THEN "done" ELSE "read"
  /\ UNCHANGED <<source, taken, parsed, parcel, burst, channel, forwarding, consuming>>

\* The events the first n pieces complete.  ParseEvent splits what it has at
\* the newlines, so that the end of a line of data at the end of a read is
\* followed by an empty line and completes the event.
Completed(n) == (n + 1) \div PerEvent

\* Mutant of ParseEvent: an event that is returned stays in the buffer.
ParseEventAgain(n) ==
  /\ taken' = n
  /\ burst' = (burst \/ Completed(n) > Completed(taken) + 1)
  /\ parsed' = parsed
  /\ parcel' = IF Completed(n) > 0 THEN 1 ELSE Nothing

\* ParseEvent returns one event at most and keeps the rest for later.
ParseEvent(n) ==
  /\ taken' = n
  /\ burst' = (burst \/ Completed(n) > Completed(taken) + 1)
  /\ IF parsed < Completed(n)
     THEN parsed' = parsed + 1 /\ parcel' = parsed + 1
     ELSE parsed' = parsed /\ parcel' = Nothing

Read ==
  /\ reader = "read"
  /\ \E n \in taken + 1 .. written : ParseEvent(n)
  /\ reader' = "send"
  /\ UNCHANGED <<source, channel, forwarding, consuming>>

\* The last read may return the end of the body with the last pieces, which
\* the reader then drops.
ReadEnd ==
  /\ reader = "read" /\ body = "ended"
  /\ reader' = "done"
  /\ burst' = (burst \/ taken < written)
  /\ UNCHANGED <<source, taken, parsed, parcel, channel, forwarding, consuming>>

\* Mutant of ReadError: an error ends the stream like the end of the body.
ReadErrorQuietly ==
  /\ reader = "read"
  /\ body = "broken" \/ cancelled
  /\ reader' = "done"
  /\ UNCHANGED <<source, taken, parsed, parcel, burst, channel, forwarding, consuming>>

ReadError ==
  /\ reader = "read"
  /\ \/ /\ cancelled
        /\ reader' = "done"
        /\ UNCHANGED parcel
     \/ /\ body = "broken" /\ ~cancelled
        /\ reader' = "send"
        /\ parcel' = Broken
  /\ UNCHANGED <<source, taken, parsed, burst, channel, forwarding, consuming>>

Send ==
  /\ reader = "send" /\ Len(channel) < Capacity
  /\ channel' = Append(channel, parcel)
  /\ reader' = IF parcel = Broken THEN "done" ELSE "check"
  /\ parcel' = Nothing
  /\ UNCHANGED <<source, taken, parsed, burst, forwarding, consuming>>

\* Mutant of DropParcel: only the sending of an error heeds the context.
DropError ==
  /\ reader = "send" /\ cancelled /\ parcel = Broken
  /\ reader' = "done" /\ parcel' = Nothing
  /\ UNCHANGED <<source, taken, parsed, burst, channel, forwarding, consuming>>

DropParcel ==
  /\ reader = "send" /\ cancelled
  /\ reader' = "done" /\ parcel' = Nothing
  /\ UNCHANGED <<source, taken, parsed, burst, channel, forwarding, consuming>>

-----------------------------------------------------------------------------
(***************************************************************************)
(* The forwarder; the reader closes its channel as it ends.                *)
(***************************************************************************)
Take ==
  /\ forwarder = "take" /\ channel # <<>>
  /\ forwarder' = "give"
  /\ carried' = Head(channel) /\ channel' = Tail(channel)
  /\ UNCHANGED <<source, reading, consuming>>

\* Mutant of SeeClosed: what is left in the closed channel is not taken out.
SeeClosedEarly ==
  /\ forwarder = "take" /\ reader = "done"
  /\ forwarder' = "done"
  /\ UNCHANGED <<source, reading, channel, carried, consuming>>

SeeClosed ==
  /\ forwarder = "take" /\ channel = <<>> /\ reader = "done"
  /\ forwarder' = "done"
  /\ UNCHANGED <<source, reading, channel, carried, consuming>>

Abandon ==
  /\ forwarder # "done" /\ cancelled
  /\ forwarder' = "done" /\ carried' = Nothing
  /\ UNCHANGED <<source, reading, channel, consuming>>

-----------------------------------------------------------------------------
(***************************************************************************)
(* The consumer.                                                           *)
(***************************************************************************)
\* outCh of the forwarder has no buffer: it gives when the consumer takes.
Receive ==
  /\ consumer = "reading" /\ forwarder = "give"
  /\ received' = IF carried \in 1 .. Events THEN received + 1 ELSE received
  /\ told' = (told \/ carried = Broken)
  /\ forwarder' = "take" /\ carried' = Nothing
  /\ UNCHANGED <<source, reading, channel, consumer, cancelled>>

Finish ==
  /\ consumer = "reading" /\ forwarder = "done"
  /\ consumer' = "finished"
  /\ UNCHANGED <<source, reading, channel, forwarding, cancelled, received, told>>

\* It stops receiving before the end.
Leave ==
  /\ consumer = "reading"
  /\ consumer' = "gone"
  /\ UNCHANGED <<source, reading, channel, forwarding, cancelled, received, told>>

\* Its context is cancelled or runs out, whether it goes on receiving or not.
Cancel ==
  /\ ~cancelled /\ consumer # "finished"
  /\ cancelled' = TRUE
  /\ UNCHANGED <<source, reading, channel, forwarding, consumer, received, told>>

-----------------------------------------------------------------------------
Provider == SendPiece \/ EndBody \/ BreakBody
Reader == CheckContext \/ Read \/ ReadEnd \/ ReadError \/ Send \/ DropParcel
Forwarder == Take \/ SeeClosed \/ Abandon
Consumer == Receive \/ Finish \/ Leave

StreamNext == Provider \/ Reader \/ Forwarder \/ Consumer \/ Cancel

\* The body ends or its time runs out, the goroutines run, and the consumer reads
\* on or leaves; one that has left cancels its context.
StreamSpec ==
  /\ StreamInit /\ [][StreamNext]_svars
  /\ WF_svars(Provider) /\ WF_svars(Reader) /\ WF_svars(Forwarder)
  /\ WF_svars(Consumer) /\ WF_svars(consumer = "gone" /\ Cancel)

-----------------------------------------------------------------------------
(***************************************************************************)
(* Properties.                                                             *)
(***************************************************************************)
StreamTypeOK ==
  /\ body \in {"open", "ended", "broken"}
  /\ written \in 0 .. Pieces /\ taken \in 0 .. written
  /\ parsed \in 0 .. Events
  /\ reader \in {"check", "read", "send", "done"} /\ parcel \in Message
  /\ channel \in Seq(Message) /\ Len(channel) <= Capacity
  /\ forwarder \in {"take", "give", "done"} /\ carried \in Message
  /\ consumer \in {"reading", "finished", "gone"} /\ cancelled \in BOOLEAN
  /\ received \in 0 .. Events /\ told \in BOOLEAN /\ burst \in BOOLEAN

\* What the forwarder is about to give to the consumer is the event after the
\* last one it has got: cutting the body into reads, and the two channels, repeat
\* and skip nothing before the end.  The error of a broken read comes last.
InOrder ==
  /\ carried \in 1 .. Events => carried = received + 1
  /\ \A i \in DOMAIN channel : channel[i] = Broken => i = Len(channel) /\ reader = "done"

\* A consumer that reads StreamChat's channel to its end, its context being good,
\* has got every event of the answer, or an error has told it that there is more,
\* or else the body came so fast that one read ended two events or met the end.
\* After a cancellation the channel is closed in silence.
LostOnlyInBursts ==
  consumer = "finished" /\ ~cancelled => received = Events \/ told \/ burst

\* A stream that breaks off is told from one that ends, as long as the context is
\* good: whoever reads to the end has got the error if the body broke.  No
\* cancellation is taken for a break.
BreakIsTold ==
  /\ told => body = "broken"
  /\ consumer = "finished" /\ body = "broken" => told \/ cancelled

\* Whatever the provider and the network do, and whether the consumer reads to
\* the end, leaves or has its context cancelled while it reads: both goroutines
\* of StreamChat end.
GoroutinesEnd == <>(reader = "done" /\ forwarder = "done")
=============================================================================
