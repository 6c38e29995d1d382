------------------------------- MODULE Rewriter -------------------------------
(***************************************************************************)
(* The rewriting body of src/intercept/rewrite.rs: one response body,      *)
(* decoded, rewritten and handed to hyper frame by frame.  The HTML        *)
(* rewriter and the decoders are external: the rewriter may hold any       *)
(* suffix of what it was given, and on a recoverable error it flushes what *)
(* it holds; a decoder may hold any suffix until finish.                   *)
(*                                                                         *)
(* A body is units, numbered from 1; the hiding rules match Hidden.        *)
(***************************************************************************)
EXTENDS Naturals, Sequences, FiniteSets

LOCAL INSTANCE SequencesExt

CONSTANTS MaxUnits, Hidden,
          Policies,   \* the CSP values a response may carry: [directives], see below
          MaxDecoded  \* MAX_DECODED_CHUNK_BYTES, in units

VARIABLES coding,    \* what the response declares
          policy,    \* its CSP, rebuilt
          inject,    \* the style element may be injected
          stage,     \* Rewriting, Raw, Ended; Off when the body passes untouched
          undecoded, \* units the decoder holds
          held,      \* units the rewriter holds
          sink,      \* output not yet drained
          failures,  \* RewriteFailures
          arrived,   \* units the inner body has yielded
          inner,     \* open, trailed, exhausted, broken
          frames     \* frames handed out, a unit, "trailers" or an error each

rewriterVars ==
  <<coding, policy, inject, stage, undecoded, held, sink, failures, arrived, inner, frames>>

Codings == {"Identity", "Gzip", "Deflate", "Brotli", "Zstd"}
Unit(i) == [kind |-> "unit", at |-> i]
Trailers == [kind |-> "trailers", at |-> 0]
Error == [kind |-> "truncated", at |-> 0]
InnerError == [kind |-> "error", at |-> 0]

-----------------------------------------------------------------------------
(* Whether a body is rewritten, and what its CSP becomes.  A policy is a   *)
(* sequence of directives [name, sources]; "ours" is the hash of the style *)
(* sheet to be injected.                                                   *)

\* rewritable: a whole HTML body of at most one coding this build decodes.
NonIdentity(codings) == SelectSeq(codings, LAMBDA c : c # "Identity")
RewritableCoding(codings) ==
  ToSet(codings) \subseteq Codings /\ Len(NonIdentity(codings)) <= 1
CodingOf(codings) ==
  IF NonIdentity(codings) = <<>> THEN "Identity" ELSE NonIdentity(codings)[1]

Rewritable(response) ==
  /\ response.status \notin {"1xx", "204", "304", "206"}
  /\ RewritableCoding(response.codings)
  /\ response.html
  /\ response.charset # "unsupported"

\* position: the first directive of a name, 0 when there is none.
Position(directives, name) ==
  LET at == {i \in 1 .. Len(directives) : directives[i].name = name}
  IN IF at = {} THEN 0 ELSE CHOOSE i \in at : \A j \in at : i <= j

Bound(sources) == \E s \in sources : s \in {"nonce", "hash", "ours"}

\* permit_inline_style: the policy as it is, widened by the hash, or refused.
Granted(p) == [verdict |-> "Granted", policy |-> p]

PermitInlineStyle(p) ==
  LET elem == Position(p, "style-src-elem")
      style == IF elem # 0 THEN elem ELSE Position(p, "style-src")
      default == Position(p, "default-src")
      index == IF style # 0 THEN style ELSE default
      sources == p[index].sources
  IN IF index = 0 THEN Granted(p)
     ELSE IF "none" \in sources THEN [verdict |-> "Refused", policy |-> p]
     ELSE IF "ours" \in sources THEN Granted(p)
     ELSE IF ~Bound(sources) /\ "unsafe-inline" \in sources THEN Granted(p)
     ELSE [verdict |-> "Widened", policy |->
             IF style = 0 THEN Append(p, [name |-> "style-src",
                                          sources |-> sources \union {"ours"}])
             ELSE [p EXCEPT ![index].sources = @ \union {"ours"}]]

\* relax_policy over all the policies of a response: one refusal suppresses injection.
RelaxPolicy(policies) ==
  [policies |-> [i \in 1 .. Len(policies) |-> PermitInlineStyle(policies[i]).policy],
   inject |-> \A i \in 1 .. Len(policies) : PermitInlineStyle(policies[i]).verdict # "Refused"]

-----------------------------------------------------------------------------
Responses ==
  [status : {"200", "304"}, html : BOOLEAN, charset : {"utf-8", "unsupported"},
   codings : {<<>>, <<"Identity", "Gzip">>, <<"Zstd">>, <<"Gzip", "Brotli">>, <<"lzw">>}]

\* apply: what the rewriter is given, or a body that passes untouched.
RewriterInit ==
  \E response \in Responses, policies \in Policies, on \in BOOLEAN :
    LET rewriting == on /\ Rewritable(response)
    IN /\ coding = IF rewriting THEN CodingOf(response.codings) ELSE "Identity"
       /\ policy = IF rewriting
                   THEN [was |-> policies, is |-> RelaxPolicy(policies).policies]
                   ELSE [was |-> policies, is |-> policies]
       /\ inject = (rewriting /\ RelaxPolicy(policies).inject)
       /\ stage = IF rewriting THEN "Rewriting" ELSE "Off"
       /\ undecoded = <<>> /\ held = <<>> /\ sink = <<>>
       /\ failures = 0 /\ arrived = 0 /\ inner = "open" /\ frames = <<>>

\* RewriteFailures::record.
Counted == failures + 1

\* hide: what rewriting leaves of some units.
Visible(units) == SelectSeq(units, LAMBDA i : i \notin Hidden)

AsFrames(units) == [i \in 1 .. Len(units) |-> Unit(units[i])]
Prefix(s, n) == SubSeq(s, 1, n)
Rest(s, n) == SubSeq(s, n + 1, Len(s))

Arrivals(n) == [i \in 1 .. n |-> arrived + i]

\* poll_frame: anything in the sink goes out first.
Drain ==
  /\ sink # <<>>
  /\ frames' = frames \o AsFrames(sink)
  /\ sink' = <<>>
  /\ UNCHANGED <<coding, policy, inject, stage, undecoded, held, failures, arrived, inner>>

CanPoll == sink = <<>> /\ stage \notin {"Ended", "Off"} /\ inner \in {"open", "trailed"}

\* What the decoder makes of n more units: m of those it has, at most MaxDecoded at once.
Decoded(n, m) == Prefix(undecoded \o Arrivals(n), m)
DecoderKeeps(n, m) == Rest(undecoded \o Arrivals(n), m)

\* feed, decoded: the rewriter takes it and holds all but the first k units it has.
FeedRewriter(n, m, k) ==
  LET has == held \o Decoded(n, m)
  IN /\ stage = "Rewriting"
     /\ undecoded' = DecoderKeeps(n, m)
     /\ sink' = Visible(Prefix(has, k))
     /\ held' = Rest(has, k)
     /\ UNCHANGED <<stage, failures, frames>>
\* Mutant: a bail-out goes on with the current chunk and loses what was held.
FeedBailsOutBare(n, m) ==
  /\ stage = "Rewriting"
  /\ undecoded' = DecoderKeeps(n, m)
  /\ sink' = Decoded(n, m)
  /\ held' = <<>>
  /\ stage' = "Raw"
  /\ failures' = Counted
  /\ UNCHANGED frames

\* A recoverable error: the rewriter has flushed what it held, unedited.
FeedBailsOut(n, m) ==
  /\ stage = "Rewriting"
  /\ undecoded' = DecoderKeeps(n, m)
  /\ sink' = held \o Decoded(n, m)
  /\ held' = <<>>
  /\ stage' = "Raw"
  /\ failures' = Counted
  /\ UNCHANGED frames

\* An ambiguity, or a coding that does not decode: the body ends with an error.
FeedFails(n) ==
  /\ stage \in {"Rewriting", "Raw"}
  /\ stage = "Raw" => coding # "Identity"
  /\ stage' = "Ended"
  /\ failures' = Counted
  /\ frames' = Append(frames, Error)
  /\ UNCHANGED <<undecoded, held, sink>>

FeedRaw(n, m) ==
  /\ stage = "Raw"
  /\ undecoded' = DecoderKeeps(n, m)
  /\ sink' = Decoded(n, m)
  /\ UNCHANGED <<held, stage, failures, frames>>

\* A data frame of n units arrives.
Data(n, m, k) ==
  /\ CanPoll /\ inner = "open"
  /\ arrived + n <= MaxUnits
  /\ m <= Len(undecoded) + n /\ m <= MaxDecoded
  /\ coding = "Identity" => m = n
  /\ k <= Len(held) + m
  /\ arrived' = arrived + n
  /\ FeedRewriter(n, m, k) \/ FeedBailsOut(n, m) \/ FeedFails(n) \/ FeedRaw(n, m)
  /\ UNCHANGED <<coding, policy, inject, inner>>

\* Trailers pass at once, whatever the rewriter still holds.
PassTrailers ==
  /\ CanPoll /\ inner = "open"
  /\ inner' = "trailed"
  /\ frames' = Append(frames, Trailers)
  /\ UNCHANGED <<coding, policy, inject, stage, undecoded, held, sink, failures, arrived>>

InnerFails ==
  /\ CanPoll
  /\ inner' = "broken"
  /\ frames' = Append(frames, InnerError)
  /\ UNCHANGED <<coding, policy, inject, stage, undecoded, held, sink, failures, arrived>>

\* finish: the decoder's tail goes through the rewriter, or out raw, then the rewriter ends.
Finish ==
  /\ CanPoll
  /\ inner' = "exhausted"
  /\ stage' = "Ended"
  /\ undecoded' = <<>> /\ held' = <<>>
  /\ \/ /\ sink' = Visible(held \o undecoded)
        /\ stage = "Rewriting"
        /\ UNCHANGED <<failures, frames>>
     \/ /\ sink' = undecoded
        /\ stage = "Raw"
        /\ UNCHANGED <<failures, frames>>
     \/ /\ sink' = held \o undecoded   \* a recoverable error of the tail or of end
        /\ stage = "Rewriting"
        /\ failures' = Counted
        /\ UNCHANGED frames
     \/ /\ sink' = <<>>                \* the coding was cut short, or the markup ambiguous
        /\ stage = "Raw" => coding # "Identity"
        /\ failures' = Counted
        /\ frames' = Append(frames, Error)
  /\ UNCHANGED <<coding, policy, inject, arrived>>

\* A body that is not rewritten is the inner body itself.
PassUntouched(n) ==
  /\ stage = "Off" /\ inner = "open"
  /\ arrived + n <= MaxUnits
  /\ arrived' = arrived + n
  /\ frames' = frames \o AsFrames(Arrivals(n))
  /\ inner' \in {"open", "exhausted"}
  /\ UNCHANGED <<coding, policy, inject, stage, undecoded, held, sink, failures>>

RewriterNext ==
  \/ Drain \/ PassTrailers \/ InnerFails \/ Finish
  \/ \E n \in 1 .. MaxUnits : PassUntouched(n) \/ \E m, k \in 0 .. MaxUnits : Data(n, m, k)

-----------------------------------------------------------------------------
UnitsOut == [i \in 1 .. Len(SelectSeq(frames, LAMBDA f : f.kind = "unit")) |->
               SelectSeq(frames, LAMBDA f : f.kind = "unit")[i].at]
Cut == \E f \in ToSet(frames) : f.kind \in {"truncated", "error"}
OverWhole == ~Cut /\ inner = "exhausted" /\ sink = <<>>

\* RewritingBody: a body the client sees end without an error carries every unit that is not
\* hidden, in order and once, bail-outs and decoder tails included; a body the rewriter
\* cut short ends with an error and has been counted as a failure.
DocumentWholeOrCut ==
  /\ OverWhole => Visible(UnitsOut) = Visible([i \in 1 .. arrived |-> i])
  /\ \A i \in 1 .. Len(UnitsOut) - 1 : UnitsOut[i] < UnitsOut[i + 1]
  /\ Error \in ToSet(frames) => failures > 0
  /\ failures = 0 /\ OverWhole /\ stage # "Off" => \A i \in Hidden : i \notin ToSet(UnitsOut)

\* What a policy lets a browser apply: an inline style, ours or another, or a resource.
SourcesFor(p, resource) ==
  LET elem == Position(p, "style-src-elem")
      style == Position(p, "style-src")
      default == Position(p, "default-src")
      at == IF resource = "style" /\ elem # 0 THEN elem
            ELSE IF resource = "style" /\ style # 0 THEN style ELSE default
  IN IF at = 0 THEN {"*"} ELSE p[at].sources
AppliesInline(p, style) ==
  LET sources == SourcesFor(p, "style")
  IN \/ "*" \in sources
     \/ style \in sources
     \/ "unsafe-inline" \in sources /\ ~Bound(sources)

\* permit_inline_style: a widened policy applies our style sheet and changes nothing else a
\* browser decides: not what other inline styles may do, nor where anything loads from.
OnlyOurStyleGranted ==
  \A i \in 1 .. Len(policy.is) :
    /\ inject => AppliesInline(policy.is[i], "ours")
    /\ AppliesInline(policy.is[i], "another") = AppliesInline(policy.was[i], "another")
    /\ SourcesFor(policy.is[i], "image") = SourcesFor(policy.was[i], "image")
    /\ SourcesFor(policy.is[i], "style") \ {"ours"} = SourcesFor(policy.was[i], "style") \ {"ours"}

\* A rewritten response is the response: the document loses nothing but what is
\* hidden, and its policy grants nothing but the sheet that hides it.
RewrittenSafely == DocumentWholeOrCut /\ OnlyOurStyleGranted
==============================================================================
