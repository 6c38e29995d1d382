-------------------------------- MODULE Lists --------------------------------
(* Compiling filter lists into host rules (src/policy/filter.rs): each line  *)
(* is classified, a hosts line may name several hosts, and the report counts *)
(* what every line came to. A line is its shape and the tokens that decide.  *)
EXTENDS Naturals, Sequences, SequencesExt, FiniteSets, FiniteSetsExt

CONSTANTS
  ListHosts, \* host names, representable in DNS
  MaxLines,  \* bound: lines of a list
  MaxTokens, \* bound: tokens after the address of a hosts line
  MaxCount   \* where a report's counters saturate

VARIABLES
  list,    \* lines still to compile
  compiled,\* lines compiled
  rules,   \* [allowed, blocked]
  report   \* ListReport

listVars == <<list, compiled, rules, report>>

(* Lines. "bad" is a host DNS cannot carry, "#" a token that starts a comment. *)
Comment == [shape |-> "comment"]
Cosmetic == [shape |-> "cosmetic"]
HostsLine(address, tokens) == [shape |-> "hosts", address |-> address, tokens |-> tokens]
PatternLine(exception, form, host) ==
  [shape |-> "pattern", exception |-> exception, form |-> form, host |-> host]

Lines ==
  {Comment, Cosmetic}
  \cup {HostsLine(a, t) : a \in {"sink", "real"},
          t \in UNION {[1..n -> ListHosts \cup {"bad", "#"}] : n \in 0..MaxTokens}}
  \cup {PatternLine(e, f, h) : e \in BOOLEAN, f \in {"anchored", "bare", "options", "path", "wildcard"},
                               h \in ListHosts \cup {"bad"}}

Counters == {"blocked", "allowed", "ignored", "malformed", "NeedsUrl", "NeedsRequestContext",
             "Cosmetic", "HostsMapping", "Pattern"}
ListInit ==
  /\ list \in UNION {[1..n -> Lines] : n \in 1..MaxLines}
  /\ compiled = <<>>
  /\ rules = [allowed |-> {}, blocked |-> {}]
  /\ report = [c \in Counters |-> 0]

(* A rule: what it is counted as, and the host it names if it is enforced. *)
Counted(counter) == [counter |-> counter, host |-> "none"]
Block(host) == IF host = "bad" THEN Counted("malformed") ELSE [counter |-> "blocked", host |-> host]

\* The first host of a hosts line; real mappings are deferred, and an address
\* alone is no hosts line but a pattern.
HostsEntry(line) ==
  IF line.tokens = <<>> THEN Counted("NeedsUrl")
  ELSE IF line.tokens[1] = "#" THEN Counted("ignored")
  ELSE IF line.address # "sink" THEN Counted("HostsMapping")
  ELSE Block(line.tokens[1])

ParseRuleAnyOptions(line) ==
  CASE line.shape = "comment" -> Counted("ignored")
    [] line.shape = "hosts" -> HostsEntry(line)
    [] line.shape = "cosmetic" -> Counted("Cosmetic")
    [] line.shape = "pattern" ->
         IF line.form = "bare" \/ line.form = "path" THEN Counted("NeedsUrl")
         ELSE IF line.form = "wildcard" THEN Counted("Pattern")
         ELSE IF line.host = "bad" THEN Counted("malformed")
         ELSE [counter |-> IF line.exception THEN "allowed" ELSE "blocked", host |-> line.host]

ParseRule(line) ==
  CASE line.shape = "comment" -> Counted("ignored")
    [] line.shape = "hosts" -> HostsEntry(line)
    [] line.shape = "cosmetic" -> Counted("Cosmetic")
    [] line.shape = "pattern" ->
         IF line.form = "bare" THEN Counted("NeedsUrl")
         ELSE IF line.form = "options" THEN Counted("NeedsRequestContext")
         ELSE IF line.form = "path" THEN Counted("NeedsUrl")
         ELSE IF line.form = "wildcard" THEN Counted("Pattern")
         ELSE IF line.host = "bad" THEN Counted("malformed")
         ELSE [counter |-> IF line.exception THEN "allowed" ELSE "blocked", host |-> line.host]

\* Tokens up to the first that starts a comment.
Uncommented(tokens) ==
  LET at == {i \in 1..Len(tokens) : tokens[i] = "#"}
  IN IF at = {} THEN tokens ELSE SubSeq(tokens, 1, (CHOOSE i \in at : \A j \in at : i <= j) - 1)

\* hosts_names: the line's rule, and one for each further host of a sink line.
HostsNames(line) ==
  <<ParseRule(line)>>
  \o (IF line.shape = "hosts" /\ line.address = "sink" /\ line.tokens # <<>>
      THEN LET more == Uncommented(Tail(line.tokens)) IN [i \in 1..Len(more) |-> Block(more[i])]
      ELSE <<>>)

Count(before, found) ==
  [c \in Counters |->
     LET n == Cardinality({i \in 1..Len(found) : found[i].counter = c}) IN
     IF before[c] + n > MaxCount THEN MaxCount ELSE before[c] + n]

\* extend_from_list, one line.
CompileLine ==
  /\ list # <<>>
  /\ LET found == HostsNames(Head(list))
         hosts(counter) == {found[i].host : i \in {j \in 1..Len(found) : found[j].counter = counter}}
     IN /\ rules' = [allowed |-> rules.allowed \cup hosts("allowed"),
                     blocked |-> rules.blocked \cup hosts("blocked")]
        /\ report' = Count(report, found)
  /\ compiled' = Append(compiled, Head(list)) /\ list' = Tail(list)

ListSpec == ListInit /\ [][CompileLine]_listVars

(* Whether a line says that a host is blocked: a sink line names it outside  *)
(* a comment, or it is a plain anchored pattern, neither scoped nor partial. *)
Says(line, host) ==
  \/ line.shape = "hosts" /\ line.address = "sink" /\ Contains(Uncommented(line.tokens), host)
  \/ line.shape = "pattern" /\ line.form = "anchored" /\ ~line.exception /\ line.host = host
Excepts(line, host) ==
  line.shape = "pattern" /\ line.form = "anchored" /\ line.exception /\ line.host = host

\* ListReport::lines
ReportLines == FoldSet(LAMBDA c, n : report[c] + n, 0, Counters)

(* Every host a line blocks or excepts is in the rules, an exception only    *)
(* when a line says so, and a block only when a line says so or names the    *)
(* host behind a comment; what the report counts as blocked covers the hosts *)
(* blocked, and every line is counted.                                       *)
ListsCompiledExactly ==
  LET lines == {compiled[i] : i \in 1..Len(compiled)} IN
  /\ rules.allowed = {h \in ListHosts : \E l \in lines : Excepts(l, h)}
  /\ \A h \in ListHosts : (\E l \in lines : Says(l, h)) => h \in rules.blocked
  /\ \A h \in rules.blocked : \E l \in lines : Says(l, h) \/ (l.shape = "hosts" /\ Contains(l.tokens, h))
  /\ report["blocked"] < MaxCount => Cardinality(rules.blocked) <= report["blocked"]
  /\ (\A c \in Counters : report[c] < MaxCount) => ReportLines >= Len(compiled)
=============================================================================
