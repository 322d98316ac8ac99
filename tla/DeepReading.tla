------------------------------ MODULE DeepReading ------------------------------
(***************************************************************************)
(* Readings of one paper by a model. read_paper_with_llm asks for a note   *)
(* whose links quote the paper, at most twice. extract_deep_reading_objects*)
(* asks once for objects whose values cite evidence, in a directory that   *)
(* can be resumed, and replay_deep_reading_response assembles the objects  *)
(* again from the raw response, in a directory of its own. What a run      *)
(* writes is a queue of files; it may die before any of them.              *)
(***************************************************************************)
EXTENDS SpanMapping, Integers, Sequences, FiniteSets

CONSTANTS
    Chunks,         \* the chunks of the clean context
    Banks,          \* the candidate banks: sequences of quotes
    NoteReplies,    \* replies to a request for a note: [kind, links]
    DeepReplies,    \* replies to a request for objects: [kind, usage, objects]
    DeepIdentities, \* models, limits and commits of the runs: [name, fits, sameModel]
    MaxReadings     \* bound on the runs, and on the readings for a note

IsList(seq) == seq \in Seq({seq[i] : i \in DOMAIN seq})
ASSUME DeepConstants ==
    /\ \A bank \in Banks : IsList(bank)
    /\ \A reply \in DeepReplies :
        /\ IsList(reply.objects)
        /\ \A i \in DOMAIN reply.objects :
            LET values == reply.objects[i].values
            IN  IsList(values) /\ \A j \in DOMAIN values : IsList(values[j].quotes)
    /\ \A reply \in NoteReplies : reply.kind \in {"raises", "not_json", "schema", "note"}

VARIABLES
    deepRun,        \* the run under way, [dir, bank, id, resume], or NoDeepRun
    deepAsking,     \* whether it waits for the model
    deepWrites,     \* the files it has still to write, <<name, content>>
    deepDisk,       \* directory |-> the files in it, by name
    deepRuns        \* runs and readings so far
deepVars == <<deepRun, deepAsking, deepWrites, deepDisk, deepRuns>>

NoIdentity == [name |-> "none", fits |-> FALSE, sameModel |-> FALSE]
NoDeepRun == [dir |-> "none", bank |-> <<>>, id |-> NoIdentity, resume |-> FALSE]
NoFiles == [file \in {} |-> "none"]
Stored(dir) == DOMAIN deepDisk[dir]
WithFile(files, name, content) ==
    [file \in DOMAIN files \cup {name} |-> IF file = name THEN content ELSE files[file]]

---------------------------------------------------------------------------
(* The registry of evidence *)

\* A candidate keeps its place in the bank; a quote of the reply is numbered after those before it.
EvidenceId(record) == <<record.origin, record.number>>
LoadRegistry(bank) ==
    [i \in DOMAIN bank |-> [origin |-> "existing_candidate", number |-> i, quote |-> bank[i]]]
Relocatable(quote) == quote.chunk \in Chunks /\ MapSpan(quote) = "ok"
RegistryLoads(bank) == \A i \in DOMAIN bank : Relocatable(bank[i])
AddQuote(registry, quote) ==
    IF ~Relocatable(quote) THEN registry
    ELSE Append(registry, [origin |-> "deep_quote", quote |-> quote,
                           number |-> Cardinality({i \in DOMAIN registry : registry[i].origin = "deep_quote"}) + 1])
AddQuotes(registry, quotes) ==
    LET added[n \in 0..Len(quotes)] == IF n = 0 THEN registry ELSE AddQuote(added[n - 1], quotes[n])
    IN  added[Len(quotes)]

---------------------------------------------------------------------------
(* Assembling the objects *)

\* A value without a status is one not found; an alias stands for stated; another status makes
\* the whole response invalid, before anything is anchored. An unknown label of an
\* enumerated field becomes its fallback.
StatusOf(value) ==
    CASE value.status = "alias" -> "stated"
      [] value.status = "absent" -> "not_found_in_available_context"
      [] OTHER -> value.status
NormalizedContent(value) ==
    IF StatusOf(value) = "stated" /\ value.content = "unknown_label" THEN "fallback" ELSE value.content
Normalized(value) ==
    [status |-> StatusOf(value), content |-> NormalizedContent(value),
     ids |-> value.ids, quotes |-> value.quotes, refers |-> value.refers]
AddValues(fields, object) == fields \o object.values
FieldsOf(objects) ==
    LET fields[n \in 0..Len(objects)] == IF n = 0 THEN <<>> ELSE AddValues(fields[n - 1], objects[n])
    IN  fields[Len(objects)]

\* A stated value cites evidence the registry knows already and adds quotes of its own. It is
\* downgraded when it has no content, no evidence, or one quote that is not found; what its
\* other quotes added to the registry stays there.
Downgraded == [status |-> "not_found_in_available_context", content |-> "none", evidence |-> {}, refers |-> {}, warned |-> TRUE]
TakeValue(acc, value) ==
    LET found == AddQuotes(acc.registry, value.quotes)
        added == {EvidenceId(found[i]) : i \in DOMAIN found \ DOMAIN acc.registry}
        foreign == value.ids \ {EvidenceId(acc.registry[i]) : i \in DOMAIN acc.registry}
        backed == value.content # "none" /\ value.ids \cup added # {} /\ Cardinality(added) = Len(value.quotes)
        stated == [status |-> "stated", content |-> value.content, evidence |-> value.ids \cup added,
                   refers |-> value.refers, warned |-> FALSE]
    IN  IF ~acc.valid THEN acc
        ELSE IF value.status # "stated"
             THEN [acc EXCEPT !.values = Append(@, [Downgraded EXCEPT !.status = value.status, !.warned = FALSE])]
        ELSE IF foreign # {} THEN [acc EXCEPT !.valid = FALSE]
        ELSE [acc EXCEPT !.registry = found, !.values = Append(@, IF backed THEN stated ELSE Downgraded)]

TakeValues(start, values) ==
    LET taken[n \in 0..Len(values)] == IF n = 0 THEN start ELSE TakeValue(taken[n - 1], values[n])
    IN  taken[Len(values)]

\* The schema: contents have the type of their field, and ablations name components there are.
FitsField(value) == value.content # "misfit"
ValidSidecar(objects, values) ==
    LET components == Len(SelectSeq(objects, LAMBDA object : object.kind = "component"))
    IN  \A i \in DOMAIN values : FitsField(values[i]) /\ values[i].refers \subseteq 1..components

Assemble(reply, bank) ==
    LET fields == FieldsOf(reply.objects)
        start == [valid |-> reply.kind = "object" /\ \A i \in DOMAIN fields : fields[i].status # "unsupported",
                  registry |-> LoadRegistry(bank), values |-> <<>>]
        taken == TakeValues(start, [i \in DOMAIN fields |-> Normalized(fields[i])])
    IN  [valid |-> taken.valid /\ ValidSidecar(reply.objects, taken.values),
         registry |-> taken.registry, values |-> taken.values]

---------------------------------------------------------------------------
(* What a run writes, in order *)

Identity(run) == [id |-> run.id, bank |-> run.bank]
Manifest(run, status) == [identity |-> Identity(run), status |-> status]
ReportOf(sidecar) ==
    [valid |-> TRUE, stated |-> Cardinality({i \in DOMAIN sidecar.values : sidecar.values[i].status = "stated"})]
FailureLedger(sidecar) == {i \in DOMAIN sidecar.values : sidecar.values[i].warned}
NormalizationLedger(reply) ==
    LET fields == FieldsOf(reply.objects)
    IN  {i \in DOMAIN fields : fields[i].status = "alias" \/ NormalizedContent(fields[i]) # fields[i].content}
ObjectFiles(reply, sidecar) ==
    <<<<"objects", sidecar>>, <<"registry", sidecar.registry>>, <<"normalization_ledger", NormalizationLedger(reply)>>,
      <<"failure_ledger", FailureLedger(sidecar)>>, <<"report", ReportOf(sidecar)>>>>
InvalidReport == <<"report", [valid |-> FALSE, stated |-> 0]>>

TransportFiles(run, usage, status) == <<<<"usage", usage>>, <<"manifest", Manifest(run, status)>>>>
\* Mutant: the manifest before the checkpoint.
AnswerFilesManifestFirst(run, reply) ==
    <<<<"raw", reply>>>> \o TransportFiles(run, reply.usage, "provider_response_received")
    \o <<<<"checkpoint", [identity |-> Identity(run), response |-> reply]>>>>
AnswerFiles(run, reply) ==
    <<<<"raw", reply>>, <<"checkpoint", [identity |-> Identity(run), response |-> reply]>>>>
    \o TransportFiles(run, reply.usage, "provider_response_received")

\* The usage of a resumed run replaces the one the provider reported.
ResultFiles(run, reply, usage) ==
    LET sidecar == Assemble(reply, run.bank)
    IN  IF sidecar.valid
        THEN ObjectFiles(reply, sidecar) \o TransportFiles(run, usage, "validation_success")
        ELSE <<<<"error", reply>>, InvalidReport>> \o TransportFiles(run, usage, "validation_failed")
ReplayFiles(run, reply) ==
    LET sidecar == Assemble(reply, run.bank)
    IN  <<<<"directory", TRUE>>>> \o
        IF sidecar.valid
        THEN ObjectFiles(reply, sidecar) \o <<<<"manifest", Manifest(run, "validation_success")>>, <<"preview", sidecar>>>>
        ELSE <<<<"manifest", Manifest(run, "validation_failed")>>, InvalidReport>>

---------------------------------------------------------------------------
DeepInit ==
    /\ deepRun = NoDeepRun /\ deepAsking = FALSE /\ deepWrites = <<>> /\ deepRuns = 0
    /\ deepDisk = [dir \in {"note", "run", "replay"} |-> NoFiles]

\* A run needs a bank whose candidates are in the text, a prompt that fits the context, and a
\* directory without a manifest unless it resumes; a resumption from a checkpoint must have its
\* identity and its response, any other run the model the client is configured with.
\* A replay needs an output directory that is not there, and the response of the run.
MatchesCheckpoint(run) ==
    /\ deepDisk["run"]["checkpoint"].identity = Identity(run)
    /\ "raw" \in Stored("run") /\ deepDisk["run"]["checkpoint"].response = deepDisk["run"]["raw"]
Reuses(run) == run.resume /\ "checkpoint" \in Stored("run")
DeepAdmits(run) ==
    /\ RegistryLoads(run.bank) /\ run.id.fits
    /\ "manifest" \in Stored("run") => run.resume
    /\ IF Reuses(run) THEN MatchesCheckpoint(run) ELSE run.id.sameModel

DeepBegins ==
    /\ deepRun = NoDeepRun /\ deepRuns < MaxReadings
    /\ \E id \in DeepIdentities, bank \in Banks, resume \in BOOLEAN :
        LET run == [dir |-> "run", bank |-> bank, id |-> id, resume |-> resume]
        IN  /\ DeepAdmits(run)
            /\ deepRun' = run /\ deepAsking' = ~Reuses(run)
            /\ deepWrites' = IF Reuses(run) THEN ResultFiles(run, deepDisk["run"]["raw"], "resumed") ELSE <<>>
    /\ deepRuns' = deepRuns + 1 /\ UNCHANGED deepDisk

\* A call that raises leaves nothing behind.
DeepAnswered ==
    /\ deepAsking /\ deepAsking' = FALSE
    /\ \E reply \in DeepReplies :
        /\ deepRun' = IF reply.kind = "raises" THEN NoDeepRun ELSE deepRun
        /\ deepWrites' = IF reply.kind = "raises" THEN <<>>
                         ELSE AnswerFiles(deepRun, reply) \o ResultFiles(deepRun, reply, reply.usage)
    /\ UNCHANGED <<deepDisk, deepRuns>>

ReplayBegins ==
    /\ deepRun = NoDeepRun /\ deepRuns < MaxReadings
    /\ Stored("replay") = {} /\ "raw" \in Stored("run")
    /\ \E bank \in Banks :
        /\ RegistryLoads(bank)
        /\ deepRun' = [NoDeepRun EXCEPT !.dir = "replay", !.bank = bank]
        /\ deepWrites' = ReplayFiles(deepRun', deepDisk["run"]["raw"])
    /\ deepRuns' = deepRuns + 1 /\ UNCHANGED <<deepAsking, deepDisk>>

DeepStores ==
    /\ deepWrites # <<>>
    /\ deepDisk' = [deepDisk EXCEPT ![deepRun.dir] = WithFile(@, deepWrites[1][1], deepWrites[1][2])]
    /\ deepWrites' = Tail(deepWrites)
    /\ deepRun' = IF Tail(deepWrites) = <<>> THEN NoDeepRun ELSE deepRun
    /\ UNCHANGED <<deepAsking, deepRuns>>

DeepDies ==
    /\ deepRun # NoDeepRun
    /\ deepRun' = NoDeepRun /\ deepAsking' = FALSE /\ deepWrites' = <<>>
    /\ UNCHANGED <<deepDisk, deepRuns>>

---------------------------------------------------------------------------
(* A note *)

\* A link is anchored if it names a chunk, the pages of that chunk, and a quote found in it.
Anchors(link) == link.chunk \in Chunks /\ link.samePages /\ MapSpan(link.quote) = "ok"
AnchoredLinks(links) ==
    LET anchored == SelectSeq(links, Anchors)
    IN  [i \in DOMAIN anchored |-> [anchored[i] EXCEPT !.quote = SpanText(@)]]
ValidLink(link) == link.chunk \in Chunks /\ link.samePages /\ link.quote.exact > 0

\* Links that fail are dropped if three are left; without a failure any number will do.
NoteFrom(reply) == [links |-> AnchoredLinks(reply.links), dropped |-> Len(reply.links) - Len(AnchoredLinks(reply.links))]
NoteVerdict(reply) ==
    LET note == NoteFrom(reply)
    IN  CASE reply.kind = "raises" -> "raises"
          [] reply.kind \in {"not_json", "schema"} -> "invalid"
          [] reply.kind = "note" ->
                IF (note.dropped > 0 /\ Len(note.links) < 3) \/ \E i \in DOMAIN note.links : ~ValidLink(note.links[i])
                THEN "invalid" ELSE "valid"

\* The first valid reply is the note, a second invalid one the error; neither removes the other file.
ReadsPaper ==
    /\ deepRun = NoDeepRun /\ deepRuns < MaxReadings
    /\ \E first, second \in NoteReplies :
        LET kept == IF NoteVerdict(first) = "invalid" THEN second ELSE first
        IN  deepDisk' = [deepDisk EXCEPT !["note"] =
                            CASE NoteVerdict(kept) = "valid" -> WithFile(@, "note", NoteFrom(kept))
                              [] NoteVerdict(kept) = "invalid" -> WithFile(@, "error", kept)
                              [] NoteVerdict(kept) = "raises" -> @]
    /\ deepRuns' = deepRuns + 1 /\ UNCHANGED <<deepRun, deepAsking, deepWrites>>

DeepNext == DeepBegins \/ DeepAnswered \/ ReplayBegins \/ DeepStores \/ DeepDies
NoteNext == ReadsPaper

---------------------------------------------------------------------------
(* Properties. *)

\* Every link of a note is in the text it names, and one from which links were dropped kept three.
NoteIsAnchored ==
    "note" \in Stored("note") =>
        LET note == deepDisk["note"]["note"]
        IN  /\ \A i \in DOMAIN note.links : ValidLink(note.links[i])
            /\ ~(note.dropped > 0 /\ Len(note.links) < 3)

\* In both directories evidence has one record under one number, found in the paper, and a
\* stated value cites records there are.
Cited(sidecar) ==
    LET ids == {EvidenceId(sidecar.registry[i]) : i \in DOMAIN sidecar.registry}
    IN  /\ Cardinality(ids) = Len(sidecar.registry)
        /\ \A i \in DOMAIN sidecar.registry : Relocatable(sidecar.registry[i].quote)
        /\ \A i \in DOMAIN sidecar.values :
            LET value == sidecar.values[i]
            IN  value.evidence \subseteq ids /\ (value.status = "stated" <=> value.evidence # {})
ObjectsAreCited == \A dir \in {"run", "replay"} : "objects" \in Stored(dir) => Cited(deepDisk[dir]["objects"])

\* A manifest that says validation_success is of the checkpointed response, and every file is
\* there; a directory with a manifest can always be resumed under its identity, without a call.
ManifestIsBacked ==
    "manifest" \in Stored("run") =>
        LET manifest == deepDisk["run"]["manifest"]
            run == [NoDeepRun EXCEPT !.dir = "run", !.bank = manifest.identity.bank, !.id = manifest.identity.id]
        IN  /\ ~deepAsking
            /\ "checkpoint" \in Stored("run") /\ MatchesCheckpoint(run)
            /\ manifest.status = "validation_success" =>
                /\ {"objects", "registry", "normalization_ledger", "failure_ledger", "report", "usage"} \subseteq Stored("run")
                /\ deepDisk["run"]["objects"] = Assemble(deepDisk["run"]["raw"], run.bank)
                /\ deepDisk["run"]["registry"] = deepDisk["run"]["objects"].registry
                /\ deepDisk["run"]["report"].valid

\* What a reading leaves on disk is backed by the text it cites and by the response that was
\* paid for, whatever died in between, and no response with a manifest is paid for again.
ReadingsAreBacked == NoteIsAnchored /\ ObjectsAreCited /\ ManifestIsBacked
=============================================================================
