---- MODULE FormRegistry ----
(* load_forms (services/form_registry.py): which registry files are accepted *)
(* and which forms they give, by their ids.                                  *)
EXTENDS Naturals, Sequences, FiniteSets

CONSTANTS FormIds,    \* non-empty strings
          NoId        \* an id that is missing, empty or not a string

ASSUME NoIdIsNoFormId == NoId \notin FormIds

\* An entry of the file, as far as Form.model_validate looks at it: its id, and
\* whether its name, description and parameters are valid.
FormEntries == [id : FormIds \cup {NoId}, rest_valid : BOOLEAN]

\* What iterating over a JSON object or string yields: no form.
NotAForm == [id |-> NoId, rest_valid |-> FALSE]

\* A registry file: is it JSON, and an object; what its "forms" member is; and
\* what iterating over that member yields.  A "scalar" is a number, true or null.
Files == {file \in [json : {"object", "other", "invalid"},
                    forms : {"absent", "scalar", "list", "object", "string"},
                    entries : Seq(FormEntries)] :
            file.forms # "list" => \A i \in DOMAIN file.entries : file.entries[i] = NotAForm}

\* The files with at most MaxForms entries.
RegistryFiles(MaxForms) ==
    LET Upto(S) == UNION {[1 .. n -> S] : n \in 0 .. MaxForms}
        NoForms == [json : {"invalid", "other"}, forms : {"absent"}, entries : {<< >>}]
        Objects(kinds, seqs) == [json : {"object"}, forms : kinds, entries : seqs]
    IN  NoForms \cup Objects({"absent", "scalar"}, {<< >>})
                \cup Objects({"list"}, Upto(FormEntries))
                \cup Objects({"object", "string"}, Upto({NotAForm}))

HasForms(file) == file.json = "object" /\ file.forms # "absent"

IsIterable(file) == file.forms \in {"list", "object", "string"}

\* Form.model_validate accepts the entry.
Validates(entry) == entry.id # NoId /\ entry.rest_valid

EntryIds(file) == [i \in DOMAIN file.entries |-> file.entries[i].id]

\* Faulty variant: only neighbours are compared.
AdjacentDuplicates(ids) ==
    {ids[i] : i \in {k \in DOMAIN ids : k + 1 \in DOMAIN ids /\ ids[k] = ids[k + 1]}}

\* {form_id for form_id in ids if ids.count(form_id) > 1}
Duplicates(ids) ==
    {ids[i] : i \in {k \in DOMAIN ids : Cardinality({n \in DOMAIN ids : ids[n] = ids[k]}) > 1}}

Raised(error) == [raised |-> error, forms |-> << >>]

Loaded(ids) == [raised |-> "nothing", forms |-> ids]

load_forms(file) ==
    IF ~HasForms(file) THEN Raised("ValueError")
    ELSE IF ~IsIterable(file) THEN Raised("TypeError")
    ELSE IF \E i \in DOMAIN file.entries : ~Validates(file.entries[i])
         THEN Raised("ValueError")
    ELSE IF Duplicates(EntryIds(file)) # {} THEN Raised("ValueError")
    ELSE Loaded(EntryIds(file))

----
\* What a registry file should be: a JSON object with a list of valid forms
\* under "forms", in which each id names one form.
WellFormed(file) ==
    /\ file.json = "object" /\ file.forms = "list"
    /\ \A i \in DOMAIN file.entries : Validates(file.entries[i])
    /\ \A i, k \in DOMAIN file.entries :
        file.entries[i].id = file.entries[k].id => i = k

\* The two files without a list that are loaded: {} and "" iterate as [] does.
PassesForEmpty(file) ==
    /\ file.json = "object" /\ file.forms \in {"object", "string"}
    /\ file.entries = << >>
====
