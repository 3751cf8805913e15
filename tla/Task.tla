-------------------------------- MODULE Task --------------------------------
(***************************************************************************)
(* Tasks and their resources (internal/task): ranges, accelerators, the    *)
(* ordered entries of resources, defaults and validation.  Operators only. *)
(*                                                                         *)
(* A field that may be unset is a set with at most one member: a nil       *)
(* pointer or an empty string is {}.  The text of a range is a sequence of *)
(* tokens: a number, Dash or Plus.                                         *)
(***************************************************************************)
EXTENDS Integers, Sequences, SequencesExt

Dash == -1
Plus == -2

(* Resources and tasks as they are written, before anything is parsed. *)
RawAccelerators == [form : {"list", "map"}, items : Seq([name : STRING, n : Int])]

(* The zone and the labels are left out: no placement reads them. *)
RawEntry ==
    [cloud : SUBSET STRING, region : SUBSET STRING, itype : SUBSET STRING,
     cpus : SUBSET Seq(Int), memory : SUBSET Seq(Int), disk : SUBSET Seq(Int),
     accel : SUBSET RawAccelerators, spot : SUBSET BOOLEAN, time : SUBSET Int]

RawTask ==
    [backend : STRING, nodes : Int, ssh : BOOLEAN, docker : BOOLEAN, run : BOOLEAN,
     cloudName : BOOLEAN, service : SUBSET [ports : BOOLEAN, run : BOOLEAN],
     credentials : SUBSET [id : BOOLEAN, secret : BOOLEAN]]

-----------------------------------------------------------------------------
(* Ranges *)

(* strconv.ParseFloat of the tokens of one bound: a number with or without a
   sign.  No value is an error. *)
ParseFloat(s) ==
    CASE Len(s) = 1 /\ s[1] >= 0 -> {s[1]}
      [] Len(s) = 2 /\ s[1] = Dash /\ s[2] >= 0 -> {-s[2]}
      [] Len(s) = 2 /\ s[1] = Plus /\ s[2] >= 0 -> {s[2]}
      [] OTHER -> {}

(* One number: "8", "8+" or "-8". *)
ParseOne(s, lower, upper) ==
    LET v == ParseFloat(s)
    IN  [err |-> v = {}, min |-> IF upper THEN {} ELSE v, max |-> IF lower THEN {} ELSE v]

(* Two numbers, where one may be missing: "4-8". *)
ParseTwo(left, right, lower, upper) ==
    LET noMin == lower \/ right = <<>>
        noMax == upper \/ left = <<>>
        min == IF noMin THEN {} ELSE ParseFloat(left)
        max == IF noMax THEN {} ELSE ParseFloat(right)
    IN  [err |-> (~noMin /\ min = {}) \/ (~noMax /\ max = {}), min |-> min, max |-> max]

ParseRange(s) ==
    LET lower == s # <<>> /\ s[Len(s)] = Plus
        upper == s # <<>> /\ ~lower /\ s[1] = Dash
        body == CASE lower -> Front(s) [] upper -> Tail(s) [] OTHER -> s
        dashes == {k \in DOMAIN body : body[k] = Dash}
        cut == IF dashes = {} THEN 0 ELSE Min(dashes)
    IN  CASE s = <<>> -> [err |-> FALSE, min |-> {}, max |-> {}]
          [] s # <<>> /\ cut = 0 -> ParseOne(body, lower, upper)
          [] OTHER -> ParseTwo(SubSeq(body, 1, cut - 1), SubSeq(body, cut + 1, Len(body)),
                               lower, upper)

Matches(r, v) == (\A m \in r.min : v >= m) /\ (\A m \in r.max : v <= m)

Number(v) == IF v < 0 THEN <<Dash, -v>> ELSE <<v>>

(* Range.String, which MarshalJSON writes. *)
RangeString(r) ==
    LET min == CHOOSE v \in r.min : TRUE
        max == CHOOSE v \in r.max : TRUE
    IN  CASE r.min # {} /\ r.min = r.max -> Number(min)
          [] r.min # {} /\ r.max # {} /\ r.min # r.max -> Number(min) \o <<Dash>> \o Number(max)
          [] r.min # {} /\ r.max = {} -> Number(min) \o <<Plus>>
          [] r.min = {} /\ r.max # {} -> <<Dash>> \o Number(max)
          [] OTHER -> <<>>

-----------------------------------------------------------------------------
(* Accelerators *)

(* addAccelerator: "A100" and "A100:x" ask for one. *)
Count(item) == IF item.n > 0 THEN item.n ELSE 1

(* A list of items, where a name said twice counts as it is said last; or a map,
   whose counts are taken as they are. *)
ParseAccelerators(spec) ==
    LET names == {spec.items[k].name : k \in DOMAIN spec.items}
        last(a) == Max({k \in DOMAIN spec.items : spec.items[k].name = a})
    IN  [a \in names |-> IF spec.form = "list" THEN Count(spec.items[last(a)])
                                               ELSE spec.items[last(a)].n]

-----------------------------------------------------------------------------
(* Resources *)

(* Resources.UnmarshalYAML for one entry; the error of a range or none. *)
UnmarshalFields(raw) ==
    [raw EXCEPT !.cpus = {ParseRange(s) : s \in @},
                !.memory = {ParseRange(s) : s \in @},
                !.disk = {ParseRange(s) : s \in @},
                !.accel = {ParseAccelerators(a) : a \in @}]

FieldsOK(rs) == \A r \in rs.cpus \cup rs.memory \cup rs.disk : ~r.err

(* Mutant: an entry does not inherit the region. *)
fillDefaultsFromKeepRegion(rs, base) ==
    [f \in DOMAIN rs |-> IF rs[f] = {} /\ f # "region" THEN base[f] ELSE rs[f]]

(* An unset field of an ordered entry is taken from the outer resources. *)
fillDefaultsFrom(rs, base) == [f \in DOMAIN rs |-> IF rs[f] = {} THEN base[f] ELSE rs[f]]

(* The resource groups of a task, the outer one first.  The entries of a YAML
   task inherit; a JSON body is decoded field by field. *)
Groups(form, raw) ==
    LET outer == UnmarshalFields(raw.outer)
        entry(k) == UnmarshalFields(raw.ordered[k])
    IN  <<outer>> \o [k \in DOMAIN raw.ordered |->
                        IF form = "yaml" THEN fillDefaultsFrom(entry(k), outer) ELSE entry(k)]

-----------------------------------------------------------------------------
(* Tasks *)

ValidBackends == {"cloud", "existing", "docker", "local"}

validateBackendConfig(t) ==
    /\ t.backend = "existing" => t.ssh
    /\ t.backend = "docker" => t.docker

(* Credentials.Validate: both keys of every cloud. *)
CredentialsOK(t) == \A c \in t.credentials : c.id /\ c.secret

(* Resources.Validate: the characters of the cloud's name. *)
ResourcesOK(t) == t.cloudName

ServiceOK(t) == \A s \in t.service : s.ports /\ (s.run \/ t.run)

(* Defaults, then validation. *)
SetDefaults(t) ==
    LET d == [t EXCEPT !.nodes = IF @ = 0 THEN 1 ELSE @,
                       !.backend = IF @ = "" THEN "cloud" ELSE @]
    IN  [err |-> ~(/\ d.nodes >= 1
                   /\ d.backend \in ValidBackends
                   /\ validateBackendConfig(d)
                   /\ ResourcesOK(d)
                   /\ ServiceOK(d)
                   /\ CredentialsOK(d)),
         task |-> d]
=============================================================================
