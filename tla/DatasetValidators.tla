------------------------- MODULE DatasetValidators -------------------------
(***************************************************************************)
(* What create_model_target_dataset checks of a request, in the terms of   *)
(* ServicesValidators.  A dataset has one model with one view, or several  *)
(* models like it.  Messages are left out: the details of an error are     *)
(* "Details" here, and the first check which has any ends the validation.  *)
(***************************************************************************)
EXTENDS Sequences

Crash == "Crash"

\* The two routes.
Types == {"standard", "advanced"}

\* A field which need not be given is left out if it is "ok".  numbers are those
\* anywhere in the body: json.loads reads Infinity and NaN as floats.
Faults ==
    [content_length |-> {"not_int"},
     token |-> {"missing", "malformed", "other_scope", "not_state_based"},
     content_type |-> {"other"},
     body |-> {"not_text", "not_json", "not_object"},
     training_allowance |-> {"exceeded"},
     name |-> {"absent", "not_string"}, targetSdk |-> {"absent", "not_string"},
     models |-> {"absent", "not_array", "none", "two", "same_names", "too_many"},
     model |-> {"not_object"}, model_name |-> {"absent", "not_string"},
     cad_data |-> {"absent", "two", "not_string"},
     tracking |-> {"given", "other", "not_string", "no_longer_supported"},
     realisticAppearance |-> {"given", "other", "not_string"},
     views |-> {"absent", "not_array", "empty"},
     view |-> {"not_object"}, view_name |-> {"absent", "not_string"},
     guideViewPosition |-> {"given", "not_object", "incomplete", "not_arrays",
                            "not_numbers"},
     states |-> {"given", "not_array", "not_strings", "unknown"},
     configuration |-> {"given", "not_string", "not_json", "no_states"},
     numbers |-> {"infinite"}]

Attributes == DOMAIN Faults

FaultsOf(attribute) == Faults[attribute]

-----------------------------------------------------------------------------
ContentLengthError(req) ==
    IF req.content_length = "not_int" THEN "ContentLengthHeaderNotInt" ELSE ""

RequireBearerToken(req) ==
    CASE req.token \in {"missing", "malformed"} -> "Unauthorized"
      [] req.token = "other_scope" -> "Forbidden"
      [] OTHER -> ""

\* Bytes which are no text are caught here.  What is not an object is reported
\* as one in which every field is missing.
LoadRequestJson(req) ==
    CASE req.content_type = "other" -> "UnsupportedMediaType"
      [] req.content_type = "ok" /\ req.body \in {"not_text", "not_json"} -> "InvalidJson"
      [] OTHER -> IF req.body = "not_object" THEN "Details" ELSE ""

\* Models and views which are no objects are read as empty ones.
HasModels(req) == req.models \notin {"absent", "not_array", "none"}

InModel(req, field) == HasModels(req) /\ req.model = "ok" /\ req[field] # "absent"

HasViews(req) == InModel(req, "views") /\ req.views # "empty"

InView(req, field) ==
    HasViews(req) /\ req.view = "ok" /\ req[field] \notin {"absent", "ok"}

ViewName(req) == HasViews(req) /\ req.view = "ok" /\ req.view_name # "absent"

IsStateBased(req) == InModel(req, "configuration") /\ req.configuration # "ok"

\* The token is read anew: it was checked before.
RequireStateBasedScope(req) ==
    IF ~IsStateBased(req) THEN ""
    ELSE IF req.token \in {"missing", "malformed"} THEN Crash
    ELSE IF req.token = "not_state_based" THEN "Forbidden" ELSE ""

-----------------------------------------------------------------------------
DetailsIf(bad) == IF bad THEN "Details" ELSE ""

TopLevelDetails(req) ==
    DetailsIf(\/ "absent" \in {req.models, req.name, req.targetSdk}
              \/ "not_string" \in {req.name, req.targetSdk}
              \/ req.models = "not_array")

\* The models are read as an array from here on.
OfModels(req, details) ==
    IF req.models \in {"absent", "not_array"} THEN Crash ELSE details

\* Which fields have their values enumerated depends on the route.
ModelFieldDetails(req) ==
    OfModels(req, DetailsIf(/\ HasModels(req)
        /\ \/ req.model = "not_object"
           \/ "absent" \in {req.model_name, req.views, req.cad_data}
           \/ req.cad_data = "two"
           \/ "not_string" \in {req.model_name, req.cad_data, req.tracking,
                                req.configuration}
           \/ req.tracking \in {"other", "no_longer_supported"}
           \/ /\ req.op = "advanced"
              /\ req.realisticAppearance \in {"other", "not_string"}
           \/ req.views = "not_array"))

\* The views are read as an array from here on.
OfViews(req, details) ==
    OfModels(req, IF InModel(req, "views") /\ req.views = "not_array" THEN Crash
                  ELSE details)

ViewDetails(req) ==
    OfViews(req, DetailsIf(/\ HasViews(req)
        /\ \/ ~ViewName(req) \/ req.view_name = "not_string"
           \/ InView(req, "guideViewPosition") /\ req.guideViewPosition = "not_object"))

\* Nothing else can be looked up in than an object.
GuideViewPositionDetails(req) ==
    OfViews(req, IF ~InView(req, "guideViewPosition") THEN ""
                 ELSE IF req.guideViewPosition = "not_object" THEN Crash
                 ELSE DetailsIf(req.guideViewPosition # "given"))

\* States of views have to be among those of their model.  The message for one
\* that is not names its view.
StateBasedDetails(req) ==
    LET states == InView(req, "states")
        configured == IsStateBased(req) /\ req.configuration # "not_string"
    IN  OfViews(req,
            IF states /\ req.states \in {"not_array", "not_strings"} THEN "Details"
            ELSE IF configured /\ req.configuration # "given" THEN "Details"
            ELSE IF states /\ ~configured THEN "Details"
            ELSE IF states /\ req.states = "unknown"
            THEN IF ViewName(req) THEN "Details" ELSE Crash
            ELSE "")

ModelCountDetails(req) ==
    OfModels(req, IF req.op = "standard"
                  THEN DetailsIf(req.models \in {"none", "two", "same_names", "too_many"})
                  ELSE IF HasModels(req) /\ ~InModel(req, "model_name") THEN Crash
                  ELSE DetailsIf(req.models \in {"none", "same_names", "too_many"}))

TrainingAllowance(req) ==
    IF req.training_allowance = "exceeded" THEN "TrainingAllowanceExceeded" ELSE ""

create_model_target_dataset(req) ==
    <<ContentLengthError(req), RequireBearerToken(req), LoadRequestJson(req),
      RequireStateBasedScope(req), TopLevelDetails(req), ModelFieldDetails(req),
      ViewDetails(req), GuideViewPositionDetails(req), StateBasedDetails(req),
      ModelCountDetails(req), TrainingAllowance(req)>>

\* The whole body is posted to the target manager, and requests refuses to write
\* a number which JSON does not have.  No check above is about its value.
add_model_target_dataset(req) ==
    IF req.numbers = "infinite" THEN Crash ELSE "Created"
=============================================================================
