------------------------- MODULE ServicesValidators -------------------------
(***************************************************************************)
(* run_services_validators and the handlers behind it: what becomes of one *)
(* request on a VWS endpoint, from its first validator to its effect on    *)
(* the target manager, in the Docker deployment.  A request is a function  *)
(* from its attributes to what is special about them, "ok" if nothing is.  *)
(* Each validator gives the name of the error it raises, "" if it raises   *)
(* none, and Crash for an exception which nothing catches: a validator     *)
(* runs only after those before it have passed, and some fail on requests  *)
(* which these were to refuse.                                             *)
(***************************************************************************)
EXTENDS Naturals, Sequences

Crash == "Crash"

Reads == {"list", "summary", "get", "target_summary", "duplicates"}

\* Instances are asked of a VuMark database, or by mistake of a cloud database.
Instances == {"instance", "instance_of_cloud"}

Endpoints == Reads \cup Instances \cup {"add", "update", "delete", "report"}

Method(req) ==
    IF req.op \in Reads THEN "GET"
    ELSE IF req.op = "delete" THEN "DELETE"
    ELSE IF req.op = "update" THEN "PUT" ELSE "POST"

OnTarget(req) ==
    req.op \in Instances \cup {"get", "target_summary", "duplicates", "update", "delete"}

IsCloudDatabase(req) == req.op # "instance"

\* The keys a route has: mandatory and optional ones (validate_keys).
Mandatory(req) ==
    CASE req.op = "add" -> {"image", "width", "name"}
      [] req.op \in Instances -> {"instance_id"}
      [] req.op = "report" -> {"month"}
      [] OTHER -> {}

Allowed(req) ==
    IF req.op \in {"add", "update"}
    THEN {"image", "width", "name", "active_flag", "application_metadata"}
    ELSE Mandatory(req)

\* What is special about each attribute, where an endpoint has it.
BodyFaults ==
    [image |-> {"absent", "not_string", "not_base64", "unpadded", "not_image",
                "other_format", "other_colors", "too_large", "too_many_pixels",
                "damaged"},
     width |-> {"absent", "not_positive", "infinite"},
     name |-> {"absent", "not_string", "wrong_length", "out_of_range", "taken",
               "taken_twice"},
     active_flag |-> {"absent", "null", "number", "not_hashable", "other"},
     application_metadata |-> {"absent", "null", "not_string", "not_base64",
                               "too_large"},
     instance_id |-> {"absent", "not_string", "empty"},
     month |-> {"absent", "malformed", "out_of_range"}]

OtherFaults ==
    [authorization |-> {"missing", "no_signature", "not_two_parts",
                        "unknown_key", "wrong_signature"},
     request_quota |-> {"used_up"}, request_rate |-> {"exceeded"},
     project |-> {"inactive", "suspended", "no_api_access"},
     target_quota |-> {"used_up"}, database_id |-> {"other"},
     target |-> {"unknown", "malformed", "processing", "failed"},
     body |-> {"not_text", "not_json", "not_object", "none", "given"},
     date |-> {"missing", "malformed", "skewed"},
     keys |-> {"unknown"}, content_type |-> {"missing"},
     content_length |-> {"not_int", "too_large", "too_small"},
     accept |-> {"other"}]

Attributes == DOMAIN BodyFaults \cup DOMAIN OtherFaults

FaultsOf(attribute) ==
    IF attribute \in DOMAIN BodyFaults THEN BodyFaults[attribute]
    ELSE OtherFaults[attribute]

Concerns(req, attribute) ==
    CASE attribute \in DOMAIN BodyFaults -> attribute \in Allowed(req)
      [] attribute = "target_quota" -> req.op = "add"
      [] attribute = "database_id" -> req.op = "report"
      [] attribute = "target" -> OnTarget(req)
      [] attribute = "accept" -> req.op \in Instances
      [] attribute = "keys" -> Allowed(req) # {}
      [] OTHER -> TRUE

-----------------------------------------------------------------------------
\* get_database_matching_server_keys raises ValueError where nothing matches.
WithDatabase(req, error) == IF req.authorization = "ok" THEN error ELSE Crash

validate_auth_header_exists(req) ==
    IF req.authorization = "missing" THEN "AuthenticationFailure" ELSE ""

validate_auth_header_has_signature(req) ==
    CASE req.authorization = "missing" -> Crash
      [] req.authorization = "no_signature" -> "Fail"
      [] OTHER -> ""

\* What is before the colon is unpacked into two parts.
validate_access_key_exists(req) ==
    CASE req.authorization \in {"missing", "no_signature", "not_two_parts"} -> Crash
      [] req.authorization = "unknown_key" -> "Fail"
      [] OTHER -> ""

validate_authorization(req) ==
    IF req.authorization = "ok" THEN "" ELSE "AuthenticationFailure"

validate_database_id_matches_keys(req) ==
    IF req.op # "report" THEN ""
    ELSE WithDatabase(req, IF req.database_id = "ok" THEN ""
                           ELSE "AuthenticationFailure")

validate_request_quota(req) ==
    WithDatabase(req, IF IsCloudDatabase(req) /\ req.request_quota = "used_up"
                      THEN "RequestQuotaReached" ELSE "")

validate_request_rate(req) ==
    WithDatabase(req, IF req.request_rate = "exceeded" THEN "TooManyRequests" ELSE "")

\* Inactive cloud projects are read, but for duplicates.
validate_project_state(req) ==
    WithDatabase(req,
        CASE req.project = "no_api_access" -> "ProjectHasNoAPIAccess"
          [] req.project = "suspended" -> "ProjectSuspended"
          [] /\ req.project = "inactive" /\ IsCloudDatabase(req)
             /\ req.op \notin Reads \ {"duplicates"} -> "ProjectInactive"
          [] OTHER -> "")

validate_target_quota(req) ==
    IF req.op # "add" THEN ""
    ELSE WithDatabase(req, IF req.target_quota = "used_up"
                           THEN "TargetQuotaReached" ELSE "")

validate_target_id_exists(req) ==
    IF ~OnTarget(req) THEN ""
    ELSE WithDatabase(req, IF req.target \in {"unknown", "malformed"}
                           THEN "UnknownTarget" ELSE "")

-----------------------------------------------------------------------------
NeedsBody(req) == Method(req) \in {"POST", "PUT"}

\* The body is not empty: "ok" is what the route takes, and only POST and PUT
\* take a body.
HasBody(req) == req.body # "none" /\ (NeedsBody(req) \/ req.body # "ok")

IsObject(req) == req.body \in {"ok", "given"}

BadRequestOf(req) == IF req.op \in Instances THEN "BadRequest" ELSE "Fail"

validate_body_given(req) ==
    IF HasBody(req) /\ ~NeedsBody(req) THEN "UnnecessaryRequestBody" ELSE ""

validate_date_header_given(req) == IF req.date = "missing" THEN "Fail" ELSE ""

validate_date_format(req) ==
    CASE req.date = "missing" -> Crash
      [] req.date = "malformed" -> "Fail"
      [] OTHER -> ""

validate_date_in_range(req) ==
    CASE req.date \in {"missing", "malformed"} -> Crash
      [] req.date = "skewed" -> "RequestTimeTooSkewed"
      [] OTHER -> ""

\* Bytes which are no text are an uncaught UnicodeDecodeError.
validate_json(req) ==
    IF ~HasBody(req) \/ IsObject(req) THEN ""
    ELSE IF req.body = "not_text" THEN Crash ELSE BadRequestOf(req)

\* One route must match the path, which has no room for a malformed target id.
\* An empty body where there are keys to give is an uncaught JSONDecodeError.
validate_keys(req) ==
    IF OnTarget(req) /\ req.target = "malformed" THEN Crash
    ELSE IF ~HasBody(req) /\ Allowed(req) = {} THEN ""
    ELSE IF ~HasBody(req) \/ ~IsObject(req) THEN Crash
    ELSE IF req.keys = "unknown" \/ \E key \in Mandatory(req) : req[key] = "absent"
    THEN "Fail" ELSE ""

-----------------------------------------------------------------------------
\* The validators of a field load the body again.
OfField(req, field, error) ==
    IF ~HasBody(req) THEN ""
    ELSE IF ~IsObject(req) THEN Crash
    ELSE IF field \notin Allowed(req) \/ req[field] = "absent" THEN ""
    ELSE error

\* decode_base64 takes only strings.
Decoded(value, error) ==
    IF value \in {"not_string", "not_base64"} THEN Crash ELSE error

\* open_image raises OSError for what is no image.
Opened(value, error) == Decoded(value, IF value = "not_image" THEN Crash ELSE error)

OfMetadata(req, error) ==
    OfField(req, "application_metadata",
            IF req.application_metadata = "null" THEN "" ELSE error)

OfImage(req, error) == OfField(req, "image", error)

validate_metadata_type(req) ==
    OfMetadata(req, IF req.application_metadata = "not_string" THEN "Fail" ELSE "")

validate_metadata_encoding(req) ==
    OfMetadata(req, CASE req.application_metadata = "not_string" -> Crash
                      [] req.application_metadata = "not_base64" -> "Fail"
                      [] OTHER -> "")

validate_metadata_size(req) ==
    OfMetadata(req, Decoded(req.application_metadata,
                            IF req.application_metadata = "too_large"
                            THEN "MetadataTooLarge" ELSE ""))

\* Mutant: any value is taken for a flag.
AnyFlag(req) == ""

\* active_flag in {True, False, None}: so are 1 and 0, and a list is no member
\* of any set.
validate_active_flag(req) ==
    OfField(req, "active_flag",
            CASE req.active_flag = "not_hashable" -> Crash
              [] req.active_flag = "other" -> "Fail"
              [] OTHER -> "")

validate_instance_id_type(req) ==
    OfField(req, "instance_id",
            IF req.instance_id = "not_string" THEN "BadRequest" ELSE "")

validate_instance_id_not_empty(req) ==
    OfField(req, "instance_id",
            IF req.instance_id = "empty" THEN "InvalidInstanceId" ELSE "")

validate_image_data_type(req) ==
    OfImage(req, IF req.image = "not_string" THEN "Fail" ELSE "")

validate_image_encoding(req) ==
    OfImage(req, CASE req.image = "not_string" -> Crash
                   [] req.image = "not_base64" -> "Fail"
                   [] OTHER -> "")

validate_image_is_image(req) ==
    OfImage(req, Decoded(req.image, IF req.image = "not_image" THEN "BadImage" ELSE ""))

validate_image_format(req) ==
    OfImage(req, Opened(req.image, IF req.image = "other_format" THEN "BadImage" ELSE ""))

validate_image_color_space(req) ==
    OfImage(req, Opened(req.image, IF req.image = "other_colors" THEN "BadImage" ELSE ""))

validate_image_size(req) ==
    OfImage(req, Decoded(req.image, IF req.image = "too_large" THEN "ImageTooLarge" ELSE ""))

validate_image_pixel_count(req) ==
    OfImage(req, Opened(req.image, IF req.image = "too_many_pixels"
                                   THEN "ImageTooLarge" ELSE ""))

validate_image_integrity(req) ==
    OfImage(req, Opened(req.image, IF req.image = "damaged" THEN "BadImage" ELSE ""))

validate_name_type(req) ==
    OfField(req, "name", IF req.name = "not_string" THEN "Fail" ELSE "")

validate_name_length(req) ==
    OfField(req, "name", CASE req.name = "not_string" -> Crash
                           [] req.name = "wrong_length" -> "Fail"
                           [] OTHER -> "")

validate_name_characters_in_range(req) ==
    OfField(req, "name",
            CASE req.name = "not_string" -> Crash
              [] req.name = "out_of_range" ->
                    IF req.op = "add" THEN "Fail" ELSE "TargetNameExist"
              [] OTHER -> "")

validate_name_does_not_exist_new_target(req) ==
    IF OnTarget(req) THEN ""
    ELSE OfField(req, "name",
                 WithDatabase(req, IF req.name \in {"taken", "taken_twice"}
                                   THEN "TargetNameExist" ELSE ""))

\* Two targets of the name do not fit into one.
validate_name_does_not_exist_existing_target(req) ==
    IF ~OnTarget(req) THEN ""
    ELSE OfField(req, "name",
                 WithDatabase(req, CASE req.name = "taken" -> "TargetNameExist"
                                     [] req.name = "taken_twice" -> Crash
                                     [] OTHER -> ""))

\* Infinity is a number of JSON as Python reads it, and positive.
validate_width(req) ==
    OfField(req, "width", IF req.width = "not_positive" THEN "Fail" ELSE "")

validate_content_type_header_given(req) ==
    IF NeedsBody(req) /\ req.content_type = "missing"
    THEN "AuthenticationFailure" ELSE ""

validate_content_length_header_is_int(req) ==
    IF req.content_length = "not_int" THEN "ContentLengthHeaderNotInt" ELSE ""

validate_content_length_header_not_too_large(req) ==
    CASE req.content_length = "not_int" -> Crash
      [] req.content_length = "too_large" -> "ContentLengthHeaderTooLarge"
      [] OTHER -> ""

validate_content_length_header_not_too_small(req) ==
    CASE req.content_length = "not_int" -> Crash
      [] req.content_length = "too_small" -> "AuthenticationFailure"
      [] OTHER -> ""

-----------------------------------------------------------------------------
OfCaller(req) ==
    <<validate_auth_header_exists(req), validate_auth_header_has_signature(req),
      validate_access_key_exists(req), validate_authorization(req)>>

OfState(req) ==
    <<validate_database_id_matches_keys(req), validate_request_quota(req),
      validate_request_rate(req), validate_project_state(req),
      validate_target_quota(req), validate_target_id_exists(req)>>

\* Mutant: the date is compared before its format is looked at.
OfFormRangeFirst(req) ==
    <<validate_body_given(req), validate_date_header_given(req),
      validate_date_in_range(req), validate_date_format(req),
      validate_json(req), validate_keys(req)>>

OfForm(req) ==
    <<validate_body_given(req), validate_date_header_given(req),
      validate_date_format(req), validate_date_in_range(req),
      validate_json(req), validate_keys(req)>>

OfFields(req) ==
    <<validate_metadata_type(req), validate_metadata_encoding(req),
      validate_metadata_size(req), validate_active_flag(req),
      validate_instance_id_type(req), validate_instance_id_not_empty(req),
      validate_image_data_type(req), validate_image_encoding(req),
      validate_image_is_image(req), validate_image_format(req),
      validate_image_color_space(req), validate_image_size(req),
      validate_image_pixel_count(req), validate_image_integrity(req),
      validate_name_type(req), validate_name_length(req),
      validate_name_characters_in_range(req),
      validate_name_does_not_exist_new_target(req),
      validate_name_does_not_exist_existing_target(req), validate_width(req)>>

OfHeaders(req) ==
    <<validate_content_type_header_given(req),
      validate_content_length_header_is_int(req),
      validate_content_length_header_not_too_large(req),
      validate_content_length_header_not_too_small(req)>>

\* Mutant: the form of a request is looked at before its caller.
FormFirst(req) ==
    OfForm(req) \o OfCaller(req) \o OfState(req) \o OfFields(req) \o OfHeaders(req)

run_services_validators(req) ==
    OfCaller(req) \o OfState(req) \o OfForm(req) \o OfFields(req) \o OfHeaders(req)

-----------------------------------------------------------------------------
\* The handlers.  An image may lack its padding, which decode_base64 adds and
\* base64.b64decode does not; ImageTarget takes no number for a flag; and
\* requests sends no infinite number.
add_target(req) ==
    IF req.image = "unpadded" \/ req.active_flag = "number" \/ req.width = "infinite"
    THEN Crash ELSE "TargetCreated"

update_target(req) ==
    IF req.target # "ok" THEN "TargetStatusNotSuccess"
    ELSE IF "null" \in {req.active_flag, req.application_metadata} THEN "Fail"
    ELSE IF req.width = "infinite" THEN Crash ELSE "Success"

delete_target(req) ==
    IF req.target = "processing" THEN "TargetStatusProcessing" ELSE "Success"

generate_vumark_instance(req) ==
    IF IsCloudDatabase(req) THEN "InvalidTargetType"
    ELSE IF req.target # "ok" THEN "TargetStatusNotSuccess"
    ELSE IF req.accept = "other" THEN "InvalidAcceptHeader" ELSE "Success"

create_reco_counts_report(req) ==
    IF req.month \in {"malformed", "out_of_range"} THEN "Fail" ELSE "Success"

Handled(req) ==
    CASE req.op = "add" -> add_target(req)
      [] req.op = "update" -> update_target(req)
      [] req.op = "delete" -> delete_target(req)
      [] req.op \in Instances -> generate_vumark_instance(req)
      [] req.op = "report" -> create_reco_counts_report(req)
      [] OTHER -> "Success"

\* Whether update_target of the target manager stores what it is sent: it
\* decodes the image anew and makes an ImageTarget.
Stored(req) ==
    /\ req.image \notin {"unpadded", "not_string"}
    /\ req.active_flag \notin {"number", "not_hashable", "other"}
    /\ req.name # "not_string"
=============================================================================
