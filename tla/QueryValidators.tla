-------------------------- MODULE QueryValidators --------------------------
(***************************************************************************)
(* run_query_validators: what becomes of one query, in the terms of        *)
(* ServicesValidators.  Headers come before the keys here, and the form is *)
(* parsed anew by every validator of a field.  An image which opens is     *)
(* taken to be one that the matcher can decode.                            *)
(***************************************************************************)
EXTENDS Sequences

Crash == "Crash"

Faults ==
    [content_length |-> {"missing", "not_int", "too_large", "too_small"},
     authorization |-> {"missing", "not_two_parts", "no_signature",
                        "space_after_colon", "unknown_key", "wrong_signature"},
     project |-> {"inactive", "suspended", "no_api_access"},
     accept |-> {"other"},
     date |-> {"missing", "malformed", "skewed"},
     content_type |-> {"missing", "other", "no_boundary", "other_boundary"},
     fields |-> {"unknown"},
     image |-> {"absent", "not_image", "other_format", "too_wide", "too_large"},
     max_num_results |-> {"not_int", "too_large", "out_of_range"},
     include_target_data |-> {"unknown"}]

Attributes == DOMAIN Faults

FaultsOf(attribute) == Faults[attribute]

-----------------------------------------------------------------------------
\* request_headers["Content-Length"] is a KeyError where there is none.
validate_content_length_header_is_int(req) ==
    CASE req.content_length = "missing" -> Crash
      [] req.content_length = "not_int" -> "ContentLengthHeaderNotInt"
      [] OTHER -> ""

validate_content_length_header_not_too_large(req) ==
    CASE req.content_length \in {"missing", "not_int"} -> Crash
      [] req.content_length = "too_large" -> "ContentLengthHeaderTooLarge"
      [] OTHER -> ""

validate_content_length_header_not_too_small(req) ==
    CASE req.content_length \in {"missing", "not_int"} -> Crash
      [] req.content_length = "too_small" -> "AuthenticationFailureGoodFormatting"
      [] OTHER -> ""

validate_auth_header_exists(req) ==
    IF req.authorization = "missing" THEN "AuthHeaderMissing" ELSE ""

validate_auth_header_number_of_parts(req) ==
    CASE req.authorization = "missing" -> Crash
      [] req.authorization = "not_two_parts" -> "MalformedAuthHeader"
      [] OTHER -> ""

validate_auth_header_has_signature(req) ==
    CASE req.authorization = "missing" -> Crash
      [] req.authorization = "no_signature" -> "MalformedAuthHeader"
      [] OTHER -> ""

\* Two parts, of which what is before the colon is one, do not unpack into two.
validate_client_key_exists(req) ==
    CASE req.authorization \in {"missing", "not_two_parts", "no_signature",
                                "space_after_colon"} -> Crash
      [] req.authorization = "unknown_key" -> "AuthenticationFailure"
      [] OTHER -> ""

validate_authorization(req) ==
    IF req.authorization = "ok" THEN "" ELSE "AuthenticationFailure"

validate_project_state(req) ==
    CASE req.authorization # "ok" -> Crash
      [] req.authorization = "ok" /\ req.project = "inactive" -> "InactiveProject"
      [] OTHER -> ""

validate_accept_header(req) ==
    IF req.accept = "other" THEN "InvalidAcceptHeader" ELSE ""

validate_date_header_given(req) ==
    IF req.date = "missing" THEN "DateHeaderNotGiven" ELSE ""

validate_date_format(req) ==
    CASE req.date = "missing" -> Crash
      [] req.date = "malformed" -> "DateFormatNotValid"
      [] OTHER -> ""

validate_date_in_range(req) ==
    CASE req.date \in {"missing", "malformed"} -> Crash
      [] req.date = "skewed" -> "RequestTimeTooSkewed"
      [] OTHER -> ""

validate_content_type_header(req) ==
    CASE req.content_type = "missing" -> "NoContentType"
      [] req.content_type = "other" -> "UnsupportedMediaType"
      [] req.content_type = "no_boundary" -> "NoBoundaryFound"
      [] req.content_type = "other_boundary" -> "ImageNotGiven"
      [] OTHER -> ""

\* MultiPartParser reads the form only with the boundary that is in it.
OfForm(req, error) == IF req.content_type = "ok" THEN error ELSE Crash

validate_extra_fields(req) ==
    OfForm(req, IF req.fields = "unknown" THEN "UnknownParameters" ELSE "")

validate_image_field_given(req) ==
    OfForm(req, IF req.image = "absent" THEN "ImageNotGiven" ELSE "")

OfImage(req, error) == OfForm(req, IF req.image = "absent" THEN Crash ELSE error)

validate_image_is_image(req) ==
    OfImage(req, IF req.image = "not_image" THEN "BadImage" ELSE "")

validate_image_format(req) ==
    OfImage(req, CASE req.image = "not_image" -> Crash
                   [] req.image = "other_format" -> "BadImage"
                   [] OTHER -> "")

validate_image_dimensions(req) ==
    OfImage(req, CASE req.image = "not_image" -> Crash
                   [] req.image = "too_wide" -> "BadImage"
                   [] OTHER -> "")

validate_image_file_size(req) ==
    OfImage(req, IF req.image = "too_large" THEN "RequestEntityTooLarge" ELSE "")

validate_max_num_results(req) ==
    OfForm(req, CASE req.max_num_results \in {"not_int", "too_large"} ->
                       "InvalidMaxNumResults"
                  [] req.max_num_results = "out_of_range" ->
                       "MaxNumResultsOutOfRange"
                  [] OTHER -> "")

validate_include_target_data(req) ==
    OfForm(req, IF req.include_target_data = "unknown"
                THEN "InvalidIncludeTargetData" ELSE "")

run_query_validators(req) ==
    <<validate_content_length_header_is_int(req),
      validate_content_length_header_not_too_large(req),
      validate_content_length_header_not_too_small(req),
      validate_auth_header_exists(req), validate_auth_header_number_of_parts(req),
      validate_auth_header_has_signature(req), validate_client_key_exists(req),
      validate_authorization(req), validate_project_state(req),
      validate_accept_header(req), validate_date_header_given(req),
      validate_date_format(req), validate_date_in_range(req),
      validate_content_type_header(req), validate_extra_fields(req),
      validate_image_field_given(req), validate_image_is_image(req),
      validate_image_format(req), validate_image_dimensions(req),
      validate_image_file_size(req), validate_max_num_results(req),
      validate_include_target_data(req)>>

\* The response reads the fields which were validated.
query(req) ==
    CASE "Crash" \in {OfImage(req, ""), validate_project_state(req)} -> Crash
      [] req.max_num_results = "not_int" -> Crash
      [] OTHER -> "Success"
=============================================================================
