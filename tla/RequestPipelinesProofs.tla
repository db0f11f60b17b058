----------------------- MODULE RequestPipelinesProofs -----------------------
(***************************************************************************)
(* What RequestPipelines says of an answer holds whatever is special about *)
(* a request, and however much of it is: for every MaxFaults.  Each        *)
(* validator fails only on what one before it refuses, and the first to    *)
(* refuse decides the answer.                                              *)
(***************************************************************************)
EXTENDS RequestPipelines, Integers, FiniteSetTheorems, SequenceTheorems, TLAPS

-----------------------------------------------------------------------------
\* What a validator gives that raises no error.  The proofs about positions in a
\* pipeline leave it unexpanded.
NoError == ""

\* No validator raises an error, or the first one that does raises this.
Passed(verdicts) == \A i \in DOMAIN verdicts : verdicts[i] = NoError

Raised(verdicts, error) ==
    \E i \in DOMAIN verdicts :
       /\ verdicts[i] = error /\ error # NoError
       /\ \A j \in 1 .. (i - 1) : verdicts[j] = NoError

IsPipeline(verdicts) == \E S : verdicts \in Seq(S)

\* Of two pipelines in a row the second runs once the first has passed.
LEMMA InARow ==
    ASSUME NEW s, NEW t, IsPipeline(s), IsPipeline(t)
    PROVE  /\ IsPipeline(s \o t)
           /\ Passed(s \o t) <=> Passed(s) /\ Passed(t)
           /\ \A error : Raised(s \o t, error) =>
                 Raised(s, error) \/ (Passed(s) /\ Raised(t, error))
<1> PICK S : s \in Seq(S)
  BY DEF IsPipeline
<1> PICK T : t \in Seq(T)
  BY DEF IsPipeline
<1>0. /\ s \in Seq(S \cup T) /\ t \in Seq(S \cup T) /\ s \o t \in Seq(S \cup T)
  OBVIOUS
<1>1. /\ Len(s) \in Nat /\ Len(t) \in Nat
      /\ DOMAIN s = 1 .. Len(s) /\ DOMAIN t = 1 .. Len(t)
      /\ DOMAIN (s \o t) = 1 .. (Len(s) + Len(t))
  BY <1>0, ConcatProperties, LenProperties
<1>2. \A i \in 1 .. (Len(s) + Len(t)) :
         (s \o t)[i] = IF i <= Len(s) THEN s[i] ELSE t[i - Len(s)]
  BY <1>0, ConcatProperties
<1>3. \A i \in 1 .. Len(s) : i \in DOMAIN (s \o t) /\ (s \o t)[i] = s[i]
  BY <1>1, <1>2
<1>4. \A i \in 1 .. Len(t) :
         Len(s) + i \in DOMAIN (s \o t) /\ (s \o t)[Len(s) + i] = t[i]
  BY <1>1, <1>2
<1>5. Passed(s \o t) => Passed(s) /\ Passed(t)
  BY <1>1, <1>3, <1>4 DEF Passed
<1>6. Passed(s) /\ Passed(t) => Passed(s \o t)
  BY <1>1, <1>2 DEF Passed
<1>7. ASSUME NEW error, Raised(s \o t, error)
      PROVE  Raised(s, error) \/ (Passed(s) /\ Raised(t, error))
  <2>1. PICK i \in 1 .. (Len(s) + Len(t)) :
           /\ (s \o t)[i] = error /\ error # NoError
           /\ \A j \in 1 .. (i - 1) : (s \o t)[j] = NoError
    BY <1>1, <1>7 DEF Raised
  <2>2. CASE i <= Len(s)
    <3>1. i \in DOMAIN s /\ s[i] = error
      BY <1>1, <1>3, <2>1, <2>2
    <3>2. \A j \in 1 .. (i - 1) : s[j] = NoError
      BY <1>1, <1>3, <2>1, <2>2
    <3>3. QED
      BY <2>1, <3>1, <3>2 DEF Raised
  <2>3. CASE i > Len(s)
    <3>1. i - Len(s) \in DOMAIN t /\ t[i - Len(s)] = error
      BY <1>1, <1>2, <2>1, <2>3
    <3>2. \A j \in 1 .. ((i - Len(s)) - 1) : t[j] = NoError
      <4> SUFFICES ASSUME NEW j \in 1 .. ((i - Len(s)) - 1) PROVE t[j] = NoError
        OBVIOUS
      <4>1. j \in 1 .. Len(t) /\ Len(s) + j \in 1 .. (i - 1)
        BY <1>1, <2>1
      <4>2. QED
        BY <1>4, <2>1, <4>1
    <3>3. \A j \in 1 .. Len(s) : s[j] = NoError
      <4> SUFFICES ASSUME NEW j \in 1 .. Len(s) PROVE s[j] = NoError
        OBVIOUS
      <4>1. j \in 1 .. (i - 1)
        BY <1>1, <2>1, <2>3
      <4>2. QED
        BY <1>3, <2>1, <4>1
    <3>4. Passed(s)
      BY <1>1, <3>3 DEF Passed
    <3>5. Raised(t, error)
      BY <2>1, <3>1, <3>2 DEF Raised
    <3>6. QED
      BY <3>4, <3>5
  <2>4. QED
    BY <1>1, <2>2, <2>3
<1>8. IsPipeline(s \o t)
  BY <1>0 DEF IsPipeline
<1>9. QED
  BY <1>5, <1>6, <1>7, <1>8

\* A verdict is what a handler that succeeded never gives.
Refusal(error) == error \notin {"TargetCreated", "Success"}

-----------------------------------------------------------------------------
\* The pipeline of the VWS app, one group of validators after another.
LEMMA PipelinesOfServices ==
    ASSUME NEW req
    PROVE  /\ IsPipeline(Services!OfCaller(req))
           /\ IsPipeline(Services!OfState(req))
           /\ IsPipeline(Services!OfForm(req))
           /\ IsPipeline(Services!OfFields(req))
           /\ IsPipeline(Services!OfHeaders(req))
<1>1. IsPipeline(Services!OfCaller(req))
  <2> DEFINE v == Services!OfCaller(req)
  <2>1. v \in Seq({v[i] : i \in DOMAIN v})
    BY DEF Services!OfCaller
  <2>2. QED
    BY <2>1 DEF IsPipeline
<1>2. IsPipeline(Services!OfState(req))
  <2> DEFINE v == Services!OfState(req)
  <2>1. v \in Seq({v[i] : i \in DOMAIN v})
    BY DEF Services!OfState
  <2>2. QED
    BY <2>1 DEF IsPipeline
<1>3. IsPipeline(Services!OfForm(req))
  <2> DEFINE v == Services!OfForm(req)
  <2>1. v \in Seq({v[i] : i \in DOMAIN v})
    BY DEF Services!OfForm
  <2>2. QED
    BY <2>1 DEF IsPipeline
<1>4. IsPipeline(Services!OfFields(req))
  <2> DEFINE v == Services!OfFields(req)
  <2>1. v \in Seq({v[i] : i \in DOMAIN v})
    BY DEF Services!OfFields
  <2>2. QED
    BY <2>1 DEF IsPipeline
<1>5. IsPipeline(Services!OfHeaders(req))
  <2> DEFINE v == Services!OfHeaders(req)
  <2>1. v \in Seq({v[i] : i \in DOMAIN v})
    BY DEF Services!OfHeaders
  <2>2. QED
    BY <2>1 DEF IsPipeline
<1>6. QED
  BY <1>1, <1>2, <1>3, <1>4, <1>5

\* Callers are told what is wrong with their Authorization header.
LEMMA CallerRefused ==
    ASSUME NEW req, NEW v, v = Services!OfCaller(req)
    PROVE  /\ Passed(v) <=> req.authorization = "ok"
           /\ \A error : Raised(v, error) =>
                /\ Refusal(error)
                /\ error = Crash => req.authorization = "not_two_parts"
                /\ req.authorization \in DOMAIN ToStranger =>
                      error = ToStranger[req.authorization]
<1>1. /\ DOMAIN v = 1 .. 4
      /\ v[1] = Services!validate_auth_header_exists(req)
      /\ v[2] = Services!validate_auth_header_has_signature(req)
      /\ v[3] = Services!validate_access_key_exists(req)
      /\ v[4] = Services!validate_authorization(req)
  BY DEF Services!OfCaller
<1>2. CASE req.authorization = "ok"
  <2>1. v[1] = NoError /\ v[2] = NoError /\ v[3] = NoError /\ v[4] = NoError
    BY <1>1, <1>2 DEF NoError, Services!validate_auth_header_exists,
       Services!validate_auth_header_has_signature,
       Services!validate_access_key_exists, Services!validate_authorization
  <2>2. QED
    BY <1>1, <1>2, <2>1 DEF Passed, Raised
<1>3. CASE req.authorization # "ok"
  <2>1. /\ v[1] # NoError =>
              req.authorization = "missing" /\ v[1] = "AuthenticationFailure"
        /\ v[1] = NoError /\ v[2] # NoError =>
              req.authorization = "no_signature" /\ v[2] = "Fail"
        /\ v[1] = NoError /\ v[2] = NoError /\ v[3] # NoError =>
              \/ req.authorization = "not_two_parts" /\ v[3] = Crash
              \/ req.authorization = "unknown_key" /\ v[3] = "Fail"
        /\ v[1] = NoError /\ v[2] = NoError /\ v[3] = NoError =>
              req.authorization \notin {"missing", "no_signature", "not_two_parts",
                                        "unknown_key"}
        /\ v[4] = "AuthenticationFailure" /\ v[4] # NoError
    BY <1>1, <1>3 DEF NoError, Crash, Services!Crash,
       Services!validate_auth_header_exists,
       Services!validate_auth_header_has_signature,
       Services!validate_access_key_exists, Services!validate_authorization
  <2>2. ASSUME NEW error, Raised(v, error)
        PROVE  \/ req.authorization = "missing" /\ error = "AuthenticationFailure"
               \/ req.authorization = "no_signature" /\ error = "Fail"
               \/ req.authorization = "not_two_parts" /\ error = Crash
               \/ req.authorization = "unknown_key" /\ error = "Fail"
               \/ /\ req.authorization \notin {"missing", "no_signature",
                                              "not_two_parts", "unknown_key"}
                  /\ error = "AuthenticationFailure"
    BY <1>1, <2>1, <2>2 DEF Raised
  <2>3. /\ DOMAIN ToStranger = {"missing", "no_signature", "not_two_parts",
                               "unknown_key", "wrong_signature"}
        /\ ToStranger["missing"] = "AuthenticationFailure"
        /\ ToStranger["no_signature"] = "Fail"
        /\ ToStranger["not_two_parts"] = Crash
        /\ ToStranger["unknown_key"] = "Fail"
        /\ ToStranger["wrong_signature"] = "AuthenticationFailure"
    BY DEF ToStranger
  <2>4. ASSUME NEW error, Raised(v, error)
        PROVE  /\ Refusal(error)
               /\ error = Crash => req.authorization = "not_two_parts"
               /\ req.authorization \in DOMAIN ToStranger =>
                     error = ToStranger[req.authorization]
    BY <2>2, <2>3, <2>4 DEF Refusal, Crash
  <2>5. ~Passed(v)
    BY <1>1, <2>1 DEF Passed
  <2>6. QED
    BY <1>3, <2>4, <2>5
<1>4. QED
  BY <1>2, <1>3

\* The state of the database is looked at once the caller is known.
LEMMA StateRefused ==
    ASSUME NEW req, req.authorization = "ok", NEW v, v = Services!OfState(req)
    PROVE  /\ Passed(v) => ~(Services!OnTarget(req) /\ req.target = "malformed")
           /\ \A error : Raised(v, error) => Refusal(error) /\ error # Crash
<1>1. /\ DOMAIN v = 1 .. 6
      /\ v[1] = Services!validate_database_id_matches_keys(req)
      /\ v[2] = Services!validate_request_quota(req)
      /\ v[3] = Services!validate_request_rate(req)
      /\ v[4] = Services!validate_project_state(req)
      /\ v[5] = Services!validate_target_quota(req)
      /\ v[6] = Services!validate_target_id_exists(req)
  BY DEF Services!OfState
<1>2. Passed(v) => ~(Services!OnTarget(req) /\ req.target = "malformed")
  <2>1. Passed(v) => v[6] = NoError
    BY <1>1 DEF Passed
  <2>2. QED
    BY <1>1, <2>1 DEF NoError, Services!validate_target_id_exists,
       Services!WithDatabase
<1>3. /\ Refusal(v[1]) /\ v[1] # Crash /\ Refusal(v[2]) /\ v[2] # Crash
      /\ Refusal(v[3]) /\ v[3] # Crash /\ Refusal(v[4]) /\ v[4] # Crash
      /\ Refusal(v[5]) /\ v[5] # Crash /\ Refusal(v[6]) /\ v[6] # Crash
  BY <1>1 DEF Refusal, Crash, Services!WithDatabase,
     Services!validate_database_id_matches_keys, Services!validate_request_quota,
     Services!validate_request_rate, Services!validate_project_state,
     Services!validate_target_quota, Services!validate_target_id_exists
<1>4. \A error : Raised(v, error) => Refusal(error) /\ error # Crash
  BY <1>1, <1>3 DEF Raised
<1>5. QED
  BY <1>2, <1>4

\* Where a route has keys, its requests have bodies.
LEMMA KeysNeedBody ==
    ASSUME NEW req, req.op \in Services!Endpoints, Services!Allowed(req) # {}
    PROVE  Services!NeedsBody(req)
BY DEF Services!Endpoints, Services!Reads, Services!Instances, Services!Allowed,
   Services!Mandatory, Services!NeedsBody, Services!Method

\* A request which is let through is an object, if it has a body, and has a
\* body if it has keys to give.
LEMMA FormRefused ==
    ASSUME NEW req, req.op \in Services!Endpoints, NEW v, v = Services!OfForm(req),
           ~(Services!OnTarget(req) /\ req.target = "malformed")
    PROVE  /\ Passed(v) => /\ Services!HasBody(req) => Services!IsObject(req)
                           /\ Services!Allowed(req) # {} => Services!HasBody(req)
           /\ \A error : Raised(v, error) =>
                /\ Refusal(error)
                /\ error = Crash => UncaughtByServices(req)
<1>1. /\ DOMAIN v = 1 .. 6
      /\ v[1] = Services!validate_body_given(req)
      /\ v[2] = Services!validate_date_header_given(req)
      /\ v[3] = Services!validate_date_format(req)
      /\ v[4] = Services!validate_date_in_range(req)
      /\ v[5] = Services!validate_json(req)
      /\ v[6] = Services!validate_keys(req)
  BY DEF Services!OfForm
<1>2. /\ v[5] = NoError => (Services!HasBody(req) => Services!IsObject(req))
      /\ v[6] = NoError => (Services!Allowed(req) # {} => Services!HasBody(req))
  BY <1>1 DEF NoError, Services!validate_json, Services!validate_keys,
     Services!Crash, Services!BadRequestOf
<1>3. /\ Refusal(v[1]) /\ v[1] # Crash /\ Refusal(v[2]) /\ v[2] # Crash
      /\ Refusal(v[3]) /\ (v[2] = NoError => v[3] # Crash)
      /\ Refusal(v[4]) /\ (v[2] = NoError /\ v[3] = NoError => v[4] # Crash)
  BY <1>1 DEF Refusal, Crash, NoError, Services!Crash, Services!validate_body_given,
     Services!validate_date_header_given, Services!validate_date_format,
     Services!validate_date_in_range
<1>4. Refusal(v[5]) /\ (v[5] = Crash => UncaughtByServices(req))
  BY <1>1 DEF Refusal, Crash, Services!Crash, Services!validate_json,
     Services!BadRequestOf, UncaughtByServices
<1>5. Services!Allowed(req) # {} /\ ~Services!HasBody(req) => req.body = "none"
  BY KeysNeedBody DEF Services!HasBody
<1>6. Refusal(v[6]) /\ (v[5] = NoError /\ v[6] = Crash => UncaughtByServices(req))
  BY <1>1, <1>2, <1>5 DEF Refusal, Crash, Services!Crash, Services!validate_keys,
     UncaughtByServices
<1>7. ASSUME NEW error, Raised(v, error)
      PROVE  Refusal(error) /\ (error = Crash => UncaughtByServices(req))
  BY <1>1, <1>3, <1>4, <1>6, <1>7 DEF Raised
<1>8. QED
  BY <1>1, <1>2, <1>7 DEF Passed

\* A Content-Length that is no number is refused before it is compared.
LEMMA HeadersRefused ==
    ASSUME NEW req, NEW v, v = Services!OfHeaders(req)
    PROVE  /\ \A error : Raised(v, error) => Refusal(error) /\ error # Crash
<1>1. /\ DOMAIN v = 1 .. 4
      /\ v[1] = Services!validate_content_type_header_given(req)
      /\ v[2] = Services!validate_content_length_header_is_int(req)
      /\ v[3] = Services!validate_content_length_header_not_too_large(req)
      /\ v[4] = Services!validate_content_length_header_not_too_small(req)
  BY DEF Services!OfHeaders
<1>2. /\ Refusal(v[1]) /\ v[1] # Crash /\ Refusal(v[2]) /\ v[2] # Crash
      /\ Refusal(v[3]) /\ (v[2] = NoError => v[3] # Crash)
      /\ Refusal(v[4]) /\ (v[2] = NoError => v[4] # Crash)
  BY <1>1 DEF Refusal, Crash, NoError, Services!Crash,
     Services!validate_content_type_header_given,
     Services!validate_content_length_header_is_int,
     Services!validate_content_length_header_not_too_large,
     Services!validate_content_length_header_not_too_small
<1>3. \A error : Raised(v, error) => Refusal(error) /\ error # Crash
  BY <1>1, <1>2 DEF Raised
<1>4. QED
  BY <1>3

\* Names are given for new targets and for updates.
LEMMA NamesOf ==
    ASSUME NEW req
    PROVE  /\ "name" \in Services!Allowed(req) /\ Services!OnTarget(req) =>
                 req.op = "update"
           /\ req.op \in {"add", "update"} =>
                 {"image", "name", "active_flag"} \subseteq Services!Allowed(req)
BY DEF Services!Allowed, Services!Mandatory, Services!OnTarget, Services!Instances

\* What the target manager cannot type is refused.
Typed(req) ==
    /\ req.image # "not_string" /\ req.name # "not_string"
    /\ req.active_flag \notin {"not_hashable", "other"}

\* The type of a field comes before its encoding, and that before its content.
LEMMA FieldsRefused ==
    ASSUME NEW req, req.authorization = "ok",
           Services!HasBody(req) => Services!IsObject(req),
           NEW v, v = Services!OfFields(req)
    PROVE  /\ Passed(v) /\ Services!HasBody(req) /\ req.op \in {"add", "update"} =>
                 Typed(req)
           /\ \A error : Raised(v, error) =>
                /\ Refusal(error)
                /\ error = Crash => UncaughtByServices(req)
<1>1. /\ DOMAIN v = 1 .. 20
      /\ v[1] = Services!validate_metadata_type(req)
      /\ v[2] = Services!validate_metadata_encoding(req)
      /\ v[3] = Services!validate_metadata_size(req)
      /\ v[4] = Services!validate_active_flag(req)
      /\ v[5] = Services!validate_instance_id_type(req)
      /\ v[6] = Services!validate_instance_id_not_empty(req)
      /\ v[7] = Services!validate_image_data_type(req)
      /\ v[8] = Services!validate_image_encoding(req)
      /\ v[9] = Services!validate_image_is_image(req)
      /\ v[10] = Services!validate_image_format(req)
      /\ v[11] = Services!validate_image_color_space(req)
      /\ v[12] = Services!validate_image_size(req)
      /\ v[13] = Services!validate_image_pixel_count(req)
      /\ v[14] = Services!validate_image_integrity(req)
      /\ v[15] = Services!validate_name_type(req)
      /\ v[16] = Services!validate_name_length(req)
      /\ v[17] = Services!validate_name_characters_in_range(req)
      /\ v[18] = Services!validate_name_does_not_exist_new_target(req)
      /\ v[19] = Services!validate_name_does_not_exist_existing_target(req)
      /\ v[20] = Services!validate_width(req)
  BY DEF Services!OfFields
<1>2. /\ Refusal(v[1]) /\ v[1] # Crash
      /\ Refusal(v[2]) /\ (v[1] = NoError => v[2] # Crash)
      /\ Refusal(v[3]) /\ (v[1] = NoError /\ v[2] = NoError => v[3] # Crash)
  BY <1>1 DEF Refusal, Crash, NoError, Services!Crash, Services!OfField,
     Services!OfMetadata, Services!Decoded, Services!validate_metadata_type,
     Services!validate_metadata_encoding, Services!validate_metadata_size
<1>3. /\ Refusal(v[4]) /\ (v[4] = Crash => req.active_flag = "not_hashable")
      /\ Refusal(v[5]) /\ v[5] # Crash /\ Refusal(v[6]) /\ v[6] # Crash
  BY <1>1 DEF Refusal, Crash, Services!Crash, Services!OfField,
     Services!validate_active_flag, Services!validate_instance_id_type,
     Services!validate_instance_id_not_empty
<1>4. /\ Refusal(v[7]) /\ v[7] # Crash
      /\ Refusal(v[8]) /\ (v[7] = NoError => v[8] # Crash)
      /\ Refusal(v[9]) /\ (v[7] = NoError /\ v[8] = NoError => v[9] # Crash)
  BY <1>1 DEF Refusal, Crash, NoError, Services!Crash, Services!OfField,
     Services!OfImage, Services!Decoded, Services!validate_image_data_type,
     Services!validate_image_encoding, Services!validate_image_is_image
<1>5. ASSUME v[7] = NoError, v[8] = NoError
      PROVE  v[9] = NoError => /\ v[10] # Crash /\ v[11] # Crash
                               /\ v[13] # Crash /\ v[14] # Crash
  BY <1>1, <1>5 DEF Crash, NoError, Services!Crash, Services!OfField,
     Services!OfImage, Services!Decoded, Services!Opened,
     Services!validate_image_data_type, Services!validate_image_encoding,
     Services!validate_image_is_image, Services!validate_image_format,
     Services!validate_image_color_space, Services!validate_image_pixel_count,
     Services!validate_image_integrity
<1>6. v[7] = NoError /\ v[8] = NoError => v[12] # Crash
  BY <1>1 DEF Crash, NoError, Services!Crash, Services!OfField,
     Services!OfImage, Services!Decoded, Services!validate_image_data_type,
     Services!validate_image_encoding, Services!validate_image_size
<1>7. /\ Refusal(v[10]) /\ Refusal(v[11]) /\ Refusal(v[12])
      /\ Refusal(v[13]) /\ Refusal(v[14])
  <2>1. \A error : Refusal(error) =>
           Refusal(Services!OfImage(req, Services!Decoded(req.image, error)))
    BY DEF Refusal, Services!Crash, Services!OfField, Services!OfImage,
       Services!Decoded
  <2>2. \A error : Refusal(error) =>
           Refusal(Services!OfImage(req, Services!Opened(req.image, error)))
    <3>1. \A error : Refusal(error) =>
             Refusal(IF req.image = "not_image" THEN Services!Crash ELSE error)
      BY DEF Refusal, Services!Crash
    <3>2. QED
      BY <2>1, <3>1 DEF Services!Opened
  <2>3. Refusal("") /\ Refusal("BadImage") /\ Refusal("ImageTooLarge")
    BY DEF Refusal
  <2>4. QED
    BY <1>1, <2>1, <2>2, <2>3 DEF Services!validate_image_format,
       Services!validate_image_color_space, Services!validate_image_size,
       Services!validate_image_pixel_count, Services!validate_image_integrity
<1>8. /\ Refusal(v[15]) /\ v[15] # Crash
      /\ Refusal(v[16]) /\ (v[15] = NoError => v[16] # Crash)
      /\ Refusal(v[17]) /\ (v[15] = NoError => v[17] # Crash)
      /\ Refusal(v[18]) /\ v[18] # Crash
  <2>1. /\ Refusal(v[15]) /\ v[15] # Crash
        /\ Refusal(v[16]) /\ (v[15] = NoError => v[16] # Crash)
    BY <1>1 DEF Refusal, Crash, NoError, Services!Crash, Services!OfField,
       Services!validate_name_type, Services!validate_name_length
  <2>2. Refusal(v[17]) /\ (v[15] = NoError => v[17] # Crash)
    BY <1>1 DEF Refusal, Crash, NoError, Services!Crash, Services!OfField,
       Services!validate_name_type, Services!validate_name_characters_in_range
  <2>3. Refusal(v[18]) /\ v[18] # Crash
    BY <1>1 DEF Refusal, Crash, Services!Crash, Services!OfField,
       Services!WithDatabase, Services!validate_name_does_not_exist_new_target
  <2>4. QED
    BY <2>1, <2>2, <2>3
<1>9. /\ Refusal(v[19])
      /\ v[19] = Crash => req.name = "taken_twice" /\ req.op = "update"
      /\ Refusal(v[20]) /\ v[20] # Crash
  BY <1>1, NamesOf DEF Refusal, Crash, Services!Crash, Services!OfField,
     Services!WithDatabase, Services!validate_width,
     Services!validate_name_does_not_exist_existing_target
<1>10. ASSUME NEW error, Raised(v, error)
       PROVE  Refusal(error)
  <2>1. PICK i \in 1 .. 20 : v[i] = error
    BY <1>1, <1>10 DEF Raised
  <2>2. QED
    BY <1>2, <1>3, <1>4, <1>7, <1>8, <1>9, <2>1
<1>11. ASSUME NEW error, Raised(v, error)
       PROVE  error = Crash => \/ req.active_flag = "not_hashable"
                               \/ req.name = "taken_twice" /\ req.op = "update"
  BY <1>1, <1>2, <1>3, <1>4, <1>5, <1>6, <1>8, <1>9, <1>11 DEF Raised
<1>12. ASSUME Passed(v), Services!HasBody(req), req.op \in {"add", "update"}
       PROVE  Typed(req)
  <2>1. v[4] = NoError /\ v[7] = NoError /\ v[15] = NoError
    BY <1>1, <1>12 DEF Passed
  <2>2. "image" \in Services!Allowed(req) /\ "name" \in Services!Allowed(req)
        /\ "active_flag" \in Services!Allowed(req)
    BY <1>12, NamesOf
  <2>3. QED
    BY <1>1, <1>12, <2>1, <2>2 DEF Typed, NoError, Services!Crash,
       Services!OfField, Services!OfImage, Services!validate_active_flag,
       Services!validate_image_data_type, Services!validate_name_type
<1>13. QED
  BY <1>10, <1>11, <1>12 DEF UncaughtByServices

\* Whatever is wrong with a request of the VWS app, the first validator that
\* fails has an error of its own for it, but for the known exceptions.
LEMMA ServicesRefused ==
    ASSUME NEW req, req.op \in Services!Endpoints,
           NEW v, v = Services!run_services_validators(req)
    PROVE  /\ Passed(v) => /\ req.authorization = "ok"
                           /\ req.op \in {"add", "update"} => Typed(req)
           /\ \A error : Raised(v, error) =>
                /\ Refusal(error)
                /\ error = Crash => UncaughtByServices(req)
                /\ req.authorization \in DOMAIN ToStranger =>
                      error = ToStranger[req.authorization]
<1> DEFINE caller == Services!OfCaller(req)
           state == Services!OfState(req)
           form == Services!OfForm(req)
           fields == Services!OfFields(req)
           headers == Services!OfHeaders(req)
<1> DEFINE toState == caller \o state
           toForm == toState \o form
           toFields == toForm \o fields
<1>1. v = toFields \o headers
  BY DEF Services!run_services_validators
<1>2. /\ Passed(caller) <=> req.authorization = "ok"
      /\ \A error : Raised(caller, error) =>
            /\ Refusal(error)
            /\ error = Crash => req.authorization = "not_two_parts"
            /\ req.authorization \in DOMAIN ToStranger =>
                  error = ToStranger[req.authorization]
  BY CallerRefused
<1>3. req.authorization = "ok" =>
         /\ Passed(state) => ~(Services!OnTarget(req) /\ req.target = "malformed")
         /\ \A error : Raised(state, error) => Refusal(error) /\ error # Crash
  BY StateRefused
<1>4. ~(Services!OnTarget(req) /\ req.target = "malformed") =>
         /\ Passed(form) => /\ Services!HasBody(req) => Services!IsObject(req)
                            /\ Services!Allowed(req) # {} => Services!HasBody(req)
         /\ \A error : Raised(form, error) =>
              /\ Refusal(error)
              /\ error = Crash => UncaughtByServices(req)
  BY FormRefused
<1>5. req.authorization = "ok" /\ (Services!HasBody(req) => Services!IsObject(req)) =>
         /\ Passed(fields) /\ Services!HasBody(req) /\ req.op \in {"add", "update"} =>
               Typed(req)
         /\ \A error : Raised(fields, error) =>
              /\ Refusal(error)
              /\ error = Crash => UncaughtByServices(req)
  BY FieldsRefused
<1>6. \A error : Raised(headers, error) => Refusal(error) /\ error # Crash
  BY HeadersRefused
<1>7. /\ IsPipeline(caller) /\ IsPipeline(state) /\ IsPipeline(form)
      /\ IsPipeline(fields) /\ IsPipeline(headers)
  BY PipelinesOfServices
<1> HIDE DEF caller, state, form, fields, headers
<1>8. /\ IsPipeline(toState)
      /\ Passed(toState) <=> Passed(caller) /\ Passed(state)
      /\ \A error : Raised(toState, error) =>
            Raised(caller, error) \/ (Passed(caller) /\ Raised(state, error))
  BY <1>7, InARow
<1> HIDE DEF toState
<1>9. /\ IsPipeline(toForm)
      /\ Passed(toForm) <=> Passed(toState) /\ Passed(form)
      /\ \A error : Raised(toForm, error) =>
            Raised(toState, error) \/ (Passed(toState) /\ Raised(form, error))
  BY <1>7, <1>8, InARow
<1> HIDE DEF toForm
<1>10. /\ IsPipeline(toFields)
       /\ Passed(toFields) <=> Passed(toForm) /\ Passed(fields)
       /\ \A error : Raised(toFields, error) =>
             Raised(toForm, error) \/ (Passed(toForm) /\ Raised(fields, error))
  BY <1>7, <1>9, InARow
<1> HIDE DEF toFields
<1>11. /\ Passed(v) <=> Passed(toFields) /\ Passed(headers)
       /\ \A error : Raised(v, error) =>
             Raised(toFields, error) \/ (Passed(toFields) /\ Raised(headers, error))
  BY <1>1, <1>7, <1>10, InARow
<1>12. req.op \in {"add", "update"} => Services!Allowed(req) # {}
  BY NamesOf
<1>13. Passed(toForm) =>
          /\ req.authorization = "ok"
          /\ Services!HasBody(req) => Services!IsObject(req)
          /\ req.op \in {"add", "update"} => Services!HasBody(req)
  BY <1>2, <1>3, <1>4, <1>8, <1>9, <1>12
<1>14. Passed(v) => /\ req.authorization = "ok"
                    /\ req.op \in {"add", "update"} => Typed(req)
  BY <1>5, <1>10, <1>11, <1>13
<1>15. req.authorization = "ok" =>
          req.authorization \notin DOMAIN ToStranger
  BY DEF ToStranger
<1>16. req.authorization = "not_two_parts" => UncaughtByServices(req)
  BY DEF UncaughtByServices
<1>17. ASSUME NEW error, Raised(v, error)
       PROVE  /\ Refusal(error)
              /\ error = Crash => UncaughtByServices(req)
              /\ req.authorization \in DOMAIN ToStranger =>
                    error = ToStranger[req.authorization]
  <2>1. CASE Raised(caller, error)
    BY <1>2, <1>16, <2>1
  <2>2. CASE Passed(caller) /\ Raised(state, error)
    BY <1>2, <1>3, <1>15, <2>2
  <2>3. CASE Passed(toState) /\ Raised(form, error)
    BY <1>2, <1>3, <1>4, <1>8, <1>15, <2>3
  <2>4. CASE Passed(toForm) /\ Raised(fields, error)
    BY <1>5, <1>13, <1>15, <2>4
  <2>5. CASE Passed(toFields) /\ Raised(headers, error)
    BY <1>6, <1>10, <1>13, <1>15, <2>5
  <2>6. QED
    BY <1>8, <1>9, <1>10, <1>11, <1>17, <2>1, <2>2, <2>3, <2>4, <2>5
<1>18. QED
  BY <1>14, <1>17

\* Behind the validators, a handler fails only on what its client library, or
\* ImageTarget, does not take; and its success is that of the target manager.
LEMMA ServicesHandled ==
    ASSUME NEW req, req.op \in Services!Endpoints
    PROVE  /\ Services!Handled(req) = Crash => UncaughtByServices(req)
           /\ Services!Handled(req) # ""
           /\ req.op \in {"add", "update"} /\ Typed(req) =>
                 \/ Services!Handled(req) \notin {"TargetCreated", "Success"}
                 \/ Services!Stored(req)
                 \/ /\ req.op = "update"
                    /\ req.image = "unpadded" \/ req.active_flag = "number"
<1>1. CASE req.op = "add"
  <2>1. Services!Handled(req) = Services!add_target(req)
    BY <1>1 DEF Services!Handled, Services!Instances
  <2>2. /\ Services!add_target(req) \in {Crash, "TargetCreated"}
        /\ Services!add_target(req) = Crash =>
              \/ req.image = "unpadded" \/ req.active_flag = "number"
              \/ req.width = "infinite"
        /\ Services!add_target(req) = "TargetCreated" =>
              req.image # "unpadded" /\ req.active_flag # "number"
    BY DEF Services!add_target, Crash, Services!Crash
  <2>3. QED
    BY <1>1, <2>1, <2>2 DEF Crash, UncaughtByServices, Typed, Services!Stored
<1>2. CASE req.op = "update"
  <2>1. Services!Handled(req) = Services!update_target(req)
    BY <1>2 DEF Services!Handled, Services!Instances
  <2>2. /\ Services!update_target(req) # ""
        /\ Services!update_target(req) = Crash => req.width = "infinite"
    BY DEF Services!update_target, Crash, Services!Crash
  <2>3. Typed(req) => \/ Services!Stored(req)
                     \/ req.image = "unpadded" \/ req.active_flag = "number"
    BY DEF Typed, Services!Stored
  <2>4. QED
    BY <1>2, <2>1, <2>2, <2>3 DEF UncaughtByServices
<1>3. CASE req.op \notin {"add", "update"}
  <2>1. Services!Handled(req) \in
           {Services!delete_target(req), Services!generate_vumark_instance(req),
            Services!create_reco_counts_report(req), "Success"}
    BY <1>3 DEF Services!Handled, Services!Instances
  <2>2. /\ Services!delete_target(req) \notin {Crash, ""}
        /\ Services!generate_vumark_instance(req) \notin {Crash, ""}
        /\ Services!create_reco_counts_report(req) \notin {Crash, ""}
    BY DEF Services!delete_target, Crash, Services!generate_vumark_instance,
       Services!create_reco_counts_report
  <2>3. Services!Handled(req) \notin {Crash, ""}
    BY <2>1, <2>2 DEF Crash
  <2>4. QED
    BY <1>3, <2>3
<1>4. QED
  BY <1>1, <1>2, <1>3

-----------------------------------------------------------------------------
\* What the VWQ app tells those who do not hold the keys.
ToStrangerOfQuery ==
    {"AuthHeaderMissing", "MalformedAuthHeader", Crash, "AuthenticationFailure",
     "AuthenticationFailureGoodFormatting", "ContentLengthHeaderNotInt",
     "ContentLengthHeaderTooLarge"}

\* The pipeline of the VWQ app.  It looks at the length of a query first, then
\* at who asks, and at the form once its Content-Type is one that can be read.
LEMMA QueryRefused ==
    ASSUME NEW req,
           req.content_type \in Query!FaultsOf("content_type") \cup {"ok"},
           NEW v, v = Query!run_query_validators(req)
    PROVE  /\ Passed(v) => req.authorization = "ok" /\ Query!query(req) = "Success"
           /\ \A error : Raised(v, error) =>
                /\ error = Crash => UncaughtByQuery(req)
                /\ req.authorization # "ok" => error \in ToStrangerOfQuery
<1>1. /\ DOMAIN v = 1 .. 22
      /\ v[1] = Query!validate_content_length_header_is_int(req)
      /\ v[2] = Query!validate_content_length_header_not_too_large(req)
      /\ v[3] = Query!validate_content_length_header_not_too_small(req)
      /\ v[4] = Query!validate_auth_header_exists(req)
      /\ v[5] = Query!validate_auth_header_number_of_parts(req)
      /\ v[6] = Query!validate_auth_header_has_signature(req)
      /\ v[7] = Query!validate_client_key_exists(req)
      /\ v[8] = Query!validate_authorization(req)
      /\ v[9] = Query!validate_project_state(req)
      /\ v[10] = Query!validate_accept_header(req)
      /\ v[11] = Query!validate_date_header_given(req)
      /\ v[12] = Query!validate_date_format(req)
      /\ v[13] = Query!validate_date_in_range(req)
      /\ v[14] = Query!validate_content_type_header(req)
      /\ v[15] = Query!validate_extra_fields(req)
      /\ v[16] = Query!validate_image_field_given(req)
      /\ v[17] = Query!validate_image_is_image(req)
      /\ v[18] = Query!validate_image_format(req)
      /\ v[19] = Query!validate_image_dimensions(req)
      /\ v[20] = Query!validate_image_file_size(req)
      /\ v[21] = Query!validate_max_num_results(req)
      /\ v[22] = Query!validate_include_target_data(req)
  BY DEF Query!run_query_validators
<1>2. /\ v[1] = Crash => UncaughtByQuery(req)
      /\ v[1] = NoError => v[2] # Crash /\ v[3] # Crash
  BY <1>1 DEF Crash, Query!Crash, NoError, UncaughtByQuery,
     Query!validate_content_length_header_is_int,
     Query!validate_content_length_header_not_too_large,
     Query!validate_content_length_header_not_too_small
<1>3. /\ v[4] # Crash
      /\ v[4] = NoError => v[5] # Crash /\ v[6] # Crash
      /\ v[4] = NoError /\ v[5] = NoError /\ v[6] = NoError =>
            (v[7] = Crash => UncaughtByQuery(req))
  BY <1>1 DEF Crash, Query!Crash, NoError, UncaughtByQuery,
     Query!validate_auth_header_exists, Query!validate_auth_header_number_of_parts,
     Query!validate_auth_header_has_signature, Query!validate_client_key_exists
<1>4. /\ v[8] # Crash /\ (v[8] = NoError <=> req.authorization = "ok")
      /\ v[8] = NoError => v[9] # Crash
  BY <1>1 DEF Crash, Query!Crash, NoError, Query!validate_authorization,
     Query!validate_project_state
<1>5. /\ v[10] # Crash /\ v[11] # Crash
      /\ v[11] = NoError => v[12] # Crash
      /\ v[11] = NoError /\ v[12] = NoError => v[13] # Crash
  BY <1>1 DEF Crash, Query!Crash, NoError, Query!validate_accept_header,
     Query!validate_date_header_given, Query!validate_date_format,
     Query!validate_date_in_range
<1>6. v[14] # Crash /\ (v[14] = NoError => req.content_type = "ok")
  <2>1. req.content_type \in {"ok", "missing", "other", "no_boundary", "other_boundary"}
    BY DEF Query!FaultsOf, Query!Faults
  <2>2. QED
    BY <1>1, <2>1 DEF Crash, NoError, Query!validate_content_type_header
<1>7. req.content_type = "ok" =>
         /\ v[15] # Crash /\ v[16] # Crash /\ v[21] # Crash /\ v[22] # Crash
         /\ v[16] = NoError => req.image # "absent"
  BY <1>1 DEF Crash, Query!Crash, NoError, Query!OfForm,
     Query!validate_extra_fields, Query!validate_image_field_given,
     Query!validate_max_num_results, Query!validate_include_target_data
<1>8. req.content_type = "ok" /\ req.image # "absent" =>
         /\ v[17] # Crash /\ v[20] # Crash
         /\ v[17] = NoError => v[18] # Crash /\ v[19] # Crash
  BY <1>1 DEF Crash, Query!Crash, NoError, Query!OfForm, Query!OfImage,
     Query!validate_image_is_image, Query!validate_image_format,
     Query!validate_image_dimensions, Query!validate_image_file_size
<1>9. ASSUME NEW error, Raised(v, error)
      PROVE  error = Crash => UncaughtByQuery(req)
  BY <1>1, <1>2, <1>3, <1>4, <1>5, <1>6, <1>7, <1>8, <1>9 DEF Raised
<1>10. /\ v[1] = NoError \/ v[1] \in ToStrangerOfQuery
       /\ v[2] = NoError \/ v[2] \in ToStrangerOfQuery
       /\ v[3] = NoError \/ v[3] \in ToStrangerOfQuery
       /\ v[4] = NoError \/ v[4] \in ToStrangerOfQuery
  BY <1>1 DEF Crash, Query!Crash, NoError, ToStrangerOfQuery,
     Query!validate_content_length_header_is_int,
     Query!validate_content_length_header_not_too_large,
     Query!validate_content_length_header_not_too_small,
     Query!validate_auth_header_exists
<1>11. /\ v[5] = NoError \/ v[5] \in ToStrangerOfQuery
       /\ v[6] = NoError \/ v[6] \in ToStrangerOfQuery
       /\ v[7] = NoError \/ v[7] \in ToStrangerOfQuery
       /\ v[8] = NoError \/ v[8] \in ToStrangerOfQuery
  BY <1>1 DEF Crash, Query!Crash, NoError, ToStrangerOfQuery,
     Query!validate_auth_header_number_of_parts,
     Query!validate_auth_header_has_signature, Query!validate_client_key_exists,
     Query!validate_authorization
<1>12. ASSUME NEW error, Raised(v, error), req.authorization # "ok"
       PROVE  error \in ToStrangerOfQuery
  BY <1>1, <1>4, <1>10, <1>11, <1>12 DEF Raised
<1>13. ASSUME Passed(v)
       PROVE  req.authorization = "ok" /\ Query!query(req) = "Success"
  <2>1. /\ v[8] = NoError /\ v[9] = NoError /\ v[14] = NoError /\ v[16] = NoError
        /\ v[21] = NoError
    BY <1>1, <1>13 DEF Passed
  <2>2. /\ req.authorization = "ok" /\ req.content_type = "ok" /\ req.image # "absent"
    BY <1>4, <1>6, <1>7, <2>1
  <2>3. Query!OfImage(req, "") = ""
    BY <2>2 DEF Query!OfImage, Query!OfForm
  <2>4. Query!validate_project_state(req) = ""
    BY <1>1, <2>1 DEF NoError
  <2>5. req.max_num_results # "not_int"
    BY <1>1, <2>1, <2>2 DEF NoError, Query!validate_max_num_results,
       Query!OfForm
  <2>6. QED
    BY <2>2, <2>3, <2>4, <2>5 DEF Query!query
<1>14. QED
  BY <1>9, <1>12, <1>13

-----------------------------------------------------------------------------
\* The checks of a dataset's description.  Each reads as arrays and objects what
\* those before it have found to be arrays and objects.
LEMMA DatasetRefused ==
    ASSUME NEW req, req.model \in Datasets!FaultsOf("model") \cup {"ok"},
           NEW v, v = Datasets!create_model_target_dataset(req)
    PROVE  /\ Passed(v) => req.token \notin {"missing", "malformed"}
           /\ \A error : Raised(v, error) =>
                /\ error # Crash
                /\ req.token \in {"missing", "malformed"} =>
                      error \in {"Unauthorized", "ContentLengthHeaderNotInt"}
<1>1. /\ DOMAIN v = 1 .. 11
      /\ v[1] = Datasets!ContentLengthError(req)
      /\ v[2] = Datasets!RequireBearerToken(req)
      /\ v[3] = Datasets!LoadRequestJson(req)
      /\ v[4] = Datasets!RequireStateBasedScope(req)
      /\ v[5] = Datasets!TopLevelDetails(req)
      /\ v[6] = Datasets!ModelFieldDetails(req)
      /\ v[7] = Datasets!ViewDetails(req)
      /\ v[8] = Datasets!GuideViewPositionDetails(req)
      /\ v[9] = Datasets!StateBasedDetails(req)
      /\ v[10] = Datasets!ModelCountDetails(req)
      /\ v[11] = Datasets!TrainingAllowance(req)
  BY DEF Datasets!create_model_target_dataset
<1>2. /\ v[1] \in {NoError, "ContentLengthHeaderNotInt"} /\ v[1] # Crash
      /\ v[2] # Crash
      /\ req.token \in {"missing", "malformed"} => v[2] = "Unauthorized" /\ v[2] # NoError
      /\ v[3] # Crash /\ (v[2] = NoError => v[4] # Crash)
  BY <1>1 DEF Crash, Datasets!Crash, NoError, Datasets!ContentLengthError,
     Datasets!RequireBearerToken, Datasets!LoadRequestJson,
     Datasets!RequireStateBasedScope
<1>3. v[5] # Crash /\ (v[5] = NoError => req.models \notin {"absent", "not_array"})
  BY <1>1 DEF Crash, NoError, Datasets!TopLevelDetails, Datasets!DetailsIf
<1>4. req.models \notin {"absent", "not_array"} =>
         /\ v[6] # Crash
         /\ v[6] = NoError /\ Datasets!HasModels(req) =>
               /\ req.model # "not_object" /\ req.model_name # "absent"
               /\ req.views # "not_array"
  BY <1>1 DEF Crash, NoError, Datasets!ModelFieldDetails, Datasets!OfModels,
     Datasets!DetailsIf
<1>5. req.model # "not_object" => req.model = "ok"
  BY DEF Datasets!FaultsOf, Datasets!Faults
<1> DEFINE viewsRead == /\ req.models \notin {"absent", "not_array"}
                        /\ Datasets!InModel(req, "views") => req.views # "not_array"
<1>6. v[5] = NoError /\ v[6] = NoError => viewsRead
  BY <1>3, <1>4 DEF Datasets!InModel
<1>7. ASSUME viewsRead
      PROVE  /\ v[7] # Crash
             /\ v[7] = NoError =>
                   /\ Datasets!HasViews(req) => Datasets!ViewName(req)
                   /\ Datasets!InView(req, "guideViewPosition") =>
                         req.guideViewPosition # "not_object"
  BY <1>1, <1>7 DEF Crash, NoError, Datasets!ViewDetails, Datasets!OfViews,
     Datasets!OfModels, Datasets!DetailsIf, Datasets!InView
<1>8. viewsRead /\ v[7] = NoError => v[8] # Crash
  BY <1>1, <1>7 DEF Crash, Datasets!GuideViewPositionDetails, Datasets!OfViews,
     Datasets!OfModels, Datasets!DetailsIf
<1>9. viewsRead /\ v[7] = NoError => v[9] # Crash
  <2>1. Datasets!InView(req, "states") => Datasets!HasViews(req)
    BY DEF Datasets!InView
  <2>2. QED
    BY <1>1, <1>7, <2>1 DEF Crash, Datasets!StateBasedDetails, Datasets!OfViews,
       Datasets!OfModels
<1>10. v[5] = NoError /\ v[6] = NoError => v[10] # Crash
  <2>1. v[5] = NoError /\ v[6] = NoError /\ Datasets!HasModels(req) =>
           Datasets!InModel(req, "model_name")
    BY <1>3, <1>4, <1>5 DEF Datasets!InModel
  <2>2. QED
    BY <1>1, <1>3, <2>1 DEF Crash, Datasets!ModelCountDetails, Datasets!OfModels,
       Datasets!DetailsIf
<1>11. v[11] # Crash
  BY <1>1 DEF Crash, Datasets!TrainingAllowance
<1> HIDE DEF viewsRead
<1>12. ASSUME NEW error, Raised(v, error)
       PROVE  error # Crash
  <2>1. /\ v[5] = NoError /\ v[6] = NoError => v[7] # Crash
        /\ v[5] = NoError /\ v[6] = NoError /\ v[7] = NoError =>
              v[8] # Crash /\ v[9] # Crash
        /\ v[5] = NoError => v[6] # Crash
    BY <1>3, <1>4, <1>6, <1>7, <1>8, <1>9
  <2>2. QED
    BY <1>1, <1>2, <1>3, <1>10, <1>11, <1>12, <2>1 DEF Raised
<1>13. ASSUME NEW error, Raised(v, error), req.token \in {"missing", "malformed"}
       PROVE  error \in {"Unauthorized", "ContentLengthHeaderNotInt"}
  BY <1>1, <1>2, <1>13 DEF Raised
<1>14. Passed(v) => req.token \notin {"missing", "malformed"}
  BY <1>1, <1>2 DEF Passed
<1>15. QED
  BY <1>12, <1>13, <1>14

-----------------------------------------------------------------------------
\* A handler has only requests which every validator of their app let through.
HandledPassed == place = "handler" => Passed(Verdicts)

\* What a client can be sending, and an app work on.
Requested ==
    /\ app \in {"vws", "query", "dataset"}
    /\ request.op \in Operations
    /\ \A attribute \in Attributes :
          request[attribute] \in FaultsOf(attribute) \cup {"ok"}

LEMMA RequestedServices ==
    ASSUME Requested, app = "vws"
    PROVE  /\ request.op \in Services!Endpoints
           /\ request.authorization # "ok" => request.authorization \in DOMAIN ToStranger
           /\ Verdicts = Services!run_services_validators(request)
<1>1. "authorization" \in Services!Attributes
  BY DEF Services!Attributes, Services!OtherFaults
<1>2. Services!FaultsOf("authorization") = DOMAIN ToStranger
  BY DEF Services!FaultsOf, Services!OtherFaults, Services!BodyFaults, ToStranger
<1>3. request["authorization"] \in Services!FaultsOf("authorization") \cup {"ok"}
  BY <1>1 DEF Requested, Attributes, FaultsOf
<1>4. QED
  BY <1>2, <1>3 DEF Requested, Operations, Verdicts

LEMMA RequestedQuery ==
    ASSUME Requested, app = "query"
    PROVE  /\ request.op = "query"
           /\ request.content_type \in Query!FaultsOf("content_type") \cup {"ok"}
           /\ Verdicts = Query!run_query_validators(request)
<1>1. "content_type" \in Query!Attributes
  BY DEF Query!Attributes, Query!Faults
<1>2. request["content_type"] \in Query!FaultsOf("content_type") \cup {"ok"}
  BY <1>1 DEF Requested, Attributes, FaultsOf
<1>3. QED
  BY <1>2 DEF Requested, Operations, Verdicts

LEMMA RequestedDataset ==
    ASSUME Requested, app = "dataset"
    PROVE  /\ request.op \in {"standard", "advanced"}
           /\ request.model \in Datasets!FaultsOf("model") \cup {"ok"}
           /\ Verdicts = Datasets!create_model_target_dataset(request)
<1>1. "model" \in Datasets!Attributes
  BY DEF Datasets!Attributes, Datasets!Faults
<1>2. request["model"] \in Datasets!FaultsOf("model") \cup {"ok"}
  BY <1>1 DEF Requested, Attributes, FaultsOf
<1>3. QED
  BY <1>2 DEF Requested, Operations, Verdicts, Datasets!Types

\* What is special about a request grows by one thing at a time.
LEMMA OneMoreSpecial ==
    ASSUME NEW req, NEW attribute \in DOMAIN req, NEW value,
           NEW S, S = {a \in DOMAIN req \ {"op"} : req[a] # "ok"},
           NEW T, T = {a \in DOMAIN [req EXCEPT ![attribute] = value] \ {"op"} :
                          [req EXCEPT ![attribute] = value][a] # "ok"},
           IsFiniteSet(S)
    PROVE  IsFiniteSet(T) /\ Cardinality(T) <= Cardinality(S) + 1
<1>1. T \subseteq S \cup {attribute}
  OBVIOUS
<1>2. /\ IsFiniteSet(S \cup {attribute})
      /\ Cardinality(S \cup {attribute}) \in Nat
      /\ Cardinality(S \cup {attribute}) <= Cardinality(S) + 1
  <2>1. /\ IsFiniteSet(S \cup {attribute})
        /\ \/ Cardinality(S \cup {attribute}) = Cardinality(S)
           \/ Cardinality(S \cup {attribute}) = Cardinality(S) + 1
    BY FS_AddElement
  <2>2. Cardinality(S) \in Nat /\ Cardinality(S \cup {attribute}) \in Nat
    BY <2>1, FS_CardinalityType
  <2>3. QED
    BY <2>1, <2>2
<1>3. QED
  <2>1. IsFiniteSet(T) /\ Cardinality(T) <= Cardinality(S \cup {attribute})
    BY <1>1, <1>2, FS_Subset
  <2>2. Cardinality(S) \in Nat /\ Cardinality(T) \in Nat
    BY <2>1, FS_CardinalityType
  <2>3. QED
    BY <1>2, <2>1, <2>2

\* An answer which is right for the request that it answers.
Right == OnlyKnownCrashes /\ AcknowledgedIsStored /\ KeysComeFirst

IInv == TypeOK /\ HandledPassed /\ Right

LEMMA InitIInv == Init => IInv
<1> SUFFICES ASSUME Init PROVE IInv
  OBVIOUS
<1>1. /\ DOMAIN request = {"op"} /\ request.op = "none"
      /\ Attributes = {} /\ Operations = {"none"}
  BY DEF Init, NoRequest, Plain, Attributes, Operations
<1>2. Special = {}
  BY <1>1 DEF Special
<1>3. IsFiniteSet(Special) /\ Cardinality(Special) <= MaxFaults
  BY <1>2, FS_EmptySet, PipelinesAssumption
<1>4. TypeOK
  BY <1>1, <1>3 DEF Init, TypeOK
<1>5. HandledPassed /\ Right
  BY DEF Init, HandledPassed, Right, OnlyKnownCrashes, AcknowledgedIsStored,
     KeysComeFirst
<1>6. QED
  BY <1>4, <1>5 DEF IInv

\* Away from the answer there is nothing to be right or wrong.
LEMMA RightBefore ==
    ASSUME place' # "answer"
    PROVE  Right'
BY DEF Right, OnlyKnownCrashes, AcknowledgedIsStored, KeysComeFirst

LEMMA BeginIInv ==
    ASSUME IInv, Begin
    PROVE  IInv'
<1> DEFINE Begun(op, attributes) ==
             /\ DOMAIN request' = attributes \cup {"op"} /\ request'.op = op
             /\ \A a \in attributes : request'[a] = "ok"
<1>1. ASSUME NEW op, NEW attributes, "op" \notin attributes,
             request' = Plain(op, attributes)
      PROVE  Begun(op, attributes)
  BY <1>1 DEF Plain
<1>2. /\ "op" \notin Services!Attributes /\ "op" \notin Query!Attributes
      /\ "op" \notin Datasets!Attributes
  BY DEF Services!Attributes, Services!BodyFaults, Services!OtherFaults,
     Query!Attributes, Query!Faults, Datasets!Attributes, Datasets!Faults
<1>3. PICK op, attributes : /\ Begun(op, attributes) /\ op \in Operations'
                           /\ attributes = Attributes'
                           /\ app' \in {"vws", "query", "dataset"}
  <2>1. CASE app' = "vws"
    <3>1. PICK op \in Services!Endpoints : request' = Plain(op, Services!Attributes)
      BY <2>1 DEF Begin
    <3>2. Begun(op, Services!Attributes)
      BY <1>1, <1>2, <3>1
    <3>3. op \in Operations' /\ Services!Attributes = Attributes'
      BY <2>1, <3>1 DEF Operations, Attributes
    <3>4. QED
      BY <2>1, <3>2, <3>3
  <2>2. CASE app' = "query"
    <3>1. Begun("query", Query!Attributes)
      BY <1>1, <1>2, <2>2 DEF Begin
    <3>2. "query" \in Operations' /\ Query!Attributes = Attributes'
      BY <2>2 DEF Operations, Attributes
    <3>3. QED
      BY <2>2, <3>1, <3>2
  <2>3. CASE app' = "dataset"
    <3>1. PICK op \in Datasets!Types : request' = Plain(op, Datasets!Attributes)
      BY <2>3 DEF Begin
    <3>2. Begun(op, Datasets!Attributes)
      BY <1>1, <1>2, <3>1
    <3>3. op \in Operations' /\ Datasets!Attributes = Attributes'
      BY <2>3, <3>1 DEF Operations, Attributes
    <3>4. QED
      BY <2>3, <3>2, <3>3
  <2>4. QED
    BY <2>1, <2>2, <2>3 DEF Begin
<1>4. Special' = {}
  BY <1>3 DEF Special
<1>5. IsFiniteSet(Special') /\ Cardinality(Special') <= MaxFaults
  BY <1>4, FS_EmptySet, PipelinesAssumption
<1>6. /\ place' = "client" /\ answer' = answer /\ stored' = stored
      /\ answer = "" /\ ~stored
  BY DEF Begin, IInv, TypeOK
<1>7. TypeOK'
  BY <1>3, <1>5, <1>6 DEF TypeOK
<1>8. HandledPassed' /\ Right'
  BY <1>6, RightBefore DEF HandledPassed
<1>9. QED
  BY <1>7, <1>8 DEF IInv

LEMMA MakeSpecialIInv ==
    ASSUME IInv, MakeSpecial
    PROVE  IInv'
<1>1. PICK attribute \in DOMAIN request \ ({"op"} \cup Special) :
         \E value \in FaultsOf(attribute) :
            request' = [request EXCEPT ![attribute] = value]
  BY DEF MakeSpecial
<1>2. PICK value \in FaultsOf(attribute) :
         request' = [request EXCEPT ![attribute] = value]
  BY <1>1
<1>3. /\ place = "client" /\ Cardinality(Special) < MaxFaults
      /\ UNCHANGED <<place, app, answer, stored>>
  BY DEF MakeSpecial
<1>4. IsFiniteSet(Special) /\ Cardinality(Special) \in Nat
  BY FS_CardinalityType DEF IInv, TypeOK
<1>5. IsFiniteSet(Special') /\ Cardinality(Special') <= Cardinality(Special) + 1
  BY <1>2, <1>4, OneMoreSpecial DEF Special
<1>6. IsFiniteSet(Special') /\ Cardinality(Special') <= MaxFaults
  <2>1. Cardinality(Special') \in Nat
    BY <1>5, FS_CardinalityType
  <2>2. QED
    BY <1>3, <1>4, <1>5, <2>1, PipelinesAssumption
<1>7. /\ Attributes' = Attributes /\ Operations' = Operations
      /\ \A a : FaultsOf(a)' = FaultsOf(a)
  BY <1>3 DEF Attributes, Operations, FaultsOf
<1>8. /\ DOMAIN request' = Attributes \cup {"op"}
      /\ request'.op \in Operations
  BY <1>1, <1>2 DEF IInv, TypeOK
<1>9. \A a \in Attributes : request'[a] \in FaultsOf(a) \cup {"ok"}
  BY <1>1, <1>2 DEF IInv, TypeOK
<1>10. TypeOK'
  BY <1>3, <1>6, <1>7, <1>8, <1>9 DEF IInv, TypeOK
<1>11. HandledPassed' /\ Right'
  BY <1>3, RightBefore DEF HandledPassed
<1>12. QED
  BY <1>10, <1>11 DEF IInv

LEMMA IsRequested ==
    ASSUME TypeOK, place # "idle"
    PROVE  Requested
BY DEF TypeOK, Requested

\* Only the VWS app adds and updates targets.
LEMMA ServicesStore ==
    ASSUME Requested, request.op \in {"add", "update"}
    PROVE  app = "vws"
BY RequestedQuery, RequestedDataset DEF Requested

LEMMA SameTypeOK ==
    ASSUME TypeOK, UNCHANGED <<app, request>>, place # "idle",
           place' \in {"client", "handler", "answer"},
           answer' # "" <=> place' = "answer", stored' => place' = "answer"
    PROVE  TypeOK'
<1>1. /\ Attributes' = Attributes /\ Operations' = Operations /\ Special' = Special
      /\ \A a : FaultsOf(a)' = FaultsOf(a)
  BY DEF Attributes, Operations, FaultsOf, Special
<1>2. QED
  BY <1>1 DEF TypeOK

\* Of what is wrong with a request the first validator to find it tells.
LEMMA RefusedRight ==
    ASSUME Requested, NEW error, Raised(Verdicts, error), ~stored,
           place' = "answer", answer' = error, UNCHANGED <<app, request, stored>>
    PROVE  Right'
<1>1. CASE app = "vws"
  <2>1. /\ Refusal(error) /\ (error = Crash => UncaughtByServices(request))
        /\ request.authorization \in DOMAIN ToStranger =>
              error = ToStranger[request.authorization]
    BY <1>1, RequestedServices, ServicesRefused
  <2>2. OnlyKnownCrashes'
    BY <1>1, <2>1 DEF OnlyKnownCrashes, UncaughtByServices
  <2>3. AcknowledgedIsStored'
    BY <2>1 DEF AcknowledgedIsStored, Refusal
  <2>4. KeysComeFirst'
    BY <1>1, <2>1, RequestedServices DEF KeysComeFirst
  <2>5. QED
    BY <2>2, <2>3, <2>4 DEF Right
<1>2. CASE app = "query"
  <2>1. /\ error = Crash => UncaughtByQuery(request)
        /\ request.authorization # "ok" => error \in ToStrangerOfQuery
    BY <1>2, RequestedQuery, QueryRefused
  <2>2. OnlyKnownCrashes'
    BY <1>2, <2>1 DEF OnlyKnownCrashes, UncaughtByQuery
  <2>3. AcknowledgedIsStored'
    BY <1>2, ServicesStore DEF AcknowledgedIsStored
  <2>4. KeysComeFirst'
    BY <1>2, <2>1 DEF KeysComeFirst, ToStrangerOfQuery
  <2>5. QED
    BY <2>2, <2>3, <2>4 DEF Right
<1>3. CASE app = "dataset"
  <2>1. /\ error # Crash
        /\ request.token \in {"missing", "malformed"} =>
              error \in {"Unauthorized", "ContentLengthHeaderNotInt"}
    BY <1>3, RequestedDataset, DatasetRefused
  <2>2. OnlyKnownCrashes'
    BY <2>1 DEF OnlyKnownCrashes
  <2>3. AcknowledgedIsStored'
    BY <1>3, ServicesStore DEF AcknowledgedIsStored
  <2>4. KeysComeFirst'
    BY <1>3, <2>1 DEF KeysComeFirst
  <2>5. QED
    BY <2>2, <2>3, <2>4 DEF Right
<1>4. QED
  BY <1>1, <1>2, <1>3 DEF Requested

LEMMA ValidateIInv ==
    ASSUME IInv, Validate
    PROVE  IInv'
<1>1. /\ place = "client" /\ Requested /\ ~stored /\ answer = ""
      /\ UNCHANGED <<app, request, stored>>
  BY IsRequested DEF Validate, IInv, TypeOK
<1>2. Verdicts' = Verdicts
  BY <1>1 DEF Verdicts
<1>3. \/ /\ Passed(Verdicts) /\ place' = "handler" /\ UNCHANGED answer
      \/ /\ place' = "answer" /\ Raised(Verdicts, answer') /\ answer' # ""
  BY DEF Validate, Passed, Raised, NoError
<1>4. CASE Passed(Verdicts) /\ place' = "handler" /\ UNCHANGED answer
  <2>1. TypeOK'
    BY <1>1, <1>4, SameTypeOK DEF IInv
  <2>2. HandledPassed' /\ Right'
    BY <1>2, <1>4, RightBefore DEF HandledPassed
  <2>3. QED
    BY <2>1, <2>2 DEF IInv
<1>5. CASE place' = "answer" /\ Raised(Verdicts, answer') /\ answer' # ""
  <2>1. TypeOK'
    BY <1>1, <1>5, SameTypeOK DEF IInv
  <2>2. Right'
    BY <1>1, <1>5, RefusedRight
  <2>3. QED
    BY <1>5, <2>1, <2>2 DEF IInv, HandledPassed
<1>6. QED
  BY <1>3, <1>4, <1>5

\* Of what a handler is given no validator has found anything wrong.
LEMMA HandledRight ==
    ASSUME Requested, Passed(Verdicts), Handle
    PROVE  answer' # "" /\ Right'
<1>1. /\ place' = "answer" /\ UNCHANGED <<app, request>>
      /\ answer' = IF app = "vws" THEN Services!Handled(request)
                   ELSE IF app = "query" THEN Query!query(request)
                   ELSE Datasets!add_model_target_dataset(request)
      /\ stored' <=> /\ request.op \in {"add", "update"}
                     /\ answer' \in {"TargetCreated", "Success"}
                     /\ Services!Stored(request)
  BY DEF Handle
<1>2. CASE app = "vws"
  <2>1. /\ request.authorization = "ok"
        /\ request.op \in {"add", "update"} => Typed(request)
    BY <1>2, RequestedServices, ServicesRefused
  <2>2. /\ answer' = Crash => UncaughtByServices(request)
        /\ answer' # ""
        /\ request.op \in {"add", "update"} /\ Typed(request) =>
              \/ answer' \notin {"TargetCreated", "Success"}
              \/ Services!Stored(request)
              \/ /\ request.op = "update"
                 /\ request.image = "unpadded" \/ request.active_flag = "number"
    BY <1>1, <1>2, RequestedServices, ServicesHandled
  <2>3. OnlyKnownCrashes'
    BY <1>1, <1>2, <2>2 DEF OnlyKnownCrashes, UncaughtByServices
  <2>4. AcknowledgedIsStored'
    BY <1>1, <2>1, <2>2 DEF AcknowledgedIsStored
  <2>5. KeysComeFirst'
    BY <1>1, <1>2, <2>1 DEF KeysComeFirst
  <2>6. QED
    BY <2>2, <2>3, <2>4, <2>5 DEF Right
<1>3. CASE app = "query"
  <2>1. request.authorization = "ok" /\ answer' = "Success"
    BY <1>1, <1>3, RequestedQuery, QueryRefused
  <2>2. OnlyKnownCrashes'
    BY <2>1 DEF OnlyKnownCrashes, Crash
  <2>3. AcknowledgedIsStored'
    BY <1>1, <1>3, ServicesStore DEF AcknowledgedIsStored
  <2>4. KeysComeFirst'
    BY <1>1, <1>3, <2>1 DEF KeysComeFirst
  <2>5. QED
    BY <2>1, <2>2, <2>3, <2>4 DEF Right
<1>4. CASE app = "dataset"
  <2>1. /\ request.token \notin {"missing", "malformed"}
        /\ answer' = Datasets!add_model_target_dataset(request)
    BY <1>1, <1>4, RequestedDataset, DatasetRefused
  <2>2. /\ answer' # ""
        /\ answer' = Crash => UncaughtByDatasets(request)
    BY <2>1 DEF Datasets!add_model_target_dataset, Datasets!Crash, Crash,
       UncaughtByDatasets
  <2>3. OnlyKnownCrashes'
    BY <1>1, <1>4, <2>2 DEF OnlyKnownCrashes, UncaughtByDatasets
  <2>4. AcknowledgedIsStored'
    BY <1>1, <1>4, ServicesStore DEF AcknowledgedIsStored
  <2>5. KeysComeFirst'
    BY <1>1, <1>4, <2>1 DEF KeysComeFirst
  <2>6. QED
    BY <2>2, <2>3, <2>4, <2>5 DEF Right
<1>5. QED
  BY <1>2, <1>3, <1>4 DEF Requested

LEMMA HandleIInv ==
    ASSUME IInv, Handle
    PROVE  IInv'
<1>1. /\ place = "handler" /\ place' = "answer" /\ UNCHANGED <<app, request>>
  BY DEF Handle
<1>2. Requested /\ Passed(Verdicts)
  BY <1>1, IsRequested DEF IInv, HandledPassed
<1>3. answer' # "" /\ Right'
  BY <1>2, HandledRight
<1>4. TypeOK'
  BY <1>1, <1>3, SameTypeOK DEF IInv
<1>5. QED
  BY <1>1, <1>3, <1>4 DEF IInv, HandledPassed

LEMMA AnswerIInv ==
    ASSUME IInv, Answer
    PROVE  IInv'
<1>1. /\ DOMAIN request' = {"op"} /\ request'.op = "none"
      /\ Attributes' = {} /\ Operations' = {"none"}
  BY DEF Answer, NoRequest, Plain, Attributes, Operations
<1>2. Special' = {}
  BY <1>1 DEF Special
<1>3. IsFiniteSet(Special') /\ Cardinality(Special') <= MaxFaults
  BY <1>2, FS_EmptySet, PipelinesAssumption
<1>4. TypeOK'
  BY <1>1, <1>3 DEF Answer, TypeOK
<1>5. HandledPassed' /\ Right'
  BY RightBefore DEF Answer, HandledPassed
<1>6. QED
  BY <1>4, <1>5 DEF IInv

LEMMA StepIInv == IInv /\ [Next]_vars => IInv'
<1> SUFFICES ASSUME IInv, [Next]_vars PROVE IInv'
  OBVIOUS
<1>1. CASE Begin
  BY <1>1, BeginIInv
<1>2. CASE MakeSpecial
  BY <1>2, MakeSpecialIInv
<1>3. CASE Validate
  BY <1>3, ValidateIInv
<1>4. CASE Handle
  BY <1>4, HandleIInv
<1>5. CASE Answer
  BY <1>5, AnswerIInv
<1>6. CASE UNCHANGED vars
  <2>1. /\ Attributes' = Attributes /\ Operations' = Operations /\ Special' = Special
        /\ \A a : FaultsOf(a)' = FaultsOf(a)
        /\ Verdicts' = Verdicts
    BY <1>6 DEF vars, Attributes, Operations, FaultsOf, Special, Verdicts
  <2>2. TypeOK' /\ HandledPassed'
    BY <1>6, <2>1 DEF vars, IInv, TypeOK, HandledPassed
  <2>3. Right'
    BY <1>6 DEF vars, IInv, Right, OnlyKnownCrashes, AcknowledgedIsStored,
       KeysComeFirst, UncaughtByServices, UncaughtByQuery, UncaughtByDatasets
  <2>4. QED
    BY <2>2, <2>3 DEF IInv
<1>7. QED
  BY <1>1, <1>2, <1>3, <1>4, <1>5, <1>6 DEF Next

LEMMA SpecIInv == Spec => []IInv
BY InitIInv, StepIInv, PTL DEF Spec

-----------------------------------------------------------------------------
\* A request has the attributes of its app, each with one of the values it can
\* have, there is an answer only when it is due, and a target is stored only by
\* the request which is being answered.
THEOREM TypeCorrect == Spec => []TypeOK
BY SpecIInv, PTL DEF IInv

\* Whatever faults of those named a request to any of the three apps has, and
\* however many at once, no validator and no handler meets something that one
\* before it should have refused: an exception which nothing catches is one of
\* those known.
THEOREM CrashesStayKnown == Spec => []OnlyKnownCrashes
BY SpecIInv, PTL DEF IInv, Right

\* A new target or an update which is answered with success is one that the
\* target manager has stored, and the other way round, but for updates with an
\* image that lacks its padding or with a number for a flag.
THEOREM AcknowledgedStaysStored == Spec => []AcknowledgedIsStored
BY SpecIInv, PTL DEF IInv, Right

\* Nothing that is in a request, or in the database, changes what a caller
\* without the keys or the token is told.
THEOREM KeysAlwaysComeFirst == Spec => []KeysComeFirst
BY SpecIInv, PTL DEF IInv, Right
=============================================================================
