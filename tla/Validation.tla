------------------------------ MODULE Validation ------------------------------
(* The validators of transport/validation.py and the sanitizers of             *)
(* transport/wsgi/utils.py and common/api/utils.py.  A validator is TRUE of    *)
(* what the code lets through.  None is an argument that is not given; 0 is a  *)
(* reserved queue attribute that is absent or zero, which the code treats      *)
(* alike.                                                                      *)
EXTENDS Integers, FiniteSets

CONSTANTS
    MinTtl, MaxTtl,   \* MIN_MESSAGE_TTL and max_message_ttl
    MaxSize,          \* max_messages_post_size
    MaxMetadata,      \* max_queue_metadata
    MaxPage,          \* max_messages_per_page
    MaxClaim,         \* max_messages_per_claim_or_pop
    MinLease, MaxLease,   \* MIN_CLAIM_TTL and max_claim_ttl
    MinGrace, MaxGrace,   \* MIN_CLAIM_GRACE and max_claim_grace
    None

ASSUME ValidationAssumption ==
    /\ {MinTtl, MaxTtl, MaxSize, MaxMetadata, MaxPage, MaxClaim} \subseteq Nat \ {0}
    /\ {MinLease, MaxLease, MinGrace, MaxGrace} \subseteq Nat \ {0}
    /\ MinTtl <= MaxTtl /\ MinLease <= MaxLease /\ MinGrace <= MaxGrace
    /\ None \notin Int

\* The reserved attributes of a queue's metadata; the user's are left out.
Meta == [ttl : 0..(MaxTtl + MaxSize), size : 0..(MaxTtl + MaxSize)]
Blank == [ttl |-> 0, size |-> 0]

queue_listing(limit) == limit # None => limit \in 1..MaxPage

queue_metadata_length(length) == length # None => length <= MaxMetadata

queue_metadata_putting(meta) ==
    /\ meta.ttl # 0 => meta.ttl \in MinTtl..MaxTtl
    /\ meta.size # 0 => meta.size \in 1..MaxSize

queue_purging(types) == types # None /\ types \subseteq {"messages", "subscriptions"}

message_content(ttl) == ttl \in MinTtl..MaxTtl

\* batch gives the ttl of each message of the request.
message_posting(batch) ==
    /\ DOMAIN batch # {}
    /\ \A m \in DOMAIN batch : message_content(batch[m])

message_length(length, size) ==
    length # None => /\ size # 0 => length <= size
                     /\ length <= MaxSize

message_listing(limit) == limit # None => limit \in 1..MaxPage

message_deletion(ids, pop) ==
    /\ (ids = None) # (pop = None)
    /\ pop # None => pop \in 1..MaxClaim
    /\ ids # None => Cardinality(ids) \in 1..MaxPage

claim_updating(ttl) == ttl \in MinLease..MaxLease

claim_creation(ttl, grace, limit) ==
    /\ claim_updating(ttl)
    /\ limit # None => limit \in 1..MaxClaim
    /\ grace \in MinGrace..MaxGrace

\* A JSON patch operation: its kind, the root, length and last name of its
\* path, and the value, if one is given.
Changes == [op : {"add", "replace", "remove", "move"}, root : {"metadata", "other"},
            length : 1..2, path : {"ttl", "size", "user"},
            value : 0..(MaxTtl + MaxSize) \cup {None}]

_get_change_operation_d10(change) == change.op \in {"add", "replace", "remove"}

_validate_path(change) == change.length = 2

_get_change_value(change) == change.op # "remove" => change.value # None

_validate_change(change) == change.op # "remove" => change.root = "metadata"

queue_patching(changes) ==
    \A change \in changes :
        /\ _get_change_operation_d10(change)
        /\ _validate_path(change)
        /\ _get_change_value(change)
        /\ _validate_change(change)

\* A field of a request: what was given, or the default; without either the
\* request is refused (HTTPBadRequestBody, BadRequest).
get_checked_field(value, default) == IF value = None THEN default ELSE value

\* A batch with the fields the specification of the endpoint asks for.
sanitize(batch, default) == [m \in DOMAIN batch |-> get_checked_field(batch[m], default)]
===============================================================================
