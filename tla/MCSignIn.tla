------------------------------ MODULE MCSignIn ------------------------------
\* SignIn for TLC.  Requests of one kind are interchangeable: they come in order.
EXTENDS SignIn

CONSTANTS s1, s2, v1, v2, v3, q1, q2, q3, u1, u2, u3, x1, light

InOrder ==
    /\ stage[s2] # "idle" => stage[s1] # "idle"
    /\ verdict[v2].as # "idle" => verdict[v1].as # "idle"
    /\ verdict[v3].as # "idle" => verdict[v2].as # "idle"
    /\ webStage[q2] # "idle" => webStage[q1] # "idle"
    /\ webStage[q3] # "idle" => webStage[q2] # "idle"
    /\ upload[u2].at # "idle" => upload[u1].at # "idle"
    /\ upload[u3].at # "idle" => upload[u2].at # "idle"

\* requests of two addresses; or uploads, at most one request a time; or preferences
Uploading == \E u \in Uploads : upload[u].at # "idle"
Limiting == \E x \in Addresses : accepted[x] # <<>>
Untouched == \A p \in People : file[p] = light
OneService ==
    /\ Uploading => /\ \A x \in Addresses \ {x1} : accepted[x] = <<>>
                    /\ Limits!AtMost(1, accepted[x1], 1)
    /\ now > 0 \/ Limiting \/ Uploading => Untouched

\* all the requests for codes and their use, or all those of sessions, or three
\* of both
OfCodes == {r \in Starts : stage[r] # "idle"} \cup {v \in Verifies : verdict[v].as # "idle"}
OfSessions == {q \in WebRequests : webStage[q] # "idle"}
RequestsInAll ==
    \/ OfCodes = {} \/ OfSessions = {}
    \/ Cardinality(OfCodes) + Cardinality(OfSessions) <= 3

\* The services run while nobody signs in.
Quiet == OfCodes = {} /\ OfSessions = {} /\ allowed
Unused == now = 0 /\ ~Limiting /\ ~Uploading /\ Untouched
Apart == Quiet \/ Unused

MCNext ==
    \/ SignInNext
    \/ \E x \in Addresses : Limits!Serve(x) /\ Quiet /\ UNCHANGED <<vars, web>>
    \/ \E u \in Uploads, x \in Addresses, a \in Accounts, size \in Limits!Sizes :
          Limits!BeginUpload(u, x, a, size) /\ Quiet /\ UNCHANGED <<vars, web>>
    \/ \E u \in Uploads : Limits!Sign(u) /\ Quiet /\ UNCHANGED <<vars, web>>
    \/ \E p \in People, theme \in Themes : Limits!Update(p, theme) /\ Quiet /\ UNCHANGED <<vars, web>>
    \/ Limits!Tick /\ Quiet /\ UNCHANGED <<vars, web>>

MCSpec == SignInInit /\ [][MCNext]_<<vars, web, services>> /\ SignInFairness
=============================================================================
