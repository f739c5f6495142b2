----------------------------- MODULE MCSessions -----------------------------
EXTENDS Sessions, Sequences

CONSTANTS c1, c2

\* A person and a service of one provider, who share its cached keys; a
\* person of the other provider; a robot.
Configured == {[c \in Caller |-> IF c = c1 THEN "credentials" ELSE "authcode"],
               [c \in Caller |-> IF c = c1 THEN "none" ELSE "public"],
               [c \in Caller |-> IF c = c1 THEN "hmac" ELSE "none"]}

\* The second caller's tokens have scopes and roles.
Granted == [c \in Caller |-> IF c = c1
                             THEN [scp |-> {}, roles |-> {Route}]
                             ELSE [scp |-> {Route}, roles |-> {Route} \cup Entitlement]]

\* The second key has an id of its own, the third takes the second's place.
KeyIds == <<1, 2, 2>>

=============================================================================
