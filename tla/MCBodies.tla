------------------------------ MODULE MCBodies ------------------------------
(* Webhook deliveries, the language of the bodies they send and the filters that choose
   the events, on small instances, one after the other.                                *)
EXTENDS MCWebhookDelivery, Templates

VARIABLE part   \* which of them runs

BodiesInit ==
  /\ part \in {"deliveries", "templates", "filters"}
  /\ Init
  /\ TemplateInit
  /\ FilterInit
  /\ part # "filters" => fields = [k \in FilterLists |-> Absent]

\* What is being written may be left as it is, so only deliveries can deadlock.
BodiesNext ==
  \/ part = "deliveries" /\ Next /\ UNCHANGED <<part, templateVars, filterVars>>
  \/ part = "templates" /\ TemplateNext /\ UNCHANGED <<part, vars, filterVars>>
  \/ part = "filters" /\ FilterNext /\ UNCHANGED <<part, vars, templateVars>>
  \/ part # "deliveries" /\ UNCHANGED <<part, vars, templateVars, filterVars>>

BodiesSpec == BodiesInit /\ [][BodiesNext]_<<part, vars, templateVars, filterVars>>

\* What is written has its type; templates are read and rendered within their limits and
\* filters mean what was typed (webhook-template.ts, webhook-filters.ts).
BodiesSafe ==
  /\ TemplateTypeOK /\ FilterTypeOK
  /\ TemplatesSafe /\ FiltersSafe

SomePatterns ==
  {<<"a">>, <<" ", "A">>, <<"b">>, <<"!", "*", "b">>, <<"!">>, <<"control">>}

=============================================================================
