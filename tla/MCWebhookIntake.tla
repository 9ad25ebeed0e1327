--------------------------- MODULE MCWebhookIntake ---------------------------
EXTENDS WebhookIntake

Ev(pr, h, id, action, private) ==
  [pr |-> pr, head |-> h, id |-> id, action |-> action, private |-> private]

\* One pull request opened at h1 and pushed to h2, and a delivery of each kind
\* the handler ignores.
MCEvents == {Ev("p", "h1", "d1", "opened", FALSE),
             Ev("p", "h2", "d2", "synchronize", FALSE),
             Ev("p", "h1", "d3", "closed", FALSE),
             Ev("p", "h2", "d4", "opened", TRUE)}

MCHeads == {"h1", "h2"}
==============================================================================
