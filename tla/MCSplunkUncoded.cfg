\* Splunk output behind an intermediary that answers some requests with a
\* JSON body without a "code" field (for example a gateway's rate-limit
\* error). One worker, one event, no other failure.
CONSTANTS
  w1 = w1
  Workers = {w1}
  BatchSize = 1
  NumEvents = 1
  MaxFailures = 0
  UncodedAnswers = TRUE
SPECIFICATION Spec
PROPERTY ImplementsContract
