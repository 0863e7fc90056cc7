\* No administrator: only webhooks.
SPECIFICATION WebhookSpec
CONSTANTS
  NoEvent = NoEvent
  e1 = e1 e2 = e2 h1 = h1 h2 = h2
  Events = {e1, e2} Handlers = {h1, h2}
  AdminStatuses = {}
CHECK_DEADLOCK FALSE
PROPERTIES Sinks
