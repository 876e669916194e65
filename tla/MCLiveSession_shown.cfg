SPECIFICATION OneGoSpec
CONSTANTS Session = {1, 2}
          Variants = 2
          Retries = 1
          Jsx = {}
          Inserts = {2}
          MaxPosts = 1
          MaxEvents = 1
          MaxFaults = 2
CHECK_DEADLOCK FALSE
PROPERTY GenerationIsShown
